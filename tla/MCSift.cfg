CONSTANTS
  Cards <- SiftCards
  StartDeck <- SiftDeck
  InitialPiles <- NewGamePiles
  BuyChoices <- NoBuys
  MaxTurn = 1
  Obedient = TRUE
  Rejections = FALSE
SPECIFICATION Spec
INVARIANTS SetAsideIsShown CardsConserved IdlePlayerIsClean
CHECK_DEADLOCK FALSE
