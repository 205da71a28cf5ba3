CONSTANTS
  Cards <- NewGameCards
  StartDeck <- NewGameDeck
  InitialPiles <- NewGamePiles
  BuyChoices <- NewGameBuys
  MaxTurn = 2
  Obedient = TRUE
  Rejections = FALSE
SPECIFICATION Spec
INVARIANT CardsConserved
PROPERTY DealsFive
CHECK_DEADLOCK FALSE
