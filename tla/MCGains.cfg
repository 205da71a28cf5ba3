CONSTANTS
  Cards <- WorkCards
  StartDeck <- GainDeck
  InitialPiles <- GainPiles
  BuyChoices <- GainBuys
  MaxTurn = 1
  Obedient = TRUE
  Rejections = FALSE
SPECIFICATION Spec
INVARIANTS PromptsAreHonest CardsConserved WinnersOwnMost
PROPERTY EndsBetweenTurns
CHECK_DEADLOCK FALSE
