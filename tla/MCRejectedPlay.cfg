CONSTANTS
  Cards <- NewGameCards
  StartDeck <- NewGameDeck
  InitialPiles <- NewGamePiles
  BuyChoices <- NewGameBuys
  MaxTurn = 1
  Obedient = TRUE
  Rejections = TRUE
SPECIFICATION Spec
PROPERTY RejectionRestores
CHECK_DEADLOCK FALSE
