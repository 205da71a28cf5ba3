CONSTANTS
  Cards <- ChaosCards
  StartDeck <- ChaosDeck
  InitialPiles <- ChaosPiles
  BuyChoices <- NoBuys
  MaxTurn = 1
  Obedient = FALSE
  Rejections = TRUE
SPECIFICATION Spec
PROPERTY RejectionKeepsDecision
CHECK_DEADLOCK FALSE
