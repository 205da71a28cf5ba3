CONSTANTS
  Cards <- ChaosCards
  StartDeck <- ChaosDeck
  InitialPiles <- ChaosPiles
  BuyChoices <- NoBuys
  MaxTurn = 1
  Obedient = FALSE
  Rejections = TRUE
SPECIFICATION Spec
INVARIANTS TypeOK CardsConserved IdlePlayerIsClean
PROPERTY FollowsProtocol
CHECK_DEADLOCK FALSE
