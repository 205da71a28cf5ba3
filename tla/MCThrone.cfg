CONSTANTS
  Cards <- ThroneCards
  StartDeck <- ThroneDeck
  InitialPiles <- NewGamePiles
  BuyChoices <- NoBuys
  MaxTurn = 1
  Obedient = TRUE
  Rejections = FALSE
SPECIFICATION FairSpec
INVARIANTS ReplayAwaitsDecision OneReplayPerCopy
PROPERTIES FollowsProtocol TurnsEnd
CHECK_DEADLOCK FALSE
