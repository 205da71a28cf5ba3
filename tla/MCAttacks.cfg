CONSTANTS
  Cards <- AttackCards
  StartDeck <- AttackDeck
  InitialPiles <- NewGamePiles
  BuyChoices <- NoBuys
  MaxTurn = 1
  Obedient = TRUE
  Rejections = FALSE
SPECIFICATION Spec
INVARIANTS PromptsAreHonest VictimsCanAnswer
PROPERTY MoatProtects
CHECK_DEADLOCK FALSE
