CONSTANTS
  Cards <- BotCards
  StartDeck <- BotDeck
  InitialPiles <- BotPiles
  BuyChoices <- BotCards
  MaxTurn = 4
  Obedient = TRUE
  Rejections = TRUE
  Pairings <- BotPairings
SPECIFICATION FairBotSpec
INVARIANTS RefusedOnlyAtEmptyPile NotesAgree NeverBothWait
PROPERTIES PlaysByTheRules BotsPlayOn
CHECK_DEADLOCK FALSE
