CONSTANTS
  Cards <- RaidCards
  StartDeck <- RaidDeck
  InitialPiles <- NewGamePiles
  BuyChoices <- NoBuys
  MaxTurn = 2
  Obedient = TRUE
  Rejections = FALSE
SPECIFICATION Spec
PROPERTY BanditTakesWhatItShows
CHECK_DEADLOCK FALSE
