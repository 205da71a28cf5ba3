------------------------------ MODULE MCEngine ------------------------------
(***************************************************************************)
(* Instances of Engine for TLC.  Each cfg picks a kingdom, the cards the   *)
(* players own when the instance starts and the supply they start with.    *)
(***************************************************************************)
EXTENDS BotAnswers

\* Bags written as a record of the non-zero counts.
BagOf(r) == [c \in Cards |-> IF c \in DOMAIN r THEN r[c] ELSE 0]

\* NewGame's own numbers: 7 Coppers and 3 Estates each, and the supply.
Each(deck) == [p \in Players |-> deck]
NewGameDeck == Each(BagOf([copper |-> 7, estate |-> 3]))
NewGamePiles ==
  [c \in Cards |-> IF IsKingdom(c) THEN 10
                   ELSE [copper |-> 46, silver |-> 40, gold |-> 30, estate |-> 8,
                         duchy |-> 8, province |-> 8, curse |-> 10][c]]
\* A supply run down in some piles.
Left(r) == [c \in Cards |-> IF c \in DOMAIN r THEN r[c] ELSE NewGamePiles[c]]
NewGameCards == BasicCards \cup {"village", "chapel"}
NewGameBuys == {"village", "chapel", "silver"}

\* One player owns the cards under study, the other one five plain cards.
Against(deck, other) == [p \in Players |-> IF p = 0 THEN deck ELSE other]

\* Replays: Throne Rooms over a prompt of one's own, of the opponent and of
\* another Throne Room.
ThroneCards ==
  BasicCards \cup {"throne_room", "militia", "cellar", "vassal", "village", "moneylender"}
ThroneDeck ==
  Against(BagOf([throne_room |-> 2, militia |-> 1, cellar |-> 1, vassal |-> 1,
                 copper |-> 1]),
          BagOf([village |-> 1, moneylender |-> 1, copper |-> 2, estate |-> 1]))

\* Cards set aside and moved about the deck, a Merchant, and an opponent whose
\* Council Room draws from that deck too.
SiftCards ==
  BasicCards \cup {"sentry", "library", "vassal", "harbinger", "merchant",
                   "council_room"}
SiftDeck ==
  Against(BagOf([sentry |-> 2, library |-> 1, vassal |-> 1, harbinger |-> 1,
                 merchant |-> 1, silver |-> 1, estate |-> 2]),
          BagOf([council_room |-> 1, copper |-> 4]))

\* All four attacks against a deck with a Moat.
AttackCards ==
  BasicCards \cup {"bandit", "bureaucrat", "witch", "militia", "moat", "festival",
                   "market"}
AttackDeck ==
  Against(BagOf([bandit |-> 1, bureaucrat |-> 1, witch |-> 1, militia |-> 1,
                 festival |-> 1]),
          BagOf([moat |-> 1, silver |-> 2, gold |-> 1, market |-> 1, copper |-> 1,
                 estate |-> 1, duchy |-> 1]))

\* Gains from piles that run out, until the game ends; ten cards make Gardens
\* worth a point.  The opponent's Poacher leaves a hand of one card.
WorkCards ==
  BasicCards \cup {"workshop", "artisan", "remodel", "mine", "poacher", "gardens",
                   "laboratory"}
GainDeck ==
  Against(BagOf([workshop |-> 1, artisan |-> 1, remodel |-> 1, mine |-> 1,
                 poacher |-> 1, gardens |-> 1, copper |-> 1]),
          BagOf([poacher |-> 1, laboratory |-> 1, estate |-> 1]))
GainPiles == Left([duchy |-> 0, gold |-> 1, silver |-> 1, estate |-> 1])
GainBuys == {"estate"}

NoBuys == {}

\* Answers and calls that break the rules, while cards are set aside, replays
\* are owed and the opponent must discard.
ChaosCards == BasicCards \cup {"throne_room", "militia", "sentry", "mine"}
ChaosDeck ==
  Against(BagOf([throne_room |-> 1, militia |-> 1, sentry |-> 1, mine |-> 1,
                 copper |-> 4]),
          BagOf([copper |-> 5]))
ChaosPiles == Left([gold |-> 1, silver |-> 0])

\* Treasures of one kind only, on top of the deck and below.
RaidCards == BasicCards \cup {"bandit", "militia", "village"}
RaidDeck ==
  Against(BagOf([bandit |-> 2, militia |-> 1, village |-> 2]),
          BagOf([silver |-> 8]))
=============================================================================
