------------------------------- MODULE MCBots -------------------------------
(***************************************************************************)
(* Games of two bots for TLC: decks of five, so that what is bought comes  *)
(* up in time, and a supply in which what they buy runs out.               *)
(***************************************************************************)
EXTENDS BotGame

BagOf(r) == [c \in Cards |-> IF c \in DOMAIN r THEN r[c] ELSE 0]

BotCards ==
  BasicCards \cup {"smithy", "chapel", "remodel", "witch", "militia",
                   "throne_room", "library", "sentry", "merchant", "gardens"}

\* The Throne Room saves the bot that doubles its Witch the time to buy one.
BotDeck ==
  [p \in Players |-> IF p = 0 THEN BagOf([copper |-> 4, throne_room |-> 1])
                     ELSE BagOf([copper |-> 4, estate |-> 1])]

\* Three piles may run out, and the end game of ChapelBM has begun.
BotPiles ==
  [c \in Cards |->
     IF c \in BasicCards
     THEN [copper |-> 46, silver |-> 4, gold |-> 1, estate |-> 0, duchy |-> 1,
           province |-> 5, curse |-> 10][c]
     ELSE 10]

\* Every strategy plays.
Pair(a, b) == [p \in Players |-> IF p = 0 THEN a ELSE b]
BotPairings ==
  {Pair(s, "chapel_bm") :
     s \in {"bigmoney", "witch_bm", "militia_bm", "throneroom_bm", "library_bm",
            "gardens_bm"}}
  \cup {Pair("chapel_bm", s) : s \in {"remodel_bm", "sentry_bm"}}
  \cup {Pair("smithy_bm", "merchant_bm")}
=============================================================================
