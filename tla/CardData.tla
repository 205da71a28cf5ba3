------------------------------ MODULE CardData ------------------------------
(***************************************************************************)
(* The static card definitions of internal/engine/cards and the card       *)
(* metadata of internal/engine/card.go.  CONSTANT Cards is the set of      *)
(* supply piles of one game: the basic cards NewGame always lays out that  *)
(* the instance keeps, and the kingdom chosen for it.                      *)
(***************************************************************************)
EXTENDS Integers, FiniteSets

CONSTANT Cards  \* the card IDs with a supply pile in this game

\* Every card registered by the init functions of the package cards.
CardTypes ==
  [copper |-> {"treasure"}, silver |-> {"treasure"}, gold |-> {"treasure"},
   estate |-> {"victory"}, duchy |-> {"victory"}, province |-> {"victory"},
   gardens |-> {"victory"}, curse |-> {"curse"},
   artisan |-> {"action"}, bandit |-> {"action", "attack"},
   bureaucrat |-> {"action", "attack"}, cellar |-> {"action"},
   chapel |-> {"action"}, council_room |-> {"action"},
   festival |-> {"action"}, harbinger |-> {"action"},
   laboratory |-> {"action"}, library |-> {"action"}, market |-> {"action"},
   merchant |-> {"action"}, militia |-> {"action", "attack"},
   mine |-> {"action"}, moat |-> {"action", "reaction"},
   moneylender |-> {"action"}, poacher |-> {"action"},
   remodel |-> {"action"}, sentry |-> {"action"}, smithy |-> {"action"},
   throne_room |-> {"action"}, vassal |-> {"action"}, village |-> {"action"},
   witch |-> {"action", "attack"}, workshop |-> {"action"}]

\* The Cost field of each registered card.
Cost ==
  [copper |-> 0, silver |-> 3, gold |-> 6, estate |-> 2, duchy |-> 5,
   province |-> 8, gardens |-> 4, curse |-> 0, artisan |-> 6, bandit |-> 5,
   bureaucrat |-> 4, cellar |-> 2, chapel |-> 2, council_room |-> 5,
   festival |-> 5, harbinger |-> 3, laboratory |-> 5, library |-> 5,
   market |-> 5, merchant |-> 3, militia |-> 4, mine |-> 5, moat |-> 2,
   moneylender |-> 4, poacher |-> 4, remodel |-> 4, sentry |-> 5,
   smithy |-> 4, throne_room |-> 4, vassal |-> 3, village |-> 3,
   witch |-> 5, workshop |-> 3]

\* Registry.Lookup succeeds exactly on these IDs.
Registered == DOMAIN CardTypes

HasType(c, t) == t \in CardTypes[c]

\* Card.IsKingdom: any action, or a victory card that is not a basic one.
IsKingdom(c) ==
  \/ HasType(c, "action")
  \/ HasType(c, "victory") /\ c \notin {"estate", "duchy", "province"}

\* Card.VictoryPoints of a card for a player who owns n cards (gardens counts
\* them); a card without the function is worth nothing.
VictoryPoints(c, n) ==
  CASE c = "estate" -> 1 [] c = "duchy" -> 3 [] c = "province" -> 6
    [] c = "curse" -> -1 [] c = "gardens" -> n \div 10 [] OTHER -> 0

\* The piles NewGame lays out in every game.
BasicCards ==
  {"copper", "silver", "gold", "estate", "duchy", "province", "curse"}

\* resolveKingdom admits registered kingdom cards only.
ASSUME CardsAssumption ==
  /\ IsFiniteSet(Cards)
  /\ BasicCards \subseteq Cards
  /\ Cards \subseteq Registered
  /\ \A c \in Cards \ BasicCards : IsKingdom(c)
=============================================================================
