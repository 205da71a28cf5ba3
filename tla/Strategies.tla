----------------------------- MODULE Strategies -----------------------------
(***************************************************************************)
(* What the bots of internal/bot decide from the snapshot they are sent:   *)
(* the eleven strategies, and safeRefusal, with which they answer prompts  *)
(* they have no rule for.                                                  *)
(*                                                                         *)
(* A hand is a bag here, so "the first card in hand that ..." is any card  *)
(* that ..., and a strategy yields the set of what it may decide.  The     *)
(* supply comes out of a Go map, in any order.                             *)
(***************************************************************************)
EXTENDS GameState, FiniteSetsExt

Names ==
  {"bigmoney", "smithy_bm", "chapel_bm", "remodel_bm", "witch_bm", "militia_bm",
   "throneroom_bm", "library_bm", "sentry_bm", "merchant_bm", "gardens_bm"}

\* A bot: the turns ClientState counts, the strategy's own counter of the cards
\* it set out to buy (a flag in most strategies) and the Coppers a ChapelBM
\* noted as trashed; `stopped': Run has returned an error.
Bot ==
  [name : Names, turns : Nat, lastTurn : Nat, bought : Nat, trashed : Nat,
   stopped : BOOLEAN]

NewBot(name) ==
  [name |-> name, turns |-> 0, lastTurn |-> 0, bought |-> 0, trashed |-> 0,
   stopped |-> FALSE]

(***************************************************************************)
(* SnapshotFromState for viewer p, as far as a bot reads it.               *)
(***************************************************************************)
Snapshot(g, p) ==
  [hand |-> g.players[p].hand, actions |-> g.players[p].actions,
   buys |-> g.players[p].buys, coins |-> g.players[p].coins,
   turn |-> g.turn, current |-> g.current, phase |-> g.phase,
   supply |-> g.supply, decision |-> g.decision, ended |-> g.ended]

\* Mutant of Reduce: every snapshot of an own turn counts as a turn.
ReduceEachEvent(b, p, v) ==
  IF v.current = p THEN [b EXCEPT !.turns = @ + 1, !.lastTurn = v.turn] ELSE b

\* ClientState.Apply on a snapshot.
Reduce(b, p, v) ==
  IF v.current = p /\ v.turn # b.lastTurn
  THEN [b EXCEPT !.turns = @ + 1, !.lastTurn = v.turn] ELSE b

\* The kind of prompt DecisionToProto writes for decision d.
PromptKind(d) ==
  CASE d.card \in {"militia", "poacher", "cellar"} -> "DiscardFromHand"
    [] d.card \in {"chapel", "moneylender"} -> "TrashFromHand"
    [] d.card \in {"remodel", "mine"} ->
         IF d.step = 0 THEN "TrashFromHand" ELSE "GainFromSupply"
    [] d.card = "workshop" -> "GainFromSupply"
    [] d.card = "artisan" -> IF d.step = 0 THEN "GainFromSupply" ELSE "PutOnDeck"
    [] d.card = "harbinger" -> "ChooseFromDiscard"
    [] d.card = "bureaucrat" -> "PutOnDeck"
    [] d.card = "bandit" -> "TrashFromRevealed"
    [] d.card = "sentry" ->
         <<"TrashFromRevealed", "DiscardFromRevealed", "ReorderCards">>[d.step + 1]
    [] d.card = "vassal" -> "MayPlayAction"
    [] d.card = "library" -> "SetAsideAction"
    [] d.card = "throne_room" -> "ChooseActionFromHand"

-----------------------------------------------------------------------------
(***************************************************************************)
(* The card tables the bots keep of their own.                             *)
(***************************************************************************)
IsTreasure(c) == c \in {"copper", "silver", "gold"}
IsVictory(c) == c \in {"estate", "duchy", "province", "gardens"}
IsAction(c) ==
  c \in {"smithy", "village", "festival", "laboratory", "market",
         "council_room", "moat", "harbinger", "vassal", "workshop",
         "moneylender", "poacher", "remodel", "mine", "artisan", "cellar",
         "chapel", "witch", "militia", "bureaucrat", "bandit", "throne_room",
         "library", "sentry", "merchant"}

CardCost(c) ==
  CASE c \in {"copper", "curse"} -> 0
    [] c \in {"estate", "moat"} -> 2
    [] c \in {"silver", "cellar", "chapel", "village", "merchant", "harbinger",
              "vassal", "workshop"} -> 3
    [] c \in {"militia", "bureaucrat", "moneylender", "poacher", "remodel",
              "smithy", "throne_room", "gardens"} -> 4
    [] c \in {"mine", "witch", "bandit", "laboratory", "market", "festival",
              "library", "sentry", "duchy"} -> 5
    [] c \in {"gold", "artisan", "council_room"} -> 6
    [] c = "province" -> 8
    [] OTHER -> 0

SupplyCount(v, c) == IF c \in DOMAIN v.supply THEN v.supply[c] ELSE 0
HandContains(v, c) == c \in DOMAIN v.hand /\ v.hand[c] > 0
InHandOf(v) == {c \in DOMAIN v.hand : v.hand[c] > 0}

\* Mutant of PickFirstN: one card more.
PickFirstNOneMore(h, n) ==
  {[c \in Cards |-> Cardinality({x \in copies : x[1] = c})] :
     copies \in kSubset(n + 1, Copies(h))}

\* The bags of n cards of hand h; all of h when it holds fewer (pickFirstN).
PickFirstN(h, n) ==
  IF n >= Size(h) THEN {h}
  ELSE {[c \in Cards |-> Cardinality({x \in copies : x[1] = c})] :
          copies \in kSubset(n, Copies(h))}

\* The members of S no other member costs less than, or more than.
Cheapest(S) == {c \in S : \A d \in S : CardCost(c) <= CardCost(d)}
Dearest(S) == {c \in S : \A d \in S : CardCost(c) >= CardCost(d)}
OrElse(S, T) == IF S = {} THEN T ELSE S

-----------------------------------------------------------------------------
(***************************************************************************)
(* Answers.                                                                *)
(***************************************************************************)
\* Piles a gain prompt of limit n lets a bot think of.
WithinCost(v, n) == {c \in DOMAIN v.supply : v.supply[c] > 0 /\ CardCost(c) <= n}

SafeRefusal(v, d) ==
  LET kind == PromptKind(d)
      hand == InHandOf(v)
      choices(S) == {[choice |-> c] : c \in S}
  IN  CASE kind = "DiscardFromHand" -> {[list |-> b] : b \in PickFirstN(v.hand, d.min)}
        [] kind = "TrashFromHand" -> {[list |-> EmptyBag]}
        [] kind = "GainFromSupply" ->
             choices(OrElse(Cheapest(WithinCost(v, d.limit)), {"copper"}))
        [] kind = "ChooseFromDiscard" -> choices({NoCard})
        [] kind = "PutOnDeck" ->
             IF d.card = "bureaucrat"
             THEN {[list |-> OneOf(c)] :
                     c \in OrElse({x \in hand : IsVictory(x)}, hand)}
             ELSE choices(OrElse(hand, {NoCard}))
        [] kind = "TrashFromRevealed" ->
             choices(OrElse(Cheapest({d.shown[i] : i \in DOMAIN d.shown}), {NoCard}))
        [] kind \in {"MayPlayAction", "SetAsideAction"} -> {[yes |-> FALSE]}
        [] kind = "ChooseActionFromHand" ->
             choices(OrElse({c \in hand : IsAction(c)}, hand))
        [] kind = "DiscardFromRevealed" -> {[order |-> <<>>]}
        [] kind = "ReorderCards" -> {[order |-> d.shown]}

\* resolveChapel: Estates, then Coppers as long as more than three are left.
ChapelTrashes(b, v, d) ==
  LET estates == IF v.hand["estate"] < d.max THEN v.hand["estate"] ELSE d.max
      spare == IF b.trashed < 4 THEN 4 - b.trashed ELSE 0
      coppers == CHOOSE n \in 0..d.max :
                   /\ n <= v.hand["copper"] /\ n <= spare /\ n <= d.max - estates
                   /\ \/ n = v.hand["copper"] \/ n = spare \/ n = d.max - estates
  IN  [c \in Cards |-> CASE c = "estate" -> estates
                         [] c = "copper" -> coppers [] OTHER -> 0]

\* resolveRemodel: an Estate or else the cheapest card goes, and the best pile
\* within the limit is gained.
RemodelAnswers(v, d) ==
  LET hand == InHandOf(v)
      within(c) == CardCost(c) <= d.limit /\ SupplyCount(v, c) > 0
      priorities == <<"province", "gold", "silver", "duchy">>
      wanted == {i \in 1..4 : within(priorities[i])}
      first == CHOOSE i \in wanted : \A j \in wanted : i <= j
  IN  IF d.step = 0
      THEN {[list |-> OneOf(c)] :
              c \in IF HandContains(v, "estate") THEN {"estate"} ELSE Cheapest(hand)}
      ELSE {[choice |-> c] :
              c \in IF wanted # {} THEN {priorities[first]}
                    ELSE OrElse(Dearest(WithinCost(v, d.limit)), {"copper"})}

MilitiaKeepValue(c) ==
  CASE c = "gold" -> 100 [] c = "silver" -> 90 [] c = "copper" -> 80
    [] c = "curse" -> -10 [] c \in {"estate", "duchy", "province"} -> 0
    [] OTHER -> 50

\* resolveMilitiaDiscard: the cards at the end of the hand sorted by value.
MilitiaDiscards(v, n) ==
  {b \in PickFirstN(v.hand, n) :
     \A c, d \in Cards : b[c] > 0 /\ b[d] < v.hand[d] =>
                           MilitiaKeepValue(c) <= MilitiaKeepValue(d)}

\* resolveTrash of SentryBM.
SentryTrashes(d) ==
  LET trashed[k \in 0..Len(d.shown)] ==
        IF k = 0 THEN <<>>
        ELSE IF d.shown[k] \in {"curse", "estate"}
        THEN Append(trashed[k - 1], d.shown[k]) ELSE trashed[k - 1]
  IN  trashed[Len(d.shown)]

\* resolveChooseAction of ThroneRoomBM.
ThroneRoomTargets(v) ==
  LET actions == {c \in InHandOf(v) : IsAction(c)}
  IN  IF HandContains(v, "witch") THEN {"witch"}
      ELSE OrElse(OrElse(actions \ {"throne_room"}, actions), {NoCard})

\* Strategy.Resolve.
Resolve(b, v) ==
  LET d == v.decision
  IN  CASE b.name = "chapel_bm" /\ d.card = "chapel" ->
             {[list |-> ChapelTrashes(b, v, d)]}
        [] b.name = "remodel_bm" /\ d.card = "remodel" -> RemodelAnswers(v, d)
        [] b.name = "militia_bm" /\ d.card = "militia" ->
             {[list |-> c] : c \in MilitiaDiscards(v, d.min)}
        [] b.name = "sentry_bm" /\ d.card = "sentry" /\ d.step = 0 ->
             {[order |-> SentryTrashes(d)]}
        [] b.name = "throneroom_bm" /\ d.card = "throne_room" ->
             {[choice |-> c] : c \in ThroneRoomTargets(v)}
        [] OTHER -> SafeRefusal(v, d)

-----------------------------------------------------------------------------
(***************************************************************************)
(* The Action phase: the cards a strategy may play.                        *)
(***************************************************************************)
\* hasTrashableCards.
HasTrashableCards(b, v) ==
  \/ HandContains(v, "estate")
  \/ HandContains(v, "copper") /\ 7 - b.trashed > 3

ThroneRoomPlays(v) ==
  LET actions == {c \in InHandOf(v) : IsAction(c)}
  IN  IF HandContains(v, "throne_room") /\ actions # {"throne_room"}
      THEN {"throne_room"}
      ELSE IF HandContains(v, "witch") THEN {"witch"} ELSE actions

\* The card each strategy is named for.
Signature ==
  [smithy_bm |-> "smithy", chapel_bm |-> "chapel", remodel_bm |-> "remodel",
   witch_bm |-> "witch", militia_bm |-> "militia", library_bm |-> "library",
   sentry_bm |-> "sentry", merchant_bm |-> "merchant"]

ActionPlays(b, v) ==
  IF v.actions < 1 \/ b.name \in {"bigmoney", "gardens_bm"} THEN {}
  ELSE CASE b.name = "throneroom_bm" -> ThroneRoomPlays(v)
         [] b.name = "chapel_bm" ->
              {c \in {"chapel"} : HandContains(v, c) /\ HasTrashableCards(b, v)}
         [] OTHER -> {c \in {Signature[b.name]} : HandContains(v, c)}

-----------------------------------------------------------------------------
(***************************************************************************)
(* The Buy phase.  Each strategy goes down a ladder of rungs and buys the  *)
(* card of the first one that holds; a `noted' rung counts in `bought'.    *)
(***************************************************************************)
Rung(c, holds) == [card |-> c, holds |-> holds, noted |-> FALSE]
Noted(c, holds) == [card |-> c, holds |-> holds, noted |-> TRUE]

\* Mutant of Affords: the pile is not looked at.
AffordsUnseen(v, c, n) == v.coins >= n

Affords(v, c, n) == v.coins >= n /\ SupplyCount(v, c) > 0
TurnsIn(b, lo, hi) == lo <= b.turns /\ b.turns <= hi

\* The ladder most strategies share, with rungs of their own between.
Economy(v, own) ==
  <<Rung("province", Affords(v, "province", 8)), Rung("gold", Affords(v, "gold", 6))>>
  \o own \o <<Rung("silver", Affords(v, "silver", 3))>>

BigMoneyBuys(v) ==
  <<Rung("province", v.coins >= 8), Rung("gold", v.coins >= 6),
    Rung("silver", v.coins >= 3)>>

SmithyBuys(b, v) ==
  LET endgame == SupplyCount(v, "province") <= 4
      smithysOwned == 10 - SupplyCount(v, "smithy")
  IN  <<Rung("province", v.coins >= 8), Rung("gold", v.coins >= 6),
        Rung("duchy", endgame /\ Affords(v, "duchy", 5)),
        Rung("smithy", v.coins >= 4 /\ b.turns <= 4 /\ smithysOwned < 2),
        Rung("silver", v.coins >= 3)>>

ChapelBuys(b, v) ==
  LET endgame == SupplyCount(v, "province") <= 5
  IN  <<Rung("province", Affords(v, "province", 8)),
        Rung("duchy", endgame /\ Affords(v, "duchy", 5)),
        Rung("gold", Affords(v, "gold", 6)),
        Rung("estate", endgame /\ Affords(v, "estate", 2)),
        Noted("chapel", b.bought = 0 /\ b.turns <= 2 /\ Affords(v, "chapel", 2)),
        Rung("silver", Affords(v, "silver", 3))>>

RemodelBuys(b, v) ==
  LET endgame == SupplyCount(v, "province") <= 4
  IN  Economy(v, <<Rung("duchy", endgame /\ Affords(v, "duchy", 5)),
                   Noted("remodel", b.bought = 0 /\ b.turns <= 4
                                    /\ Affords(v, "remodel", 4))>>)

WitchBuys(b, v) ==
  Economy(v, <<Noted("witch", TurnsIn(b, 3, 4) /\ b.bought = 0
                              /\ Affords(v, "witch", 5))>>)

MilitiaBuys(b, v) ==
  Economy(v, <<Noted("militia", TurnsIn(b, 3, 4) /\ b.bought = 0
                                /\ Affords(v, "militia", 4))>>)

ThroneRoomBuys(b, v) ==
  Economy(v, <<Noted("witch", TurnsIn(b, 3, 6) /\ b.bought = 0
                              /\ Affords(v, "witch", 5)),
               Rung("throne_room", v.coins = 4 /\ TurnsIn(b, 3, 6) /\ b.bought > 0
                                   /\ Affords(v, "throne_room", 4))>>)

LibraryBuys(b, v) ==
  Economy(v, <<Noted("library", b.bought < 2 /\ Affords(v, "library", 5))>>)

SentryBuys(b, v) ==
  Economy(v, <<Noted("sentry", b.bought < 1 /\ Affords(v, "sentry", 5))>>)

MerchantBuys(b, v) ==
  Economy(v, <<Noted("merchant", b.bought < 2 /\ Affords(v, "merchant", 3))>>)

GardensBuys(b, v) ==
  Economy(v, <<Noted("gardens", b.bought < 4 /\ Affords(v, "gardens", 4))>>)
  \o <<Rung("copper", Affords(v, "copper", 0))>>

Ladder(b, v) ==
  CASE b.name = "bigmoney" -> BigMoneyBuys(v)
    [] b.name = "smithy_bm" -> SmithyBuys(b, v)
    [] b.name = "chapel_bm" -> ChapelBuys(b, v)
    [] b.name = "remodel_bm" -> RemodelBuys(b, v)
    [] b.name = "witch_bm" -> WitchBuys(b, v)
    [] b.name = "militia_bm" -> MilitiaBuys(b, v)
    [] b.name = "throneroom_bm" -> ThroneRoomBuys(b, v)
    [] b.name = "library_bm" -> LibraryBuys(b, v)
    [] b.name = "sentry_bm" -> SentryBuys(b, v)
    [] b.name = "merchant_bm" -> MerchantBuys(b, v)
    [] b.name = "gardens_bm" -> GardensBuys(b, v)

-----------------------------------------------------------------------------
(***************************************************************************)
(* What bot b submits for player p on view v, and what it notes.           *)
(***************************************************************************)
End(p) == [kind |-> "end", player |-> p]
Play(p, c) == [kind |-> "play", player |-> p, card |-> c]
Buy(p, c) == [kind |-> "buy", player |-> p, card |-> c]

BuyFrom(b, p, ladder) ==
  LET holding == {i \in DOMAIN ladder : ladder[i].holds}
      rung == ladder[CHOOSE i \in holding : \A j \in holding : i <= j]
  IN  IF holding = {} THEN [act |-> End(p), bot |-> b]
      ELSE [act |-> Buy(p, rung.card),
            bot |-> IF rung.noted THEN [b EXCEPT !.bought = @ + 1] ELSE b]

\* Strategy.PickAction.
PickAction(b, p, v) ==
  LET plays == IF v.phase = "action" THEN ActionPlays(b, v)
               ELSE {c \in InHandOf(v) : IsTreasure(c)}
  IN  IF plays # {} THEN {[act |-> Play(p, c), bot |-> b] : c \in plays}
      ELSE IF v.phase = "action" \/ v.buys <= 0 THEN {[act |-> End(p), bot |-> b]}
      ELSE {BuyFrom(b, p, Ladder(b, v))}

\* Strategy.Resolve as an action; ChapelBM notes the Coppers it trashes.
ResolveAction(b, p, v) ==
  LET noted(answer) ==
        IF b.name = "chapel_bm" /\ v.decision.card = "chapel"
        THEN [b EXCEPT !.trashed = @ + answer.list["copper"]] ELSE b
  IN  {[act |-> [kind |-> "resolve", player |-> p, id |-> v.decision.id,
                 answer |-> answer],
        bot |-> noted(answer)] : answer \in Resolve(b, v)}

\* Mutant of Submissions: whose turn it is comes before who is asked.
SubmissionsOwnTurn(b, p, v) ==
  IF v.ended \/ v.current # p THEN {}
  ELSE IF v.decision = NoDecision THEN PickAction(b, p, v)
  ELSE IF v.decision.player = p THEN ResolveAction(b, p, v) ELSE {}

\* The cases of driveOnce in which the bot submits something.
Submissions(b, p, v) ==
  IF v.ended THEN {}
  ELSE IF v.decision # NoDecision
  THEN IF v.decision.player = p THEN ResolveAction(b, p, v) ELSE {}
  ELSE IF v.current = p THEN PickAction(b, p, v) ELSE {}
=============================================================================
