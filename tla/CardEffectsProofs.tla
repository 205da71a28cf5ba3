------------------------- MODULE CardEffectsProofs -------------------------
(***************************************************************************)
(* What every OnPlay and OnResolve keeps, whatever cards are in the game:  *)
(* the types, the cards, the turn, what the waiting player has, and the    *)
(* shape of the decision they may leave behind.                            *)
(***************************************************************************)
EXTENDS CardEffects, GameStateProofs

\* The cards whose OnResolve runs for the victim of an attack.
AttackAskers == {"militia", "bureaucrat", "bandit"}

\* Nobody but the current player is asked, except by an attack.
CurrentAsks(g) ==
  g.decision # NoDecision =>
    g.decision.card \in AttackAskers \/ g.decision.player = g.current

\* The card a Library asks about is among the cards it has set aside.
LibraryShown(g) ==
  (g.decision # NoDecision /\ g.decision.card = "library") =>
    InSeq(g.decision.shown[1], g.players[g.decision.player].setAside)

Replays(g, c) == {i \in DOMAIN g.pendingPlays : g.pendingPlays[i].card = c}

\* Every replay owed is the current player's, and no copy in play is owed two.
ReplaysInPlay(g) ==
  /\ \A i \in DOMAIN g.pendingPlays : g.pendingPlays[i].player = g.current
  /\ \A c \in Cards : Cardinality(Replays(g, c)) <= g.players[g.current].inPlay[c]

\* No decision is left, or one under the next number.
Asks(g, h) ==
  \/ h.decision = NoDecision /\ h.decisionSeq = g.decisionSeq
  \/ h.decision # NoDecision /\ h.decisionSeq = g.decisionSeq + 1

(***************************************************************************)
(* Where the effects of cards lead from a state without a decision.        *)
(***************************************************************************)
Ready(g) == g \in GameStates /\ g.decision = NoDecision /\ ReplaysInPlay(g)

Outcome(g) ==
  {h \in GameStates :
     /\ SameTurn(g, h) /\ SameExisting(g, h) /\ SameWaiting(g, h) /\ Asks(g, h)
     /\ CurrentAsks(h) /\ LibraryShown(h) /\ ReplaysInPlay(h)}

LEMMA MovedReady ==
  ASSUME NEW g, Ready(g), NEW h \in Moved(g)
  PROVE  Ready(h) /\ h \in Outcome(g)
<1>1. ReplaysInPlay(h)
  <2>1. h.pendingPlays = g.pendingPlays /\ h.current = g.current
        /\ h.players[h.current].inPlay = g.players[g.current].inPlay
    BY PlayersFact DEF Moved, Ready, SameTurn, SameInPlay
  <2>2. \A c : Replays(h, c) = Replays(g, c)
    BY <2>1 DEF Replays
  <2> QED
    BY <2>1, <2>2 DEF Ready, ReplaysInPlay
<1>2. h \in GameStates /\ h.decision = NoDecision
  BY DEF Moved, Ready
<1> QED
  BY <1>1, <1>2 DEF Moved, Ready, Outcome, Asks, CurrentAsks, LibraryShown

LEMMA MovedOutcome ==
  ASSUME NEW g, Ready(g), NEW h \in Moved(g), NEW k \in Outcome(h)
  PROVE  k \in Outcome(g)
BY DEF Moved, Outcome, Asks, SameTurn, SameExisting, SameWaiting, SameMeans

LEMMA OutcomeTwice ==
  ASSUME NEW g, NEW h \in Outcome(g), h.decision = NoDecision, NEW k \in Outcome(h)
  PROVE  Ready(h) /\ k \in Outcome(g)
BY DEF Ready, Outcome, Asks, SameTurn, SameExisting, SameWaiting, SameMeans

Prompts == [min : Nat, max : Nat, limit : Nat, shown : Seq(Cards)]

LEMMA PromptTypes ==
  /\ NoPrompt \in Prompts
  /\ \A m, n \in Nat : HandPrompt(m, n) \in Prompts
  /\ \A n \in Nat : GainPrompt(n) \in Prompts
  /\ \A s \in Seq(Cards) : ShownPrompt(s) \in Prompts
<1>1. <<>> \in Seq(Cards)
  OBVIOUS
<1> QED
  BY <1>1 DEF Prompts, NoPrompt, HandPrompt, GainPrompt, ShownPrompt

LEMMA AskedShape ==
  ASSUME NEW g \in GameStates, NEW p \in Players, NEW c \in Askers,
         NEW s \in 0..2, NEW prompt \in Prompts
  PROVE  LET h == RequestDecision(g, p, c, s, prompt)
         IN  /\ h \in GameStates
             /\ SameTurn(g, h) /\ SameExisting(g, h) /\ SameWaiting(g, h)
             /\ h.players = g.players /\ h.pendingPlays = g.pendingPlays
             /\ h.decisionSeq = g.decisionSeq + 1 /\ h.decision # NoDecision
             /\ h.decision.card = c /\ h.decision.player = p
             /\ h.decision.shown = prompt.shown
<1> DEFINE d == [card |-> c, id |-> g.decisionSeq + 1, player |-> p,
                 step |-> s, min |-> prompt.min, max |-> prompt.max,
                 limit |-> prompt.limit, shown |-> prompt.shown]
           h == RequestDecision(g, p, c, s, prompt)
<1>1. d \in Decision /\ d # NoDecision
  <2>1. g.decisionSeq + 1 \in Nat
    BY DEF GameStates
  <2>2. d \in Decision
    BY <2>1 DEF Decision, Prompts
  <2>3. c # NoCard
    BY DEF Askers, NoCard
  <2>4. d.card = c /\ NoDecision.card = NoCard
    BY DEF NoDecision
  <2> QED
    BY <2>2, <2>3, <2>4
<1>2. h = [g EXCEPT !.decisionSeq = @ + 1, !.decision = d]
  BY DEF RequestDecision
<1>3. d.card = c /\ d.player = p /\ d.shown = prompt.shown
  OBVIOUS
<1> HIDE DEF d, h
<1>4. /\ h \in GameStates /\ SameTurn(g, h) /\ h.players = g.players
      /\ h.supply = g.supply /\ h.trash = g.trash
      /\ h.pendingPlays = g.pendingPlays
      /\ h.decisionSeq = g.decisionSeq + 1 /\ h.decision = d
  <2>1. g.decisionSeq + 1 \in Nat
    BY DEF GameStates
  <2>2. h \in GameStates
    BY <1>1, <1>2, <2>1 DEF GameStates
  <2> QED
    BY <1>2, <2>2 DEF GameStates, SameTurn
<1>5. SameExisting(g, h) /\ SameWaiting(g, h)
  BY <1>4 DEF SameExisting, SameWaiting, SameMeans, Existing
<1> QED
  BY <1>1, <1>3, <1>4, <1>5 DEF h

LEMMA AskedOutcome ==
  ASSUME NEW g, Ready(g), NEW p \in Players, NEW c \in Askers,
         c \in AttackAskers \/ p = g.current,
         NEW s \in 0..2, NEW prompt \in Prompts,
         c = "library" => InSeq(prompt.shown[1], g.players[p].setAside)
  PROVE  RequestDecision(g, p, c, s, prompt) \in Outcome(g)
<1> DEFINE h == RequestDecision(g, p, c, s, prompt)
<1>1. /\ h \in GameStates
      /\ SameTurn(g, h) /\ SameExisting(g, h) /\ SameWaiting(g, h)
      /\ h.players = g.players /\ h.pendingPlays = g.pendingPlays
      /\ h.decisionSeq = g.decisionSeq + 1 /\ h.decision # NoDecision
      /\ h.decision.card = c /\ h.decision.player = p
      /\ h.decision.shown = prompt.shown
  BY AskedShape DEF Ready
<1> HIDE DEF h
<1>2. ReplaysInPlay(h)
  <2>1. \A x : Replays(h, x) = Replays(g, x)
    BY <1>1 DEF Replays
  <2> QED
    BY <1>1, <2>1 DEF Ready, ReplaysInPlay, SameTurn
<1>3. CurrentAsks(h) /\ LibraryShown(h)
  BY <1>1 DEF CurrentAsks, LibraryShown, SameTurn
<1>4. h \in Outcome(g)
  BY <1>1, <1>2, <1>3 DEF Outcome, Asks
<1> QED
  BY <1>4 DEF h

LEMMA PlusMoves ==
  ASSUME NEW g, Ready(g), NEW n \in Nat, NEW a \in Nat, NEW b \in Nat, NEW m \in Nat
  PROVE  Plus(g, g.current, n, a, b, m) \subseteq Moved(g)
<1>1. ASSUME NEW h \in WithPlayer(g, g.current, DrawCards(g.players[g.current], n))
      PROVE  AddResources(h, g.current, a, b, m) \in Moved(g)
  <2>1. h \in Moved(g)
    BY DrawMoves, PlayersFact DEF Ready
  <2>2. h \in GameStates /\ h.current = g.current
    BY <2>1 DEF Moved, SameTurn
  <2>3. AddResources(h, h.current, a, b, m) \in Moved(h)
    BY <2>2, AddResourcesMoves
  <2> QED
    BY <2>1, <2>2, <2>3, MovedTwice
<1> QED
  BY <1>1 DEF Plus

\* The two ways most effects end: cards have moved, or somebody is asked after
\* that.
LEMMA MovedThenAsked ==
  ASSUME NEW g, Ready(g), NEW h \in Moved(g), NEW p \in Players,
         NEW c \in Askers \ {"library"}, c \in AttackAskers \/ p = g.current,
         NEW s \in 0..2, NEW prompt \in Prompts
  PROVE  RequestDecision(h, p, c, s, prompt) \in Outcome(g)
<1>1. Ready(h) /\ h.current = g.current
  BY MovedReady DEF Moved, SameTurn
<1>2. RequestDecision(h, p, c, s, prompt) \in Outcome(h)
  BY <1>1, AskedOutcome
<1> QED
  BY <1>2, MovedOutcome

LEMMA HandSizeIsNat ==
  ASSUME NEW g \in GameStates, NEW p \in Players
  PROVE  Size(g.players[p].hand) \in Nat
BY PlayersFact, SizeIsNat DEF PlayerState

LEMMA CostIsNat == \A c \in Registered : Cost[c] \in Nat
BY DEF Registered, CardTypes, Cost

-----------------------------------------------------------------------------
(* Treasures and plain action cards.                                       *)

\* Silver keeps the charges it pays out, so it only adds coins and the mark.
LEMMA SilverMoves ==
  ASSUME NEW g, Ready(g)
  PROVE  SilverOnPlay(g, g.current) \subseteq Moved(g)
<1> DEFINE p == g.current
           q == g.players[p]
           bonus == IF q.silver THEN 0 ELSE q.charges
           r == [q EXCEPT !.silver = TRUE]
           h == [g EXCEPT !.players[p] = r]
<1>1. p \in Players /\ q \in PlayerState /\ bonus \in Nat
  BY PlayersFact DEF Ready, PlayerState
<1>2. r \in PlayerState /\ SameOwned(q, r) /\ r.inPlay = q.inPlay
  <2> HIDE DEF q
  <2> QED
    BY <1>1 DEF PlayerState, SameOwned, Owned
<1>3. h \in Moved(g)
  <2> HIDE DEF r
  <2> QED
    BY <1>1, <1>2, MovePlayer DEF Ready
<1>4. Ready(h) /\ h.current = p
  BY <1>3, MovedReady DEF Moved, SameTurn
<1>5. SilverOnPlay(g, p) = Plus(h, p, 0, 0, 0, 2 + bonus)
  BY DEF SilverOnPlay
<1> HIDE DEF h, bonus
<1>6. Plus(h, p, 0, 0, 0, 2 + bonus) \subseteq Moved(h)
  <2>1. 2 + bonus \in Nat
    BY <1>1
  <2> QED
    BY <1>4, <2>1, PlusMoves
<1> QED
  BY <1>3, <1>5, <1>6, MovedTwice

LEMMA MerchantMoves ==
  ASSUME NEW g, Ready(g)
  PROVE  MerchantOnPlay(g, g.current) \subseteq Moved(g)
<1> DEFINE p == g.current
<1>1. ASSUME NEW h \in Plus(g, p, 1, 1, 0, 0)
      PROVE  [h EXCEPT !.players[p].charges = @ + 1] \in Moved(g)
  <2> DEFINE q == h.players[p]
             r == [q EXCEPT !.charges = @ + 1]
  <2>1. h \in Moved(g)
    BY PlusMoves
  <2>2. h \in GameStates /\ h.current = p /\ p \in Players /\ q \in PlayerState
    BY <2>1, PlayersFact DEF Moved, SameTurn
  <2>3. r \in PlayerState /\ SameOwned(q, r) /\ r.inPlay = q.inPlay
    <3> HIDE DEF q
    <3>1. q.charges + 1 \in Nat
      BY <2>2 DEF PlayerState
    <3> QED
      BY <2>2, <3>1 DEF PlayerState, SameOwned, Owned
  <2>4. [h EXCEPT !.players[p] = r] \in Moved(h)
    <3> HIDE DEF r
    <3> QED
      BY <2>2, <2>3, MovePlayer
  <2>5. [h EXCEPT !.players[p].charges = @ + 1] = [h EXCEPT !.players[p] = r]
    BY <2>2 DEF GameStates
  <2> QED
    BY <2>1, <2>4, <2>5, MovedTwice
<1> QED
  BY <1>1 DEF MerchantOnPlay

LEMMA CouncilRoomMoves ==
  ASSUME NEW g, Ready(g)
  PROVE  CouncilRoomOnPlay(g, g.current) \subseteq Moved(g)
<1> DEFINE p == g.current
<1>1. ASSUME NEW h \in Plus(g, p, 4, 0, 1, 0)
      PROVE  WithPlayer(h, Opponent(p), DrawCards(h.players[Opponent(p)], 1))
               \subseteq Moved(g)
  <2>1. h \in Moved(g)
    BY PlusMoves
  <2>2. h \in GameStates /\ Opponent(p) \in Players
    BY <2>1, PlayersFact DEF Moved, Ready
  <2> QED
    BY <2>1, <2>2, DrawMoves, MovedTwice
<1> QED
  BY <1>1 DEF CouncilRoomOnPlay

\* The cards that only draw, add or hand out: nobody is asked.
Plain == {"copper", "silver", "gold", "village", "smithy", "festival",
          "laboratory", "market", "moat", "merchant", "council_room", "witch"}

LEMMA WitchMoves ==
  ASSUME NEW g, Ready(g)
  PROVE  WitchOnPlay(g, g.current) \subseteq Moved(g)
<1> DEFINE p == g.current
<1>1. ASSUME NEW h \in Plus(g, p, 2, 0, 0, 0)
      PROVE  (IF AttackVictims(h, p) = {} THEN h
              ELSE GainCard(h, Opponent(p), "curse", "discard")) \in Moved(g)
  <2>1. h \in Moved(g)
    BY PlusMoves
  <2>2. h \in GameStates /\ Opponent(p) \in Players
    BY <2>1, PlayersFact DEF Moved, Ready
  <2>3. GainCard(h, Opponent(p), "curse", "discard") \in Moved(g)
    BY <2>1, <2>2, GainCardMoves, MovedTwice
  <2> QED
    BY <2>1, <2>3
<1> QED
  BY <1>1 DEF WitchOnPlay

LEMMA PlainMoves ==
  ASSUME NEW g, Ready(g), NEW c \in Plain
  PROVE  OnPlay(g, g.current, c) \subseteq Moved(g)
<1> DEFINE p == g.current
<1>1. \A n, a, b, m \in Nat : Plus(g, p, n, a, b, m) \subseteq Moved(g)
  BY PlusMoves
<1>2. CASE c = "copper"
  BY <1>1, <1>2 DEF OnPlay, CopperOnPlay
<1>3. CASE c = "silver"
  BY <1>3, SilverMoves DEF OnPlay
<1>4. CASE c = "gold"
  BY <1>1, <1>4 DEF OnPlay, GoldOnPlay
<1>5. CASE c = "village"
  BY <1>1, <1>5 DEF OnPlay, VillageOnPlay
<1>6. CASE c = "smithy"
  BY <1>1, <1>6 DEF OnPlay, SmithyOnPlay
<1>7. CASE c = "festival"
  BY <1>1, <1>7 DEF OnPlay, FestivalOnPlay
<1>8. CASE c = "laboratory"
  BY <1>1, <1>8 DEF OnPlay, LaboratoryOnPlay
<1>9. CASE c = "market"
  BY <1>1, <1>9 DEF OnPlay, MarketOnPlay
<1>10. CASE c = "moat"
  BY <1>1, <1>10 DEF OnPlay, MoatOnPlay
<1>11. CASE c = "merchant"
  BY <1>11, MerchantMoves DEF OnPlay
<1>12. CASE c = "council_room"
  BY <1>12, CouncilRoomMoves DEF OnPlay
<1>13. CASE c = "witch"
  BY <1>13, WitchMoves DEF OnPlay
<1> QED
  BY <1>2, <1>3, <1>4, <1>5, <1>6, <1>7, <1>8, <1>9, <1>10, <1>11, <1>12, <1>13
  DEF Plain

-----------------------------------------------------------------------------
(* Attacks.                                                                *)

LEMMA MilitiaOutcome ==
  ASSUME NEW g, Ready(g)
  PROVE  MilitiaOnPlay(g, g.current) \subseteq Outcome(g)
<1> DEFINE p == g.current
<1>1. ASSUME NEW h \in Plus(g, p, 0, 0, 0, 2)
      PROVE  MilitiaQueue(h, AttackVictims(h, p)) \in Outcome(g)
  <2> DEFINE toAsk == {v \in AttackVictims(h, p) : Size(h.players[v].hand) > 3}
             v0 == CHOOSE w \in toAsk : TRUE
             n == Size(h.players[v0].hand) - 3
  <2>1. h \in Moved(g) /\ h \in GameStates
    BY PlusMoves DEF Moved
  <2>2. CASE toAsk = {}
    BY <2>1, <2>2, MovedReady DEF MilitiaQueue
  <2>3. CASE toAsk # {}
    <3>1. v0 \in toAsk
      BY <2>3
    <3>2. v0 \in Players /\ Size(h.players[v0].hand) > 3
      BY <3>1, VictimsFact, PlayersFact DEF Ready
    <3>3. Size(h.players[v0].hand) \in Nat
      BY <2>1, <3>2, HandSizeIsNat
    <3>4. n \in Nat
      BY <3>2, <3>3
    <3>5. MilitiaQueue(h, AttackVictims(h, p))
            = RequestDecision(h, v0, "militia", 0, HandPrompt(n, n))
      BY <2>3 DEF MilitiaQueue
    <3> HIDE DEF v0, n
    <3>6. HandPrompt(n, n) \in Prompts
      BY <3>4, PromptTypes
    <3>7. "militia" \in Askers \ {"library"} /\ "militia" \in AttackAskers /\ 0 \in 0..2
      BY DEF Askers, AttackAskers
    <3> QED
      BY <2>1, <3>2, <3>5, <3>6, <3>7, MovedThenAsked
  <2> QED
    BY <2>2, <2>3
<1> QED
  BY <1>1 DEF MilitiaOnPlay

LEMMA MilitiaResolved ==
  ASSUME NEW g, Ready(g), NEW p \in Players, NEW answer, answer.list \in Bag
  PROVE  MilitiaOnResolve(g, p, answer) \subseteq Outcome(g)
<1>1. Fail(g) \in Moved(g) /\ DiscardFromHand(g, p, answer.list) \in Moved(g)
  BY FailMoves, DiscardFromHandMoves DEF Ready
<1>2. Fail(g) \in Outcome(g) /\ DiscardFromHand(g, p, answer.list) \in Outcome(g)
  BY <1>1, MovedReady
<1> QED
  BY <1>2 DEF MilitiaOnResolve

LEMMA BureaucratOutcome ==
  ASSUME NEW g, Ready(g)
  PROVE  BureaucratOnPlay(g, g.current) \subseteq Outcome(g)
<1> DEFINE p == g.current
           h == GainCard(g, p, "silver", "deck")
           victims == AttackVictims(h, p)
           v0 == CHOOSE w \in victims : TRUE
           only == CHOOSE c \in Cards : VictoriesInHand(h, v0)[c] > 0
<1>1. h \in Moved(g) /\ h \in GameStates /\ p \in Players
  BY GainCardMoves, PlayersFact DEF Ready, Moved
<1>2. CASE victims = {} \/ Size(VictoriesInHand(h, v0)) = 0
  <2>1. BureaucratQueue(h, victims) = h
    BY <1>2 DEF BureaucratQueue
  <2> QED
    BY <1>1, <2>1, MovedReady DEF BureaucratOnPlay
<1>3. CASE victims # {} /\ Size(VictoriesInHand(h, v0)) # 0
  <2>1. v0 \in victims
    BY <1>3
  <2>2. v0 \in Players
    BY <1>1, <2>1, VictimsFact
  <2>3. \/ BureaucratQueue(h, victims) = PutOnDeck(h, v0, only)
        \/ BureaucratQueue(h, victims)
             = RequestDecision(h, v0, "bureaucrat", 0, HandPrompt(1, 1))
    BY <1>3 DEF BureaucratQueue
  <2> HIDE DEF v0, only, victims
  <2>4. PutOnDeck(h, v0, only) \in Outcome(g)
    BY <1>1, <2>2, PutOnDeckMoves, MovedTwice, MovedReady
  <2>5. RequestDecision(h, v0, "bureaucrat", 0, HandPrompt(1, 1)) \in Outcome(g)
    <3>1. "bureaucrat" \in Askers \ {"library"} /\ "bureaucrat" \in AttackAskers
          /\ 0 \in 0..2 /\ HandPrompt(1, 1) \in Prompts
      BY PromptTypes DEF Askers, AttackAskers
    <3> QED
      BY <1>1, <2>2, <3>1, MovedThenAsked
  <2> QED
    BY <2>3, <2>4, <2>5 DEF BureaucratOnPlay, victims
<1> QED
  BY <1>2, <1>3

LEMMA BureaucratResolved ==
  ASSUME NEW g, Ready(g), NEW p \in Players, NEW answer
  PROVE  BureaucratOnResolve(g, p, answer) \subseteq Outcome(g)
<1>1. Fail(g) \in Outcome(g) /\ \A c : PutOnDeck(g, p, c) \in Outcome(g)
  BY FailMoves, PutOnDeckMoves, MovedReady DEF Ready
<1> QED
  BY <1>1 DEF BureaucratOnResolve

LEMMA DiscardOthersMoves ==
  ASSUME NEW g \in GameStates, NEW v \in Players, NEW revealed \in Seq(Cards),
         NEW kept
  PROVE  DiscardOthers(g, v, revealed, kept) \in Moved(g)
<1> DEFINE discarded(h, i) == IF i > Len(revealed) \/ revealed[i] = kept THEN h
                              ELSE DiscardFromDeck(h, v, revealed[i])
<1>1. ASSUME NEW h \in GameStates, NEW i \in 1..2
      PROVE  discarded(h, i) \in Moved(h) /\ discarded(h, i) \in GameStates
  <2>1. CASE i > Len(revealed) \/ revealed[i] = kept
    BY <2>1, MovedSelf
  <2>2. CASE ~(i > Len(revealed) \/ revealed[i] = kept)
    <3>1. i \in 1..Len(revealed)
      BY <2>2, LenProperties
    <3>2. revealed[i] \in Cards
      BY <3>1, ElementOfSeq
    <3> QED
      BY <2>2, <3>2, DiscardFromDeckMoves DEF Moved
  <2> QED
    BY <2>1, <2>2
<1>2. discarded(g, 1) \in Moved(g) /\ discarded(g, 1) \in GameStates
  BY <1>1
<1>3. discarded(discarded(g, 1), 2) \in Moved(discarded(g, 1))
  <2> HIDE DEF discarded
  <2> QED
    BY <1>1, <1>2
<1>4. DiscardOthers(g, v, revealed, kept) = discarded(discarded(g, 1), 2)
  BY DEF DiscardOthers
<1> HIDE DEF discarded
<1> QED
  BY <1>2, <1>3, <1>4, MovedTwice

LEMMA BanditTakeMoves ==
  ASSUME NEW g \in GameStates, NEW v \in Players, NEW revealed \in Seq(Cards),
         NEW chosen \in Cards
  PROVE  BanditTake(g, v, chosen, revealed) \in Moved(g)
<1> DEFINE h == TrashFromDeck(g, v, chosen)
<1>1. h \in Moved(g) /\ h \in GameStates
  BY TrashFromDeckMoves DEF Moved
<1> HIDE DEF h
<1>2. DiscardOthers(h, v, revealed, chosen) \in Moved(g)
  BY <1>1, DiscardOthersMoves, MovedTwice
<1> QED
  BY <1>2 DEF BanditTake, h

LEMMA BanditRaidOutcome ==
  ASSUME NEW g, Ready(g), NEW h \in Moved(g), NEW v \in Players
  PROVE  BanditRaid(h, v) \in Outcome(g)
<1> DEFINE revealed == Revealed(h.players[v])
           treasures == {i \in DOMAIN revealed : IsNonCopperTreasure(revealed[i])}
           i0 == CHOOSE i \in treasures : TRUE
<1>1. h \in GameStates /\ h.players[v] \in PlayerState
  BY PlayersFact DEF Moved
<1>2. revealed \in Seq(Cards)
  BY <1>1, RevealedIsSeq
<1>3. CASE treasures = {}
  <2>1. BanditRaid(h, v) = DiscardOthers(h, v, revealed, NoCard)
    BY <1>3 DEF BanditRaid
  <2> HIDE DEF revealed
  <2> QED
    BY <1>1, <1>2, <2>1, DiscardOthersMoves, MovedTwice, MovedReady
<1>4. CASE treasures # {} /\ Cardinality(treasures) = 1
  <2>1. BanditRaid(h, v) = BanditTake(h, v, revealed[i0], revealed)
    BY <1>4 DEF BanditRaid
  <2>2. i0 \in DOMAIN revealed
    BY <1>4
  <2> HIDE DEF revealed, i0
  <2>3. revealed[i0] \in Cards
    BY <1>2, <2>2, LenProperties, ElementOfSeq
  <2> QED
    BY <1>1, <1>2, <2>1, <2>3, BanditTakeMoves, MovedTwice, MovedReady
<1>5. CASE treasures # {} /\ Cardinality(treasures) # 1
  <2>1. BanditRaid(h, v) = RequestDecision(h, v, "bandit", 0, ShownPrompt(revealed))
    BY <1>5 DEF BanditRaid
  <2> HIDE DEF revealed
  <2>2. "bandit" \in Askers \ {"library"} /\ "bandit" \in AttackAskers
        /\ 0 \in 0..2 /\ ShownPrompt(revealed) \in Prompts
    BY <1>2, PromptTypes DEF Askers, AttackAskers
  <2> QED
    BY <2>1, <2>2, MovedThenAsked
<1> QED
  BY <1>3, <1>4, <1>5

LEMMA BanditOutcome ==
  ASSUME NEW g, Ready(g)
  PROVE  BanditOnPlay(g, g.current) \subseteq Outcome(g)
<1> DEFINE p == g.current
           h == GainCard(g, p, "gold", "discard")
           victims == AttackVictims(h, p)
           v0 == CHOOSE w \in victims : TRUE
<1>1. h \in Moved(g) /\ h \in GameStates /\ p \in Players
  BY GainCardMoves, PlayersFact DEF Ready, Moved
<1>2. CASE victims = {}
  BY <1>1, <1>2, MovedReady DEF BanditOnPlay, BanditQueue
<1>3. CASE victims # {}
  <2>1. v0 \in victims
    BY <1>3
  <2>2. v0 \in Players
    BY <1>1, <2>1, VictimsFact
  <2>3. BanditOnPlay(g, p)
          = {BanditRaid(k, v0) :
               k \in WithPlayer(h, v0, RevealFromDeck(h.players[v0]))}
    BY <1>3 DEF BanditOnPlay, BanditQueue
  <2> HIDE DEF v0, h
  <2>4. ASSUME NEW r \in RevealFromDeck(h.players[v0])
        PROVE  [h EXCEPT !.players[v0] = r] \in Moved(g)
    <3>1. r \in Rearranged(h.players[v0])
      BY <1>1, <2>2, PlayersFact, RevealFromDeckKeeps
    <3>2. [h EXCEPT !.players[v0] = r] \in Moved(h)
      BY <1>1, <2>2, <3>1, MovePlayer DEF Rearranged, SameMeans
    <3> QED
      BY <1>1, <3>2, MovedTwice
  <2> QED
    BY <2>2, <2>3, <2>4, BanditRaidOutcome DEF WithPlayer
<1> QED
  BY <1>2, <1>3

LEMMA BanditResolved ==
  ASSUME NEW g, Ready(g), NEW p \in Players, NEW d \in Decision, NEW answer
  PROVE  BanditOnResolve(g, p, d, answer) \subseteq Outcome(g)
<1>1. d.shown \in Seq(Cards)
  BY DEF Decision
<1>2. CASE InSeq(answer.choice, d.shown) /\ IsNonCopperTreasure(answer.choice)
  <2>1. answer.choice \in Cards
    BY <1>1, <1>2, IndexOfFinds
  <2>2. BanditTake(g, p, answer.choice, d.shown) \in Outcome(g)
    BY <1>1, <2>1, BanditTakeMoves, MovedReady DEF Ready
  <2> QED
    BY <1>2, <2>2 DEF BanditOnResolve
<1>3. CASE ~(InSeq(answer.choice, d.shown) /\ IsNonCopperTreasure(answer.choice))
  <2>1. Fail(g) \in Outcome(g)
    BY FailMoves, MovedReady DEF Ready
  <2> QED
    BY <1>3, <2>1 DEF BanditOnResolve
<1> QED
  BY <1>2, <1>3

-----------------------------------------------------------------------------
(* Choices from the hand, the supply and the discard pile.                 *)

LEMMA CurrentAsked ==
  ASSUME NEW g, Ready(g), NEW h \in Moved(g), NEW c \in Askers \ {"library"},
         NEW s \in 0..2, NEW prompt \in Prompts
  PROVE  RequestDecision(h, g.current, c, s, prompt) \in Outcome(g)
BY MovedThenAsked, PlayersFact DEF Ready

\* The effects that start by asking, and those that only ask.
LEMMA HandOutcome ==
  ASSUME NEW g, Ready(g)
  PROVE  /\ CellarOnPlay(g, g.current) \subseteq Outcome(g)
         /\ ChapelOnPlay(g, g.current) \subseteq Outcome(g)
         /\ MoneylenderOnPlay(g, g.current) \subseteq Outcome(g)
         /\ PoacherOnPlay(g, g.current) \subseteq Outcome(g)
         /\ WorkshopOnPlay(g, g.current) \subseteq Outcome(g)
         /\ ArtisanOnPlay(g, g.current) \subseteq Outcome(g)
         /\ RemodelOnPlay(g, g.current) \subseteq Outcome(g)
         /\ MineOnPlay(g, g.current) \subseteq Outcome(g)
         /\ HarbingerOnPlay(g, g.current) \subseteq Outcome(g)
         /\ ThroneRoomOnPlay(g, g.current) \subseteq Outcome(g)
<1> DEFINE p == g.current
<1>1. g \in Moved(g) /\ g \in Outcome(g) /\ p \in Players /\ g \in GameStates
  BY MovedSelf, MovedReady, PlayersFact DEF Ready
<1>2. \A m, n \in Nat : HandPrompt(m, n) \in Prompts
  BY PromptTypes
<1>3. 0 \in 0..2 /\ \A c \in {"cellar", "chapel", "moneylender", "poacher", "workshop",
                             "artisan", "remodel", "mine", "harbinger", "throne_room"} :
                         c \in Askers \ {"library"}
  BY DEF Askers
<1>4. CellarOnPlay(g, p) \subseteq Outcome(g)
  <2>1. ASSUME NEW h \in Plus(g, p, 0, 1, 0, 0)
        PROVE  RequestDecision(h, p, "cellar", 0, HandPrompt(0, Size(h.players[p].hand)))
                 \in Outcome(g)
    <3>1. h \in Moved(g) /\ h \in GameStates
      BY PlusMoves DEF Moved
    <3>2. HandPrompt(0, Size(h.players[p].hand)) \in Prompts
      BY <1>1, <1>2, <3>1, HandSizeIsNat
    <3> QED
      BY <1>3, <3>1, <3>2, CurrentAsked
  <2> QED
    BY <2>1 DEF CellarOnPlay
<1>5. ChapelOnPlay(g, p) \subseteq Outcome(g)
  <2>1. RequestDecision(g, p, "chapel", 0, HandPrompt(0, 4)) \in Outcome(g)
    BY <1>1, <1>2, <1>3, CurrentAsked
  <2> QED
    BY <2>1 DEF ChapelOnPlay
<1>6. MoneylenderOnPlay(g, p) \subseteq Outcome(g)
  <2>1. RequestDecision(g, p, "moneylender", 0, HandPrompt(0, 1)) \in Outcome(g)
    BY <1>1, <1>2, <1>3, CurrentAsked
  <2> QED
    BY <1>1, <2>1 DEF MoneylenderOnPlay
<1>7. PoacherOnPlay(g, p) \subseteq Outcome(g)
  <2> DEFINE n == Cardinality(EmptyPiles(g))
  <2>1. n \in Nat
    BY CardsAssumption, FS_Subset, FS_CardinalityType DEF EmptyPiles
  <2>2. ASSUME NEW h \in Plus(g, p, 1, 1, 0, 1)
        PROVE  h \in Outcome(g)
               /\ RequestDecision(h, p, "poacher", 0, HandPrompt(n, n)) \in Outcome(g)
    <3>1. h \in Moved(g)
      BY PlusMoves
    <3>2. HandPrompt(n, n) \in Prompts
      BY <1>2, <2>1
    <3> QED
      BY <1>3, <3>1, <3>2, CurrentAsked, MovedReady
  <2> QED
    BY <2>2 DEF PoacherOnPlay
<1>8. WorkshopOnPlay(g, p) \subseteq Outcome(g)
  <2>1. RequestDecision(g, p, "workshop", 0, GainPrompt(4)) \in Outcome(g)
    BY <1>1, <1>3, CurrentAsked, PromptTypes
  <2> QED
    BY <2>1 DEF WorkshopOnPlay
<1>9. ArtisanOnPlay(g, p) \subseteq Outcome(g)
  <2>1. RequestDecision(g, p, "artisan", 0, GainPrompt(5)) \in Outcome(g)
    BY <1>1, <1>3, CurrentAsked, PromptTypes
  <2> QED
    BY <2>1 DEF ArtisanOnPlay
<1>10. RemodelOnPlay(g, p) \subseteq Outcome(g)
  <2>1. RequestDecision(g, p, "remodel", 0, HandPrompt(1, 1)) \in Outcome(g)
    BY <1>1, <1>2, <1>3, CurrentAsked
  <2> QED
    BY <1>1, <2>1 DEF RemodelOnPlay
<1>11. MineOnPlay(g, p) \subseteq Outcome(g)
  <2>1. RequestDecision(g, p, "mine", 0, HandPrompt(0, 1)) \in Outcome(g)
    BY <1>1, <1>2, <1>3, CurrentAsked
  <2> QED
    BY <1>1, <2>1 DEF MineOnPlay
<1>12. HarbingerOnPlay(g, p) \subseteq Outcome(g)
  <2>1. ASSUME NEW h \in Plus(g, p, 1, 1, 0, 0)
        PROVE  h \in Outcome(g)
               /\ RequestDecision(h, p, "harbinger", 0, HandPrompt(0, 1)) \in Outcome(g)
    BY <1>2, <1>3, PlusMoves, CurrentAsked, MovedReady
  <2> QED
    BY <2>1 DEF HarbingerOnPlay
<1>13. ThroneRoomOnPlay(g, p) \subseteq Outcome(g)
  <2>1. RequestDecision(g, p, "throne_room", 0, HandPrompt(1, 1)) \in Outcome(g)
    BY <1>1, <1>2, <1>3, CurrentAsked
  <2> QED
    BY <1>1, <2>1 DEF ThroneRoomOnPlay
<1> QED
  BY <1>4, <1>5, <1>6, <1>7, <1>8, <1>9, <1>10, <1>11, <1>12, <1>13

LEMMA CellarResolved ==
  ASSUME NEW g, Ready(g), NEW p \in Players, NEW answer, answer.list \in Bag
  PROVE  CellarOnResolve(g, p, answer) \subseteq Outcome(g)
<1> DEFINE h == DiscardFromHand(g, p, answer.list)
<1>1. h \in Moved(g) /\ h \in GameStates /\ Size(answer.list) \in Nat
  BY DiscardFromHandMoves, SizeIsNat DEF Ready, Moved
<1>2. CellarOnResolve(g, p, answer)
        = WithPlayer(h, p, DrawCards(h.players[p], Size(answer.list)))
  BY DEF CellarOnResolve
<1> HIDE DEF h
<1> QED
  BY <1>1, <1>2, DrawMoves, MovedTwice, MovedReady

LEMMA HandResolved ==
  ASSUME NEW g, Ready(g), NEW p \in Players, NEW answer, answer.list \in Bag
  PROVE  /\ ChapelOnResolve(g, p, answer) \subseteq Outcome(g)
         /\ PoacherOnResolve(g, p, answer) \subseteq Outcome(g)
<1>1. TrashFromHand(g, p, answer.list) \in Outcome(g)
      /\ DiscardFromHand(g, p, answer.list) \in Outcome(g)
  BY TrashFromHandMoves, DiscardFromHandMoves, MovedReady DEF Ready
<1> QED
  BY <1>1 DEF ChapelOnResolve, PoacherOnResolve

LEMMA MoneylenderResolved ==
  ASSUME NEW g, Ready(g), NEW answer, answer.list \in Bag
  PROVE  MoneylenderOnResolve(g, g.current, answer) \subseteq Outcome(g)
<1> DEFINE p == g.current
           h == TrashFromHand(g, p, answer.list)
<1>1. h \in Moved(g) /\ h \in GameStates /\ h.current = p
  BY TrashFromHandMoves, PlayersFact DEF Ready, Moved, SameTurn
<1> HIDE DEF h
<1>2. AddResources(h, p, 0, 0, 3) \in Moved(h)
  BY <1>1, AddResourcesMoves
<1>3. AddResources(h, p, 0, 0, 3) \in Outcome(g) /\ g \in Outcome(g)
  BY <1>1, <1>2, MovedSelf, MovedTwice, MovedReady DEF Ready
<1> QED
  BY <1>3 DEF MoneylenderOnResolve, h

LEMMA GainResolved ==
  ASSUME NEW g, Ready(g), NEW c, NEW dest \in {"hand", "deck", "discard"}
  PROVE  GainCard(g, g.current, c, dest) \in Outcome(g) /\ Fail(g) \in Outcome(g)
BY GainCardMoves, FailMoves, MovedReady, PlayersFact DEF Ready

LEMMA WorkshopResolved ==
  ASSUME NEW g, Ready(g), NEW d, NEW answer
  PROVE  WorkshopOnResolve(g, g.current, d, answer) \subseteq Outcome(g)
BY GainResolved DEF WorkshopOnResolve

LEMMA ArtisanResolved ==
  ASSUME NEW g, Ready(g), NEW d, NEW answer
  PROVE  ArtisanOnResolve(g, g.current, d, answer) \subseteq Outcome(g)
<1> DEFINE p == g.current
<1>1. p \in Players /\ g \in GameStates
  BY PlayersFact DEF Ready
<1>2. Fail(g) \in Outcome(g) /\ PutOnDeck(g, p, answer.choice) \in Outcome(g)
  BY <1>1, FailMoves, PutOnDeckMoves, MovedReady
<1>3. RequestDecision(GainCard(g, p, answer.choice, "hand"), p, "artisan", 1,
                      HandPrompt(1, 1)) \in Outcome(g)
  <2>1. "artisan" \in Askers \ {"library"} /\ 1 \in 0..2 /\ HandPrompt(1, 1) \in Prompts
    BY PromptTypes DEF Askers
  <2>2. GainCard(g, p, answer.choice, "hand") \in Moved(g)
    BY <1>1, GainCardMoves
  <2> QED
    BY <2>1, <2>2, CurrentAsked
<1> QED
  BY <1>2, <1>3 DEF ArtisanOnResolve

\* The limit of the gain is a number, as every cost is.
LEMMA TrashAndPrice ==
  ASSUME NEW g, Ready(g), NEW list \in Bag, NEW c \in Cards, NEW n \in Nat,
         NEW x \in {"remodel", "mine"}
  PROVE  RequestDecision(TrashFromHand(g, g.current, list), g.current, x, 1,
                         GainPrompt(Cost[c] + n)) \in Outcome(g)
<1>1. TrashFromHand(g, g.current, list) \in Moved(g)
  BY TrashFromHandMoves, PlayersFact DEF Ready
<1>2. Cost[c] + n \in Nat
  <2>1. Cost[c] \in Nat
    BY CostIsNat, CardsAssumption
  <2> QED
    BY <2>1
<1>3. GainPrompt(Cost[c] + n) \in Prompts
  BY <1>2, PromptTypes
<1>4. x \in Askers \ {"library"} /\ 1 \in 0..2
  BY DEF Askers
<1> QED
  BY <1>1, <1>3, <1>4, CurrentAsked

LEMMA RemodelResolved ==
  ASSUME NEW g, Ready(g), NEW d, NEW answer, d.step = 0 => answer.list \in Bag
  PROVE  RemodelOnResolve(g, g.current, d, answer) \subseteq Outcome(g)
<1>1. CASE d.step = 0
  <2>1. \A c \in Cards :
          RequestDecision(TrashFromHand(g, g.current, answer.list), g.current,
                          "remodel", 1, GainPrompt(Cost[c] + 2)) \in Outcome(g)
    BY <1>1, TrashAndPrice
  <2>2. Fail(g) \in Outcome(g)
    BY GainResolved
  <2> QED
    BY <1>1, <2>1, <2>2 DEF RemodelOnResolve
<1>2. CASE d.step # 0
  BY <1>2, GainResolved DEF RemodelOnResolve
<1> QED
  BY <1>1, <1>2

LEMMA MineResolved ==
  ASSUME NEW g, Ready(g), NEW d, NEW answer, d.step = 0 => answer.list \in Bag
  PROVE  MineOnResolve(g, g.current, d, answer) \subseteq Outcome(g)
<1>1. CASE d.step = 0
  <2>1. \A c \in Cards :
          RequestDecision(TrashFromHand(g, g.current, answer.list), g.current,
                          "mine", 1, GainPrompt(Cost[c] + 3)) \in Outcome(g)
    BY <1>1, TrashAndPrice
  <2>2. g \in Outcome(g)
    BY MovedSelf, MovedReady DEF Ready
  <2> QED
    BY <1>1, <2>1, <2>2 DEF MineOnResolve
<1>2. CASE d.step # 0
  BY <1>2, GainResolved DEF MineOnResolve
<1> QED
  BY <1>1, <1>2

LEMMA HarbingerResolved ==
  ASSUME NEW g, Ready(g), NEW answer
  PROVE  HarbingerOnResolve(g, g.current, answer) \subseteq Outcome(g)
<1> DEFINE p == g.current
           q == g.players[p]
           x == answer.choice
           r == [q EXCEPT !.discard = DropOne(@, x), !.top = Append(@, x)]
<1>1. p \in Players /\ q \in PlayerState /\ g \in GameStates
  BY PlayersFact DEF Ready
<1>2. CASE x \in Cards /\ q.discard[x] > 0
  <2>1. q.top \in Seq(Cards) /\ DropOne(q.discard, x) \in Bag
        /\ Append(q.top, x) \in Seq(Cards)
    BY <1>1, <1>2, BagTypes DEF PlayerState
  <2>2. /\ r \in PlayerState /\ SameMeans(q, r) /\ r.deck = q.deck
        /\ r.top = Append(q.top, x) /\ r.hand = q.hand
        /\ r.discard = DropOne(q.discard, x)
    <3> HIDE DEF q, x
    <3> QED
      BY <1>1, <2>1 DEF PlayerState, SameMeans
  <2>3. ASSUME NEW c \in Cards PROVE Owned(r, c) = Owned(q, c)
    <3>1. r.discard[c] = q.discard[c] - OneOf(x)[c] /\ OneOf(x)[c] \in Nat
      BY <2>2 DEF DropOne, BagMinus, OneOf
    <3>2. BagOfSeq(r.top)[c] = BagOfSeq(q.top)[c] + OneOf(x)[c]
      BY <1>2, <2>1, <2>2, CountAppend
    <3> HIDE DEF r, q
    <3> QED
      BY SMTT(30), <1>1, <2>2, <3>1, <3>2, CountsAreNat DEF Owned, SameMeans
  <2>4. [g EXCEPT !.players[p] = r] \in Moved(g)
    <3> HIDE DEF r
    <3> QED
      BY <1>1, <2>2, <2>3, MovePlayer DEF SameOwned, SameMeans
  <2>5. HarbingerOnResolve(g, p, answer) = {[g EXCEPT !.players[p] = r]}
    <3>1. HarbingerOnResolve(g, p, answer)
            = {[g EXCEPT !.players[p].discard = DropOne(@, x),
                         !.players[p].top = Append(@, x)]}
      BY <1>2 DEF HarbingerOnResolve
    <3>2. [g EXCEPT !.players[p].discard = DropOne(@, x),
                    !.players[p].top = Append(@, x)] = [g EXCEPT !.players[p] = r]
      <4> HIDE DEF x
      <4> QED
        BY <1>1 DEF GameStates
    <3> QED
      BY <3>1, <3>2
  <2> QED
    BY <2>4, <2>5, MovedReady
<1>3. CASE ~(x \in Cards /\ q.discard[x] > 0)
  BY <1>1, <1>3, MovedSelf, MovedReady DEF HarbingerOnResolve
<1> QED
  BY <1>2, <1>3

-----------------------------------------------------------------------------
(* Cards taken off the deck and inspected.                                 *)

LEMMA VassalOutcome ==
  ASSUME NEW g, Ready(g)
  PROVE  VassalOnPlay(g, g.current) \subseteq Outcome(g)
<1> DEFINE p == g.current
           q0 == g.players[p]
           q == Reshuffled(q0)
           discarded(t) ==
             [g EXCEPT !.players[p] = [t.rest EXCEPT !.discard = AddOne(@, t.card)]]
<1>1. p \in Players /\ q0 \in PlayerState /\ g \in GameStates
  BY PlayersFact DEF Ready
<1>2. q \in Rearranged(q0) /\ q \in PlayerState
  BY <1>1, ReshuffledKeeps DEF Rearranged
<1>3. ASSUME NEW t \in Pop(q)
      PROVE  discarded(t) \in Moved(g) /\ t.card \in Cards
  <2> DEFINE r == [t.rest EXCEPT !.discard = AddOne(@, t.card)]
  <2>1. r \in Rearranged(q0) /\ t.card \in Cards
    <3> HIDE DEF q
    <3>1. r \in Rearranged(q) /\ t.card \in Cards
      BY <1>2, PopAndKeep, PopKeeps
    <3> HIDE DEF r
    <3> QED
      BY <1>2, <3>1, RearrangedTwice
  <2> HIDE DEF r
  <2>2. [g EXCEPT !.players[p] = r] \in Moved(g)
    BY <1>1, <2>1, MovePlayer DEF Rearranged, SameMeans
  <2> QED
    BY <2>1, <2>2 DEF r
<1> HIDE DEF discarded
<1>4. ASSUME NEW t \in Pop(q)
      PROVE  /\ RequestDecision(discarded(t), p, "vassal", 0, ShownPrompt(<<t.card>>))
                  \in Outcome(g)
             /\ discarded(t) \in Outcome(g)
  <2>1. <<t.card>> \in Seq(Cards)
    BY <1>3
  <2>2. ShownPrompt(<<t.card>>) \in Prompts
    BY <2>1, PromptTypes
  <2>3. "vassal" \in Askers \ {"library"} /\ 0 \in 0..2
    BY DEF Askers
  <2> QED
    BY <1>3, <2>2, <2>3, CurrentAsked, MovedReady
<1>5. g \in Outcome(g)
  BY <1>1, MovedSelf, MovedReady
<1>6. VassalOnPlay(g, p) =
        IF DeckEmpty(q) THEN {g}
        ELSE {IF HasType(t.card, "action")
              THEN RequestDecision(discarded(t), p, "vassal", 0, ShownPrompt(<<t.card>>))
              ELSE discarded(t) : t \in Pop(q)}
  BY DEF VassalOnPlay, discarded
<1> HIDE DEF q
<1> QED
  BY <1>4, <1>5, <1>6

LEMMA FlushMoves ==
  ASSUME NEW g \in GameStates
  PROVE  FlushSetAside(g, g.current) \in Moved(g)
<1> DEFINE p == g.current
           q == g.players[p]
           b == BagOfSeq(q.setAside)
           r == [q EXCEPT !.discard = BagPlus(@, b), !.setAside = <<>>]
<1>1. p \in Players /\ q \in PlayerState
  BY PlayersFact
<1>2. b \in Bag /\ BagPlus(q.discard, b) \in Bag /\ <<>> \in Seq(Cards)
  BY <1>1, SeqIsBag, BagTypes DEF PlayerState
<1>3. FlushSetAside(g, p) = [g EXCEPT !.players[p] = r]
  BY <1>1 DEF FlushSetAside, GameStates
<1>4. /\ r \in PlayerState /\ r.hand = q.hand /\ r.deck = q.deck /\ r.top = q.top
      /\ r.discard = BagPlus(q.discard, b) /\ r.inPlay = q.inPlay /\ r.setAside = <<>>
  <2> HIDE DEF q, b
  <2> QED
    BY <1>1, <1>2 DEF PlayerState
<1>5. ASSUME NEW c \in Cards PROVE Owned(r, c) = Owned(q, c)
  <2>1. r.discard[c] = q.discard[c] + BagOfSeq(q.setAside)[c]
    BY <1>4 DEF BagPlus
  <2>2. BagOfSeq(r.setAside)[c] = 0
    BY <1>4, CountEmpty DEF EmptyBag
  <2>3. /\ r.hand[c] = q.hand[c] /\ r.deck[c] = q.deck[c] /\ r.inPlay[c] = q.inPlay[c]
        /\ BagOfSeq(r.top)[c] = BagOfSeq(q.top)[c]
    BY <1>4
  <2>4. /\ q.hand[c] \in Nat /\ q.deck[c] \in Nat /\ q.discard[c] \in Nat
        /\ q.inPlay[c] \in Nat /\ BagOfSeq(q.top)[c] \in Nat
        /\ BagOfSeq(q.setAside)[c] \in Nat
    BY <1>1, CountsAreNat
  <2> HIDE DEF q, r
  <2> QED
    BY <2>1, <2>2, <2>3, <2>4 DEF Owned
<1> HIDE DEF r
<1> QED
  BY <1>1, <1>3, <1>4, <1>5, MovePlayer DEF SameOwned

LEMMA LibraryDrawOutcome ==
  ASSUME NEW g, Ready(g)
  PROVE  LibraryDraw(g, g.current) \subseteq Outcome(g)
<1> DEFINE p == g.current
           q0 == g.players[p]
           q == Reshuffled(q0)
           inHand(t) == [t.rest EXCEPT !.hand = AddOne(@, t.card)]
           aside(t) == [t.rest EXCEPT !.setAside = Append(@, t.card)]
<1>1. p \in Players /\ q0 \in PlayerState /\ g \in GameStates
  BY PlayersFact DEF Ready
<1>2. q \in Rearranged(q0) /\ q \in PlayerState
  BY <1>1, ReshuffledKeeps DEF Rearranged
<1>3. ASSUME NEW t \in Pop(q)
      PROVE  [g EXCEPT !.players[p] = inHand(t)] \in Outcome(g)
  <2>1. inHand(t) \in Rearranged(q)
    <3> HIDE DEF q
    <3> QED
      BY <1>2, PopAndKeep
  <2> HIDE DEF inHand, q
  <2>2. inHand(t) \in Rearranged(q0)
    BY <1>2, <2>1, RearrangedTwice
  <2>3. [g EXCEPT !.players[p] = inHand(t)] \in Moved(g)
    BY <1>1, <2>2, MovePlayer DEF Rearranged, SameMeans
  <2> QED
    BY <2>3, MovedReady
<1>4. ASSUME NEW t \in Pop(q)
      PROVE  RequestDecision([g EXCEPT !.players[p] = aside(t)], p, "library", 0,
                             ShownPrompt(<<t.card>>)) \in Outcome(g)
  <2> DEFINE r == aside(t)
             h == [g EXCEPT !.players[p] = r]
  <2>1. /\ r \in PlayerState /\ SameOwned(q, r) /\ r.inPlay = q.inPlay
        /\ r.setAside = Append(q.setAside, t.card) /\ t.card \in Cards
        /\ q.setAside \in Seq(Cards)
    <3> HIDE DEF q
    <3> QED
      BY <1>2, PopAndKeep, PopKeeps DEF PlayerState
  <2> HIDE DEF aside, q
  <2>2. SameOwned(q0, r) /\ r.inPlay = q0.inPlay
    BY <1>2, <2>1 DEF Rearranged, SameOwned, SameMeans
  <2>3. h \in Moved(g)
    BY <1>1, <2>1, <2>2, MovePlayer
  <2>4. Ready(h) /\ h.current = p /\ h.players[p] = r
    BY <1>1, <2>3, MovedReady DEF Moved, SameTurn, GameStates
  <2>5. InSeq(t.card, r.setAside)
    <3>1. Len(q.setAside) + 1 \in DOMAIN r.setAside
          /\ r.setAside[Len(q.setAside) + 1] = t.card
      BY <2>1
    <3> QED
      BY <3>1 DEF InSeq
  <2>6. ShownPrompt(<<t.card>>) \in Prompts /\ ShownPrompt(<<t.card>>).shown[1] = t.card
    <3>1. <<t.card>> \in Seq(Cards)
      BY <2>1
    <3> QED
      BY <3>1, PromptTypes DEF ShownPrompt, NoPrompt
  <2>7. "library" \in Askers /\ 0 \in 0..2
    BY DEF Askers
  <2> DEFINE prompt == ShownPrompt(<<t.card>>)
  <2> HIDE DEF h, prompt
  <2>8. RequestDecision(h, p, "library", 0, prompt) \in Outcome(h)
    BY <1>1, <2>4, <2>5, <2>6, <2>7, AskedOutcome DEF prompt
  <2> QED
    BY <2>3, <2>8, MovedOutcome DEF h, prompt
<1>5. g \in Outcome(g)
  BY <1>1, MovedSelf, MovedReady
<1>6. LibraryDraw(g, p) =
        IF LibraryStops(g, p) THEN {g}
        ELSE {IF HasType(t.card, "action")
              THEN RequestDecision([g EXCEPT !.players[p] = aside(t)], p, "library", 0,
                                   ShownPrompt(<<t.card>>))
              ELSE [g EXCEPT !.players[p] = inHand(t)] : t \in Pop(q)}
  BY DEF LibraryDraw
<1> HIDE DEF q, inHand, aside
<1>7. CASE LibraryStops(g, p)
  BY <1>5, <1>6, <1>7
<1>8. CASE ~LibraryStops(g, p)
  <2>1. ASSUME NEW k \in LibraryDraw(g, p) PROVE k \in Outcome(g)
    <3>1. PICK t \in Pop(q) :
            k = IF HasType(t.card, "action")
                THEN RequestDecision([g EXCEPT !.players[p] = aside(t)], p, "library", 0,
                                     ShownPrompt(<<t.card>>))
                ELSE [g EXCEPT !.players[p] = inHand(t)]
      BY <1>6, <1>8
    <3> QED
      BY <1>3, <1>4, <3>1
  <2> QED
    BY <2>1
<1> QED
  BY <1>7, <1>8

\* A set of states closed under the loop's round holds what the loop ends in.
LEMMA LibraryStepStays ==
  ASSUME NEW S, NEW g \in S, NEW p, \A h \in S : LibraryDraw(h, p) \subseteq S
  PROVE  \A k \in LibraryStep(g, p) :
           \E h \in S : k = IF h.decision # NoDecision THEN h ELSE FlushSetAside(h, p)
<1> DEFINE Sets == SUBSET S
           one == [R \in Sets |-> UNION {LibraryDraw(h, p) : h \in R}]
           step == [k \in 1..7 |-> one]
           Def(f) == f = [k \in 0..7 |-> IF k = 0 THEN {g}
                                         ELSE UNION {LibraryDraw(h, p) : h \in f[k - 1]}]
           round == CHOOSE f : Def(f)
<1>1. step \in [1..7 -> [Sets -> Sets]] /\ {g} \in Sets
  OBVIOUS
<1>2. PICK f \in [0..7 -> Sets] :
        f[0] = {g} /\ \A k \in 1..7 : f[k] = step[k][f[k - 1]]
  <2> HIDE DEF step, Sets
  <2>1. Loops(7, Sets, {g}, step) # {}
    BY <1>1, Rounds
  <2> QED
    BY <2>1 DEF Loops
<1>3. Def(f)
  <2>1. ASSUME NEW k \in 0..7, k # 0
        PROVE  f[k] = UNION {LibraryDraw(h, p) : h \in f[k - 1]}
    <3>1. k - 1 \in 0..7 /\ k \in 1..7
      BY <2>1
    <3>2. f[k - 1] \in Sets
      BY SMTT(30), <3>1
    <3> QED
      BY <1>2, <3>1, <3>2
  <2> QED
    BY <1>2, <2>1
<1>4. Def(round)
  BY <1>3
<1>5. 0..7 \subseteq {k \in 0..7 : round[k] \subseteq S}
  <2> DEFINE T == {k \in 0..7 : round[k] \subseteq S}
  <2> HIDE DEF round
  <2>1. 0 \in T
    BY <1>4
  <2>2. ASSUME NEW k \in 0..(7 - 1), k \in T PROVE k + 1 \in T
    <3>1. k + 1 \in 0..7 /\ k + 1 # 0 /\ (k + 1) - 1 = k
      OBVIOUS
    <3>2. round[k + 1] = UNION {LibraryDraw(h, p) : h \in round[k]}
      BY <1>4, <3>1
    <3> QED
      BY <2>2, <3>1, <3>2
  <2> QED
    BY <2>1, <2>2, UpTo
<1>6. LibraryStep(g, p) =
        {IF h.decision # NoDecision THEN h ELSE FlushSetAside(h, p) : h \in round[7]}
  BY DEF LibraryStep
<1>7. round[7] \subseteq S
  BY <1>5
<1> HIDE DEF round
<1> QED
  BY <1>6, <1>7

LEMMA LibraryOutcome ==
  ASSUME NEW g, Ready(g)
  PROVE  LibraryStep(g, g.current) \subseteq Outcome(g)
<1> DEFINE p == g.current
           S == Outcome(g)
<1>1. g \in S
  BY MovedSelf, MovedReady DEF Ready
<1>2. ASSUME NEW h \in S, h.decision = NoDecision
      PROVE  Ready(h) /\ h.current = p /\ Outcome(h) \subseteq S
  <2>1. Ready(h) /\ h.current = p
    BY <1>2 DEF Ready, Outcome, SameTurn
  <2>2. Outcome(h) \subseteq S
    BY <1>2, OutcomeTwice
  <2> QED
    BY <2>1, <2>2
<1>3. ASSUME NEW h \in S
      PROVE  LibraryDraw(h, p) \subseteq S
  <2>1. CASE h.decision # NoDecision
    BY <2>1 DEF LibraryDraw, LibraryStops
  <2>2. CASE h.decision = NoDecision
    BY <1>2, <2>2, LibraryDrawOutcome
  <2> QED
    BY <2>1, <2>2
<1>4. ASSUME NEW h \in S, h.decision = NoDecision
      PROVE  FlushSetAside(h, p) \in S
  <2>1. Ready(h) /\ h.current = p /\ Outcome(h) \subseteq S
    BY <1>2, <1>4
  <2>2. FlushSetAside(h, p) \in Outcome(h)
    BY <2>1, FlushMoves, MovedReady DEF Ready
  <2> QED
    BY <2>1, <2>2
<1> HIDE DEF S
<1>5. \A k \in LibraryStep(g, p) :
        \E h \in S : k = IF h.decision # NoDecision THEN h ELSE FlushSetAside(h, p)
  BY <1>1, <1>3, LibraryStepStays
<1>6. LibraryStep(g, p) \subseteq S
  BY <1>4, <1>5
<1> QED
  BY <1>6 DEF S

\* One card leaves the cards set aside.
LEMMA WithoutCardTakes ==
  ASSUME NEW s \in Seq(Cards), NEW c, InSeq(c, s), NEW d \in Cards
  PROVE  /\ c \in Cards /\ WithoutCard(s, c) \in Seq(Cards)
         /\ BagOfSeq(WithoutCard(s, c))[d] + OneOf(c)[d] = BagOfSeq(s)[d]
<1>1. IndexOf(s, c) \in 1..Len(s) /\ s[IndexOf(s, c)] = c /\ c \in Cards
  BY IndexOfFinds
<1>2. WithoutCard(s, c) = Without(s, IndexOf(s, c))
  BY DEF WithoutCard
<1> QED
  BY <1>1, <1>2, CountWithout

\* The card a Library shows, kept: it goes from SetAside to the hand.
Kept(g, x) == [g EXCEPT !.players[g.current].setAside = WithoutCard(@, x),
                        !.players[g.current].hand = AddOne(@, x)]

LEMMA KeptMoves ==
  ASSUME NEW g \in GameStates, NEW x, InSeq(x, g.players[g.current].setAside)
  PROVE  Kept(g, x) \in Moved(g)
<1> DEFINE p == g.current
           q == g.players[p]
           w == WithoutCard(q.setAside, x)
           r == [q EXCEPT !.setAside = w, !.hand = AddOne(@, x)]
           kept == [g EXCEPT !.players[p] = r]
<1>1. p \in Players /\ q \in PlayerState /\ g \in GameStates
  BY PlayersFact
<1>2. /\ x \in Cards /\ w \in Seq(Cards)
      /\ \A c \in Cards : BagOfSeq(w)[c] + OneOf(x)[c] = BagOfSeq(q.setAside)[c]
  <2>1. q.setAside \in Seq(Cards) /\ InSeq(x, q.setAside)
    BY <1>1 DEF PlayerState
  <2>2. Cards # {}
    BY CardsAssumption DEF BasicCards
  <2> HIDE DEF q
  <2> QED
    BY <2>1, <2>2, WithoutCardTakes DEF w
<1>3. Kept(g, x) = kept
  BY <1>1 DEF GameStates, Kept
<1>4. /\ r \in PlayerState /\ r.inPlay = q.inPlay /\ r.hand = AddOne(q.hand, x)
      /\ r.deck = q.deck /\ r.top = q.top /\ r.discard = q.discard /\ r.setAside = w
  <2>1. AddOne(q.hand, x) \in Bag
    BY <1>1, BagTypes DEF PlayerState
  <2> HIDE DEF q, w
  <2> QED
    BY <1>1, <1>2, <2>1 DEF PlayerState
<1>5. ASSUME NEW c \in Cards PROVE Owned(r, c) = Owned(q, c)
  <2>1. r.hand[c] = q.hand[c] + OneOf(x)[c] /\ OneOf(x)[c] \in Nat
    BY <1>4 DEF AddOne, BagPlus, OneOf
  <2>2. BagOfSeq(r.setAside)[c] + OneOf(x)[c] = BagOfSeq(q.setAside)[c]
    BY <1>2, <1>4
  <2>3. /\ r.discard[c] = q.discard[c] /\ r.deck[c] = q.deck[c]
        /\ r.inPlay[c] = q.inPlay[c] /\ BagOfSeq(r.top)[c] = BagOfSeq(q.top)[c]
    BY <1>4
  <2> HIDE DEF q, r
  <2> QED
    BY <1>1, <1>4, <2>1, <2>2, <2>3, CountsAreNat DEF Owned
<1>6. kept \in Moved(g)
  <2> HIDE DEF r, q
  <2>1. SameOwned(g.players[p], r)
    BY <1>5 DEF SameOwned, q
  <2> QED
    BY <1>1, <1>4, <2>1, MovePlayer DEF q
<1> QED
  BY <1>3, <1>6

LEMMA LibraryResolved ==
  ASSUME NEW g, Ready(g), NEW d, NEW answer,
         InSeq(d.shown[1], g.players[g.current].setAside)
  PROVE  LibraryOnResolve(g, g.current, d, answer) \subseteq Outcome(g)
<1> DEFINE p == g.current
           kept == Kept(g, d.shown[1])
<1>1. kept \in Moved(g)
  BY KeptMoves DEF Ready
<1>2. LibraryOnResolve(g, p, d, answer) = LibraryStep(IF answer.yes THEN g ELSE kept, p)
  BY DEF LibraryOnResolve, Kept
<1> HIDE DEF kept
<1>3. LibraryStep(g, p) \subseteq Outcome(g)
  BY LibraryOutcome
<1>4. LibraryStep(kept, p) \subseteq Outcome(g)
  <2>1. Ready(kept) /\ kept.current = p
    BY <1>1, MovedReady DEF Moved, SameTurn
  <2>2. LibraryStep(kept, p) \subseteq Outcome(kept)
    BY <2>1, LibraryOutcome
  <2> QED
    BY <1>1, <2>2, MovedOutcome
<1> QED
  BY <1>2, <1>3, <1>4

LEMMA SentryOutcome ==
  ASSUME NEW g, Ready(g)
  PROVE  SentryOnPlay(g, g.current) \subseteq Outcome(g)
<1> DEFINE p == g.current
           before(h) == Len(h.players[p].setAside)
           revealed(h, q) == SubSeq(q.setAside, before(h) + 1, Len(q.setAside))
           after(h, q) == [h EXCEPT !.players[p] = q]
           asked(h, q) ==
             IF revealed(h, q) = <<>> THEN after(h, q)
             ELSE RequestDecision(after(h, q), p, "sentry", 0, ShownPrompt(revealed(h, q)))
<1>1. p \in Players
  BY PlayersFact DEF Ready
<1>2. ASSUME NEW h \in Plus(g, p, 1, 1, 0, 0), NEW q \in PeelToSetAside(h.players[p])
      PROVE  asked(h, q) \in Outcome(g)
  <2>1. h \in Moved(g) /\ h \in GameStates /\ h.current = p /\ h.players[p] \in PlayerState
    BY <1>1, PlusMoves, PlayersFact DEF Moved, SameTurn
  <2>2. q \in PlayerState /\ SameOwned(h.players[p], q)
        /\ q.inPlay = h.players[p].inPlay
    BY <2>1, PeelToSetAsideKeeps
  <2>3. after(h, q) \in Moved(h)
    BY <1>1, <2>1, <2>2, MovePlayer
  <2>4. after(h, q) \in Moved(g)
    BY <2>1, <2>3, MovedTwice
  <2>5. revealed(h, q) \in Seq(Cards)
    <3>1. q.setAside \in Seq(Cards) /\ h.players[p].setAside \in Seq(Cards)
      BY <2>1, <2>2 DEF PlayerState
    <3>2. before(h) \in Nat /\ Len(q.setAside) \in Nat
      BY <3>1
    <3>3. \A i \in (before(h) + 1)..Len(q.setAside) : q.setAside[i] \in Cards
      BY <3>1, <3>2
    <3> HIDE DEF before
    <3> QED
      BY <3>1, <3>2, <3>3
  <2>6. ShownPrompt(revealed(h, q)) \in Prompts /\ "sentry" \in Askers \ {"library"}
        /\ 0 \in 0..2
    <3> HIDE DEF revealed
    <3>1. ShownPrompt(revealed(h, q)) \in Prompts
      BY <2>5, PromptTypes
    <3> QED
      BY <3>1 DEF Askers
  <2> HIDE DEF after, revealed
  <2> QED
    BY <2>4, <2>6, CurrentAsked, MovedReady
<1>3. SentryOnPlay(g, p) =
        UNION {{asked(h, q) : q \in PeelToSetAside(h.players[p])} :
                 h \in Plus(g, p, 1, 1, 0, 0)}
  BY DEF SentryOnPlay
<1> HIDE DEF asked
<1> QED
  BY <1>2, <1>3

LEMMA SentryMoveMoves ==
  ASSUME NEW g \in GameStates, NEW x, NEW step \in 0..2
  PROVE  SentryMove(g, g.current, x, step) \in Moved(g)
<1> DEFINE p == g.current
           q == g.players[p]
           w == WithoutCard(q.setAside, x)
           out == [g EXCEPT !.players[p].setAside = WithoutCard(@, x)]
           u == [q EXCEPT !.setAside = w]
<1>1. p \in Players /\ q \in PlayerState
  BY PlayersFact
<1>2. CASE g.err \/ ~InSeq(x, q.setAside)
  BY <1>2, FailMoves, MovedSelf DEF SentryMove
<1>3. CASE ~g.err /\ InSeq(x, q.setAside)
  <2>1. /\ x \in Cards /\ w \in Seq(Cards)
        /\ \A c \in Cards : BagOfSeq(w)[c] + OneOf(x)[c] = BagOfSeq(q.setAside)[c]
    <3>1. q.setAside \in Seq(Cards) /\ InSeq(x, q.setAside)
      BY <1>1, <1>3 DEF PlayerState
    <3>2. Cards # {}
      BY CardsAssumption DEF BasicCards
    <3> HIDE DEF q
    <3> QED
      BY <3>1, <3>2, WithoutCardTakes DEF w
  <2>2. out = [g EXCEPT !.players[p] = u]
    BY <1>1 DEF GameStates
  <2>3. /\ u \in PlayerState /\ u.inPlay = q.inPlay /\ u.hand = q.hand
        /\ u.deck = q.deck /\ u.top = q.top /\ u.discard = q.discard /\ u.setAside = w
    <3> HIDE DEF q, w
    <3> QED
      BY <1>1, <2>1 DEF PlayerState
  <2>4. ASSUME NEW c \in Cards PROVE Owned(u, c) + OneOf(x)[c] = Owned(q, c)
    <3>1. /\ u.hand[c] = q.hand[c] /\ u.deck[c] = q.deck[c]
          /\ u.discard[c] = q.discard[c] /\ u.inPlay[c] = q.inPlay[c]
          /\ BagOfSeq(u.top)[c] = BagOfSeq(q.top)[c]
      BY <2>3
    <3>2. BagOfSeq(u.setAside)[c] + OneOf(x)[c] = BagOfSeq(q.setAside)[c]
          /\ OneOf(x)[c] \in Nat
      BY <2>1, <2>3 DEF OneOf
    <3> HIDE DEF q, u, w
    <3> QED
      BY <1>1, <2>3, <3>1, <3>2, CountsAreNat DEF Owned
  <2>5. g.trash \in Bag /\ AddOne(g.trash, x) \in Bag /\ g.supply \in Bag
    BY BagTypes DEF GameStates
  <2> DEFINE d == [u EXCEPT !.discard = AddOne(@, x)]
             t == [u EXCEPT !.top = Append(@, x)]
  <2>6. /\ d \in PlayerState /\ d.inPlay = q.inPlay /\ d.hand = u.hand
        /\ d.deck = u.deck /\ d.top = u.top /\ d.discard = AddOne(u.discard, x)
        /\ d.setAside = u.setAside
        /\ t \in PlayerState /\ t.inPlay = q.inPlay /\ t.hand = u.hand
        /\ t.deck = u.deck /\ t.top = Append(u.top, x) /\ t.discard = u.discard
        /\ t.setAside = u.setAside
    <3>1. AddOne(u.discard, x) \in Bag /\ Append(u.top, x) \in Seq(Cards)
      BY <2>1, <2>3, BagTypes DEF PlayerState
    <3> HIDE DEF u
    <3> QED
      BY <2>3, <3>1 DEF PlayerState
  <2>7. ASSUME NEW c \in Cards
        PROVE  Owned(d, c) = Owned(q, c) /\ Owned(t, c) = Owned(q, c)
    <3>1. d.discard[c] = u.discard[c] + OneOf(x)[c] /\ OneOf(x)[c] \in Nat
      BY SMTT(30), <2>6 DEF AddOne, BagPlus, OneOf
    <3>2. BagOfSeq(t.top)[c] = BagOfSeq(u.top)[c] + OneOf(x)[c]
      BY <2>1, <2>3, <2>6, CountAppend DEF PlayerState
    <3>3. /\ d.hand[c] = u.hand[c] /\ d.deck[c] = u.deck[c]
          /\ d.inPlay[c] = u.inPlay[c] /\ BagOfSeq(d.top)[c] = BagOfSeq(u.top)[c]
          /\ BagOfSeq(d.setAside)[c] = BagOfSeq(u.setAside)[c]
          /\ t.hand[c] = u.hand[c] /\ t.deck[c] = u.deck[c]
          /\ t.inPlay[c] = u.inPlay[c] /\ t.discard[c] = u.discard[c]
          /\ BagOfSeq(t.setAside)[c] = BagOfSeq(u.setAside)[c]
      BY <2>3, <2>6
    <3>4. Owned(u, c) + OneOf(x)[c] = Owned(q, c)
      BY <2>4
    <3>5. /\ u.hand[c] \in Nat /\ u.deck[c] \in Nat /\ u.discard[c] \in Nat
          /\ u.inPlay[c] \in Nat /\ BagOfSeq(u.top)[c] \in Nat
          /\ BagOfSeq(u.setAside)[c] \in Nat
      BY <2>3, CountsAreNat
    <3> HIDE DEF q, u, d, t
    <3>6. Owned(d, c) = Owned(u, c) + OneOf(x)[c]
      BY <3>1, <3>3, <3>5 DEF Owned
    <3>7. Owned(t, c) = Owned(u, c) + OneOf(x)[c]
      BY <3>1, <3>2, <3>3, <3>5 DEF Owned
    <3> QED
      BY <3>4, <3>6, <3>7
  <2>8. CASE step = 0
    <3>1. SentryMove(g, p, x, step) = [out EXCEPT !.trash = AddOne(@, x)]
      BY <1>3, <2>8 DEF SentryMove
    <3> HIDE DEF u
    <3>2. [out EXCEPT !.trash = AddOne(@, x)]
            = [g EXCEPT !.players[p] = u, !.supply = g.supply, !.trash = AddOne(g.trash, x)]
      BY <1>1, <2>2 DEF GameStates
    <3>3. ASSUME NEW c \in Cards
          PROVE  g.supply[c] + AddOne(g.trash, x)[c] + Owned(u, c)
                   = g.supply[c] + g.trash[c] + Owned(g.players[p], c)
      <4>1. AddOne(g.trash, x)[c] = g.trash[c] + OneOf(x)[c] /\ OneOf(x)[c] \in Nat
        BY DEF AddOne, BagPlus, OneOf
      <4>2. Owned(u, c) + OneOf(x)[c] = Owned(q, c)
        BY <2>4
      <4>3. g.supply[c] \in Nat /\ g.trash[c] \in Nat
        BY <2>5 DEF Bag
      <4>4. Owned(u, c) \in Nat /\ Owned(q, c) \in Nat
        BY SMTT(30), <1>1, <2>3, OwnedIsNat
      <4> QED
        BY <4>1, <4>2, <4>3, <4>4
    <3>4. [g EXCEPT !.players[p] = u, !.supply = g.supply, !.trash = AddOne(g.trash, x)]
            \in Moved(g)
      <4>1. \A c \in Cards : g.supply[c] + AddOne(g.trash, x)[c] + Owned(u, c)
                              = g.supply[c] + g.trash[c] + Owned(g.players[p], c)
        BY SMTT(30), <3>3
      <4> QED
        BY <1>1, <2>3, <2>5, <4>1, MoveCards
    <3> QED
      BY <3>1, <3>2, <3>4
  <2>9. CASE step = 1
    <3>1. SentryMove(g, p, x, step) = [out EXCEPT !.players[p].discard = AddOne(@, x)]
      BY <1>3, <2>9 DEF SentryMove
    <3>2. [out EXCEPT !.players[p].discard = AddOne(@, x)] = [g EXCEPT !.players[p] = d]
      <4>1. out \in GameStates /\ out.players[p] = u
        <5> HIDE DEF u
        <5> QED
          BY <1>1, <2>2, <2>3 DEF GameStates
      <4> HIDE DEF u, out
      <4>2. [out EXCEPT !.players[p].discard = AddOne(@, x)] = [out EXCEPT !.players[p] = d]
        BY <1>1, <4>1 DEF GameStates
      <4> HIDE DEF d
      <4>3. [out EXCEPT !.players[p] = d] = [g EXCEPT !.players[p] = d]
        BY <1>1, <2>2, <2>3 DEF GameStates
      <4> QED
        BY <4>2, <4>3
    <3> HIDE DEF d
    <3> QED
      BY <1>1, <2>6, <2>7, <3>1, <3>2, MovePlayer DEF SameOwned
  <2>10. CASE step = 2
    <3>1. SentryMove(g, p, x, step) = [out EXCEPT !.players[p].top = Append(@, x)]
      BY <1>3, <2>10 DEF SentryMove
    <3>2. [out EXCEPT !.players[p].top = Append(@, x)] = [g EXCEPT !.players[p] = t]
      <4>1. out \in GameStates /\ out.players[p] = u
        <5> HIDE DEF u
        <5> QED
          BY <1>1, <2>2, <2>3 DEF GameStates
      <4> HIDE DEF u, out
      <4>2. [out EXCEPT !.players[p].top = Append(@, x)] = [out EXCEPT !.players[p] = t]
        BY <1>1, <4>1 DEF GameStates
      <4> HIDE DEF t
      <4>3. [out EXCEPT !.players[p] = t] = [g EXCEPT !.players[p] = t]
        BY <1>1, <2>2, <2>3 DEF GameStates
      <4> QED
        BY <4>2, <4>3
    <3> HIDE DEF t
    <3> QED
      BY <1>1, <2>6, <2>7, <3>1, <3>2, MovePlayer DEF SameOwned
  <2> QED
    BY <2>8, <2>9, <2>10
<1> QED
  BY <1>2, <1>3

\* R[k]: where the first k moves lead, in the states S that no move leaves.
LEMMA SentryMovesRounds ==
  ASSUME NEW g, NEW p, NEW names \in Seq(Cards \cup {NoCard}), NEW step,
         NEW S,
         \A h \in S, x \in Cards \cup {NoCard} : SentryMove(h, p, x, step) \in S,
         NEW R \in [0..Len(names) -> SUBSET S], g \in R[0],
         \A k \in 0..(Len(names) - 1) : \A h \in R[k] :
           SentryMove(h, p, names[k + 1], step) \in R[k + 1]
  PROVE  SentryMoves(g, p, names, step) \in R[Len(names)]
<1> DEFINE n == Len(names)
           one == [k \in 1..n |-> [h \in S |-> SentryMove(h, p, names[k], step)]]
           Def(f) == f = [k \in 0..n |-> IF k = 0 THEN g
                                         ELSE SentryMove(f[k - 1], p, names[k], step)]
           moved == CHOOSE f : Def(f)
<1>1. n \in Nat /\ g \in S
  OBVIOUS
<1>2. ASSUME NEW h \in S, NEW k \in 1..n PROVE SentryMove(h, p, names[k], step) \in S
  <2>1. names[k] \in Cards \cup {NoCard}
    OBVIOUS
  <2> QED
    BY <2>1
<1>3. one \in [1..n -> [S -> S]]
  BY <1>2
<1>4. PICK f \in [0..n -> S] :
        f[0] = g /\ \A k \in 1..n : f[k] = one[k][f[k - 1]]
  <2> HIDE DEF one, n
  <2>1. Loops(n, S, g, one) # {}
    BY <1>1, <1>3, Rounds
  <2> QED
    BY <2>1 DEF Loops
<1>5. Def(f)
  <2> HIDE DEF n
  <2>1. ASSUME NEW k \in 0..n, k # 0
        PROVE  f[k] = SentryMove(f[k - 1], p, names[k], step)
    <3>1. k - 1 \in 0..n /\ k \in 1..n
      BY <1>1, <2>1
    <3>2. f[k - 1] \in S
      BY <3>1
    <3> QED
      BY <1>4, <3>1, <3>2
  <2> QED
    BY <1>4, <2>1
<1>6. Def(moved)
  BY <1>5
<1>7. 0..n \subseteq {k \in 0..n : moved[k] \in R[k]}
  <2> DEFINE T == {k \in 0..n : moved[k] \in R[k]}
  <2> HIDE DEF moved, n
  <2>1. 0 \in T
    BY <1>1, <1>6
  <2>2. ASSUME NEW k \in 0..(n - 1), k \in T PROVE k + 1 \in T
    <3>1. k + 1 \in 0..n /\ k + 1 # 0 /\ (k + 1) - 1 = k
      BY <1>1
    <3>2. moved[k + 1] = SentryMove(moved[k], p, names[k + 1], step)
      BY <1>6, <3>1
    <3> QED
      BY <2>2, <3>1, <3>2 DEF n
  <2> QED
    BY <1>1, <2>1, <2>2, UpTo
<1>8. SentryMoves(g, p, names, step) = moved[n]
  BY DEF SentryMoves
<1>9. moved[n] \in R[n]
  BY <1>1, <1>7
<1> QED
  BY <1>8, <1>9

LEMMA SentryMovesStay ==
  ASSUME NEW g, NEW p, NEW names \in Seq(Cards \cup {NoCard}), NEW step,
         NEW S, g \in S,
         \A h \in S, x \in Cards \cup {NoCard} : SentryMove(h, p, x, step) \in S
  PROVE  SentryMoves(g, p, names, step) \in S
<1> DEFINE n == Len(names)
           R == [k \in 0..n |-> S]
<1>1. n \in Nat /\ R \in [0..n -> SUBSET S] /\ g \in R[0]
  OBVIOUS
<1>2. ASSUME NEW k \in 0..(n - 1), NEW h \in R[k]
      PROVE  SentryMove(h, p, names[k + 1], step) \in R[k + 1]
  <2>1. k \in 0..n /\ k + 1 \in 0..n /\ k + 1 \in 1..n
    BY <1>1
  <2>2. names[k + 1] \in Cards \cup {NoCard}
    BY <2>1
  <2> QED
    BY <2>1, <2>2
<1>3. n \in 0..n
  BY <1>1
<1> HIDE DEF R
<1>4. SentryMoves(g, p, names, step) \in R[n]
  BY <1>1, <1>2, SentryMovesRounds
<1> QED
  BY <1>3, <1>4 DEF R

LEMMA SentryMovesMoves ==
  ASSUME NEW g \in GameStates, NEW names \in Seq(Cards \cup {NoCard}),
         NEW step \in 0..2
  PROVE  SentryMoves(g, g.current, names, step) \in Moved(g)
<1> DEFINE S == Moved(g)
<1>1. g \in S
  BY MovedSelf
<1>2. ASSUME NEW h \in S, NEW x PROVE SentryMove(h, g.current, x, step) \in S
  <2>1. h \in GameStates /\ h.current = g.current
    BY DEF Moved, SameTurn
  <2>2. SentryMove(h, g.current, x, step) \in Moved(h)
    BY <2>1, SentryMoveMoves
  <2> QED
    BY <2>2, MovedTwice
<1> HIDE DEF S
<1>3. SentryMoves(g, g.current, names, step) \in S
  BY <1>1, <1>2, SentryMovesStay
<1> QED
  BY <1>3 DEF S

LEMMA SetAsideToDeckMoves ==
  ASSUME NEW g \in GameStates
  PROVE  SetAsideToDeck(g, g.current) \in Moved(g)
<1> DEFINE p == g.current
           q == g.players[p]
           t == q.top \o q.setAside
           r == [q EXCEPT !.top = t, !.setAside = <<>>]
<1>1. p \in Players /\ q \in PlayerState
  BY PlayersFact
<1>2. t \in Seq(Cards) /\ q.top \in Seq(Cards) /\ q.setAside \in Seq(Cards)
      /\ <<>> \in Seq(Cards)
  BY <1>1 DEF PlayerState
<1>3. SetAsideToDeck(g, p) = [g EXCEPT !.players[p] = r]
  BY <1>1 DEF SetAsideToDeck, GameStates
<1>4. /\ r \in PlayerState /\ r.hand = q.hand /\ r.deck = q.deck /\ r.top = t
      /\ r.discard = q.discard /\ r.inPlay = q.inPlay /\ r.setAside = <<>>
  <2> HIDE DEF q, t
  <2> QED
    BY <1>1, <1>2 DEF PlayerState
<1>5. ASSUME NEW c \in Cards PROVE Owned(r, c) = Owned(q, c)
  <2>1. BagOfSeq(r.top)[c] = BagOfSeq(q.top)[c] + BagOfSeq(q.setAside)[c]
    BY SMTT(30), <1>2, <1>4, CountConcat
  <2>2. BagOfSeq(r.setAside)[c] = 0
    BY SMTT(30), <1>4, CountEmpty DEF EmptyBag
  <2>3. /\ r.hand[c] = q.hand[c] /\ r.deck[c] = q.deck[c] /\ r.inPlay[c] = q.inPlay[c]
        /\ r.discard[c] = q.discard[c]
    BY <1>4
  <2>4. /\ q.hand[c] \in Nat /\ q.deck[c] \in Nat /\ q.discard[c] \in Nat
        /\ q.inPlay[c] \in Nat /\ BagOfSeq(q.top)[c] \in Nat
        /\ BagOfSeq(q.setAside)[c] \in Nat
    BY <1>1, CountsAreNat
  <2> HIDE DEF q, r
  <2> QED
    BY SMTT(30), <2>1, <2>2, <2>3, <2>4 DEF Owned
<1> HIDE DEF r
<1> QED
  BY <1>1, <1>3, <1>4, <1>5, MovePlayer DEF SameOwned

LEMMA SentryResolved ==
  ASSUME NEW g, Ready(g), NEW d \in Decision, NEW answer,
         answer.order \in Seq(Cards \cup {NoCard})
  PROVE  SentryOnResolve(g, g.current, d, answer) \subseteq Outcome(g)
<1> DEFINE p == g.current
           h == SentryMoves(g, p, answer.order, d.step)
           left == h.players[p].setAside
<1>1. d.step \in 0..2
  BY DEF Decision
<1>2. h \in Moved(g)
  BY <1>1, SentryMovesMoves DEF Ready
<1>3. h \in GameStates /\ h.current = p /\ p \in Players
  BY <1>2, PlayersFact DEF Moved, SameTurn, Ready
<1>4. SentryOnResolve(g, p, d, answer)
        = {IF h.err THEN h
           ELSE IF d.step = 2 THEN SetAsideToDeck(h, p)
           ELSE SentryAdvance(h, p, d.step)}
  BY DEF SentryOnResolve
<1> HIDE DEF h
<1>5. SetAsideToDeck(h, p) \in Moved(g)
  BY <1>2, <1>3, SetAsideToDeckMoves, MovedTwice
<1>6. ASSUME d.step # 2 PROVE SentryAdvance(h, p, d.step) \in Outcome(g)
  <2>1. left \in Seq(Cards)
    BY <1>3, PlayersFact DEF PlayerState
  <2>2. d.step + 1 \in 0..2 /\ "sentry" \in Askers \ {"library"}
    BY <1>1, <1>6 DEF Askers
  <2> HIDE DEF left
  <2>3. ShownPrompt(left) \in Prompts
    BY <2>1, PromptTypes
  <2>4. RequestDecision(h, p, "sentry", d.step + 1, ShownPrompt(left)) \in Outcome(g)
    BY <1>2, <2>2, <2>3, CurrentAsked
  <2> QED
    BY <1>2, <1>5, <2>4, MovedReady DEF SentryAdvance, left
<1> QED
  BY <1>2, <1>4, <1>5, <1>6, MovedReady

-----------------------------------------------------------------------------
(* Dispatch, and the cards that play other cards.                          *)

\* Playing any card, by whatever way it came to be played.
LEMMA OnPlayOutcome ==
  ASSUME NEW g, Ready(g), NEW c
  PROVE  OnPlay(g, g.current, c) \subseteq Outcome(g)
<1> DEFINE Asking ==
             {"militia", "bureaucrat", "bandit", "cellar", "chapel", "moneylender",
              "poacher", "workshop", "artisan", "remodel", "mine", "harbinger",
              "throne_room", "vassal", "library", "sentry"}
<1>1. CASE c \in Plain
  BY <1>1, PlainMoves, MovedReady
<1>2. CASE c = "militia"
  BY <1>2, MilitiaOutcome DEF OnPlay
<1>3. CASE c = "bureaucrat"
  BY <1>3, BureaucratOutcome DEF OnPlay
<1>4. CASE c = "bandit"
  BY <1>4, BanditOutcome DEF OnPlay
<1>5. CASE c = "cellar"
  BY <1>5, HandOutcome DEF OnPlay
<1>6. CASE c = "chapel"
  BY <1>6, HandOutcome DEF OnPlay
<1>7. CASE c = "moneylender"
  BY <1>7, HandOutcome DEF OnPlay
<1>8. CASE c = "poacher"
  BY <1>8, HandOutcome DEF OnPlay
<1>9. CASE c = "workshop"
  BY <1>9, HandOutcome DEF OnPlay
<1>10. CASE c = "artisan"
  BY <1>10, HandOutcome DEF OnPlay
<1>11. CASE c = "remodel"
  BY <1>11, HandOutcome DEF OnPlay
<1>12. CASE c = "mine"
  BY <1>12, HandOutcome DEF OnPlay
<1>13. CASE c = "harbinger"
  BY <1>13, HandOutcome DEF OnPlay
<1>14. CASE c = "throne_room"
  BY <1>14, HandOutcome DEF OnPlay
<1>15. CASE c = "vassal"
  BY <1>15, VassalOutcome DEF OnPlay
<1>16. CASE c = "library"
  BY <1>16, LibraryOutcome DEF OnPlay, LibraryOnPlay
<1>17. CASE c = "sentry"
  BY <1>17, SentryOutcome DEF OnPlay
<1>18. CASE c \notin Plain /\ c \notin Asking
  <2>1. OnPlay(g, g.current, c) = {g}
    BY <1>18 DEF OnPlay, Plain
  <2> QED
    BY <2>1, MovedSelf, MovedReady DEF Ready
<1> QED
  BY <1>1, <1>2, <1>3, <1>4, <1>5, <1>6, <1>7, <1>8, <1>9, <1>10, <1>11, <1>12, <1>13, <1>14, <1>15, <1>16, <1>17, <1>18

\* A card that leaves the hand or the discard pile to be played.
Holds(g, c, zone) ==
  c \in Cards /\ IF zone = "hand" THEN g.players[g.current].hand[c] > 0
                                  ELSE g.players[g.current].discard[c] > 0

InPlayFrom(g, c, zone) ==
  LET q == g.players[g.current]
      moved == IF zone = "hand" THEN [q EXCEPT !.hand = DropOne(@, c)]
                                ELSE [q EXCEPT !.discard = DropOne(@, c)]
  IN  [g EXCEPT !.players[g.current] = [moved EXCEPT !.inPlay = AddOne(@, c)]]

LEMMA InPlayKeeps ==
  ASSUME NEW g \in GameStates, NEW c, NEW zone, Holds(g, c, zone)
  PROVE  LET h == InPlayFrom(g, c, zone)
         IN  /\ h \in GameStates
             /\ SameTurn(g, h) /\ SameExisting(g, h) /\ SameWaiting(g, h)
             /\ h.decision = g.decision /\ h.decisionSeq = g.decisionSeq
             /\ h.pendingPlays = g.pendingPlays
             /\ \A x \in Cards : h.players[h.current].inPlay[x]
                                 = g.players[g.current].inPlay[x] + OneOf(c)[x]
<1> DEFINE p == g.current
           q == g.players[p]
           r == IF zone = "hand"
                THEN [q EXCEPT !.hand = DropOne(@, c), !.inPlay = AddOne(@, c)]
                ELSE [q EXCEPT !.discard = DropOne(@, c), !.inPlay = AddOne(@, c)]
           h == InPlayFrom(g, c, zone)
<1>1. p \in Players /\ q \in PlayerState /\ c \in Cards
  BY PlayersFact DEF Holds
<1>2. h = [g EXCEPT !.players[p] = r]
  BY DEF InPlayFrom
<1>3. AddOne(q.inPlay, c) \in Bag /\ (zone = "hand" => DropOne(q.hand, c) \in Bag)
      /\ (zone # "hand" => DropOne(q.discard, c) \in Bag)
  BY <1>1, BagTypes DEF PlayerState, Holds
<1>4. /\ r \in PlayerState /\ r.deck = q.deck /\ r.top = q.top
      /\ r.setAside = q.setAside /\ r.inPlay = AddOne(q.inPlay, c)
      /\ r.hand = IF zone = "hand" THEN DropOne(q.hand, c) ELSE q.hand
      /\ r.discard = IF zone = "hand" THEN q.discard ELSE DropOne(q.discard, c)
  <2> HIDE DEF q
  <2> QED
    BY <1>1, <1>3 DEF PlayerState
<1>5. ASSUME NEW x \in Cards
      PROVE  Owned(r, x) = Owned(q, x) /\ r.inPlay[x] = q.inPlay[x] + OneOf(c)[x]
  <2>1. r.inPlay[x] = q.inPlay[x] + OneOf(c)[x] /\ OneOf(c)[x] \in Nat
    BY <1>4 DEF AddOne, BagPlus, OneOf
  <2>2. r.hand[x] + r.discard[x] = q.hand[x] + q.discard[x] - OneOf(c)[x]
    <3>1. q.hand[x] \in Nat /\ q.discard[x] \in Nat
      BY <1>1, CountsAreNat
    <3>2. CASE zone = "hand"
      <4>1. r.hand[x] = q.hand[x] - OneOf(c)[x] /\ r.discard[x] = q.discard[x]
        BY <1>4, <3>2 DEF DropOne, BagMinus
      <4> HIDE DEF r, q
      <4> QED
        BY <2>1, <3>1, <4>1
    <3>3. CASE zone # "hand"
      <4>1. r.discard[x] = q.discard[x] - OneOf(c)[x] /\ r.hand[x] = q.hand[x]
        BY <1>4, <3>3 DEF DropOne, BagMinus
      <4> HIDE DEF r, q
      <4> QED
        BY <2>1, <3>1, <4>1
    <3> QED
      BY <3>2, <3>3
  <2>3. /\ r.deck[x] = q.deck[x] /\ BagOfSeq(r.top)[x] = BagOfSeq(q.top)[x]
        /\ BagOfSeq(r.setAside)[x] = BagOfSeq(q.setAside)[x]
    BY <1>4
  <2>4. /\ q.hand[x] \in Nat /\ q.deck[x] \in Nat /\ q.discard[x] \in Nat
        /\ q.inPlay[x] \in Nat /\ BagOfSeq(q.top)[x] \in Nat
        /\ BagOfSeq(q.setAside)[x] \in Nat /\ r.hand[x] \in Nat /\ r.discard[x] \in Nat
    BY <1>1, <1>4, CountsAreNat
  <2> HIDE DEF q, r
  <2> QED
    BY <2>1, <2>2, <2>3, <2>4 DEF Owned
<1> HIDE DEF r, h
<1>6. h = Relocated(g, p, r, g.supply, g.trash)
  BY <1>2 DEF Relocated, GameStates
<1>7. Balanced(g, p, r, g.supply, g.trash)
  BY <1>5 DEF Balanced
<1>8. g.supply \in Bag /\ g.trash \in Bag
  BY DEF GameStates
<1>9. /\ h \in GameStates
      /\ SameTurn(g, h) /\ SameExisting(g, h) /\ SameWaiting(g, h)
      /\ h.decision = g.decision /\ h.decisionSeq = g.decisionSeq
      /\ h.pendingPlays = g.pendingPlays /\ h.players[p] = r
  BY <1>1, <1>4, <1>6, <1>7, <1>8, Relocate
<1>10. h.current = p
  BY <1>9 DEF SameTurn
<1> QED
  BY <1>5, <1>9, <1>10 DEF h

LEMMA ReplaysFinite ==
  ASSUME NEW g \in GameStates, NEW x
  PROVE  IsFiniteSet(Replays(g, x)) /\ Cardinality(Replays(g, x)) \in Nat
<1> DEFINE n == Len(g.pendingPlays)
<1>1. Replays(g, x) \in SUBSET (1..n) /\ n \in Nat
  BY DEF Replays, GameStates
<1> HIDE DEF n
<1>2. IsFiniteSet(1..n)
  BY <1>1, FS_Interval
<1> QED
  BY <1>1, <1>2, FS_Subset, FS_CardinalityType

LEMMA InPlayReady ==
  ASSUME NEW g, Ready(g), NEW c, NEW zone, Holds(g, c, zone)
  PROVE  LET h == InPlayFrom(g, c, zone)
         IN  Ready(h) /\ h \in Outcome(g) /\ h.current = g.current
<1> DEFINE h == InPlayFrom(g, c, zone)
<1>1. /\ h \in GameStates
      /\ SameTurn(g, h) /\ SameExisting(g, h) /\ SameWaiting(g, h)
      /\ h.decision = g.decision /\ h.decisionSeq = g.decisionSeq
      /\ h.pendingPlays = g.pendingPlays
      /\ \A x \in Cards : h.players[h.current].inPlay[x]
                          = g.players[g.current].inPlay[x] + OneOf(c)[x]
  BY InPlayKeeps DEF Ready
<1> HIDE DEF h
<1>2. ReplaysInPlay(h)
  <2>1. \A x : Replays(h, x) = Replays(g, x)
    BY <1>1 DEF Replays
  <2>2. ASSUME NEW x \in Cards
        PROVE  Cardinality(Replays(h, x)) <= h.players[h.current].inPlay[x]
    <3>1. Cardinality(Replays(g, x)) <= g.players[g.current].inPlay[x]
      BY DEF Ready, ReplaysInPlay
    <3>2. Cardinality(Replays(g, x)) \in Nat
      BY ReplaysFinite DEF Ready
    <3>3. OneOf(c)[x] \in Nat /\ g.players[g.current].inPlay[x] \in Nat
      BY PlayersFact, CountsAreNat DEF OneOf, Ready
    <3>4. h.players[h.current].inPlay[x]
            = g.players[g.current].inPlay[x] + OneOf(c)[x]
      BY <1>1
    <3>5. Cardinality(Replays(h, x)) = Cardinality(Replays(g, x))
      BY <2>1
    <3> QED
      BY <3>1, <3>2, <3>3, <3>4, <3>5
  <2> QED
    BY <1>1, <2>2 DEF Ready, ReplaysInPlay, SameTurn
<1>3. h \in Outcome(g) /\ h.decision = NoDecision
  BY <1>1, <1>2 DEF Outcome, Asks, CurrentAsks, LibraryShown, Ready
<1>4. Ready(h) /\ h.current = g.current
  BY <1>1, <1>2, <1>3 DEF Ready, SameTurn
<1> QED
  BY <1>3, <1>4 DEF h

LEMMA FromZoneOutcome ==
  ASSUME NEW g, Ready(g), NEW c, NEW zone
  PROVE  /\ PlayCardFromZone(g, g.current, c, zone) \subseteq Outcome(g)
         /\ c \in Plain => \A k \in PlayCardFromZone(g, g.current, c, zone) :
                             k.decision = NoDecision
<1> DEFINE h == InPlayFrom(g, c, zone)
<1>1. CASE Holds(g, c, zone)
  <2>1. PlayCardFromZone(g, g.current, c, zone) = OnPlay(h, g.current, c)
    BY <1>1 DEF PlayCardFromZone, PlayCardInPlace, InPlayFrom, Holds
  <2>2. Ready(h) /\ h \in Outcome(g) /\ h.current = g.current /\ h.decision = NoDecision
    BY <1>1, InPlayReady DEF Ready
  <2> HIDE DEF h
  <2>3. OnPlay(h, g.current, c) \subseteq Outcome(h)
    BY <2>2, OnPlayOutcome
  <2>4. c \in Plain => OnPlay(h, g.current, c) \subseteq Moved(h)
    BY <2>2, PlainMoves
  <2>5. OnPlay(h, g.current, c) \subseteq Outcome(g)
    BY <2>2, <2>3, OutcomeTwice
  <2> QED
    BY <2>1, <2>2, <2>4, <2>5 DEF Moved
<1>2. CASE ~Holds(g, c, zone)
  <2>1. PlayCardFromZone(g, g.current, c, zone) = {Fail(g)}
    BY <1>2 DEF PlayCardFromZone, Holds
  <2>2. Fail(g) \in Moved(g)
    BY FailMoves DEF Ready
  <2> QED
    BY <2>1, <2>2, MovedReady DEF Moved, Ready
<1> QED
  BY <1>1, <1>2

LEMMA VassalResolved ==
  ASSUME NEW g, Ready(g), NEW d, NEW answer
  PROVE  VassalOnResolve(g, g.current, d, answer) \subseteq Outcome(g)
<1>1. g \in Outcome(g)
  BY MovedSelf, MovedReady DEF Ready
<1> QED
  BY <1>1, FromZoneOutcome DEF VassalOnResolve

\* A replay that is queued is one more of its card.
LEMMA Queued ==
  ASSUME NEW g \in GameStates, NEW c \in Cards, NEW h,
         h.pendingPlays = Append(g.pendingPlays, [player |-> g.current, card |-> c]),
         \A i \in DOMAIN g.pendingPlays : g.pendingPlays[i].player = g.current,
         NEW x \in Cards
  PROVE  /\ \A i \in DOMAIN h.pendingPlays : h.pendingPlays[i].player = g.current
         /\ Cardinality(Replays(h, x)) = Cardinality(Replays(g, x)) + OneOf(c)[x]
<1> DEFINE s == g.pendingPlays
           e == [player |-> g.current, card |-> c]
           n == Len(s)
<1>1. s \in Seq(PendingPlay) /\ e \in PendingPlay /\ n \in Nat
      /\ e.player = g.current /\ e.card = c
  BY PlayersFact DEF GameStates, PendingPlay
<1>2. h.pendingPlays = Append(s, e)
  OBVIOUS
<1> HIDE DEF s, e
<1>3. /\ DOMAIN s = 1..n /\ DOMAIN h.pendingPlays = 1..(n + 1)
      /\ h.pendingPlays[n + 1] = e
      /\ \A i \in 1..n : h.pendingPlays[i] = s[i]
  BY <1>1, <1>2
<1> HIDE DEF n
<1>4. \A i \in 1..(n + 1) : i \in 1..n \/ i = n + 1
  BY <1>1
<1>5. Replays(g, x) = {i \in 1..n : s[i].card = x}
  BY <1>3 DEF Replays, s
<1>6. Replays(h, x) = Replays(g, x) \cup (IF c = x THEN {n + 1} ELSE {})
  <2>1. \A i \in 1..n : i \in 1..(n + 1) /\ i # n + 1
    BY <1>1
  <2>2. n + 1 \in 1..(n + 1)
    BY <1>1
  <2> QED
    BY <1>1, <1>3, <1>4, <1>5, <2>1, <2>2 DEF Replays
<1>7. n + 1 \notin Replays(g, x)
  BY <1>1, <1>5
<1>8. IsFiniteSet(Replays(g, x)) /\ Cardinality(Replays(g, x)) \in Nat
  BY ReplaysFinite
<1>9. Cardinality(Replays(h, x)) = Cardinality(Replays(g, x)) + OneOf(c)[x]
  <2>1. CASE c = x
    <3>1. Replays(h, x) = Replays(g, x) \cup {n + 1}
      BY <1>6, <2>1
    <3>2. Cardinality(Replays(g, x) \cup {n + 1}) = Cardinality(Replays(g, x)) + 1
      BY <1>7, <1>8, FS_AddElement
    <3>3. OneOf(c)[x] = 1
      BY <2>1 DEF OneOf
    <3> QED
      BY <3>1, <3>2, <3>3
  <2>2. CASE c # x
    <3>1. Replays(h, x) = Replays(g, x)
      BY <1>6, <2>2
    <3>2. OneOf(c)[x] = 0
      BY <2>2 DEF OneOf
    <3> QED
      BY <1>8, <3>1, <3>2
  <2> QED
    BY <2>1, <2>2
<1>10. \A i \in DOMAIN h.pendingPlays : h.pendingPlays[i].player = g.current
  BY <1>1, <1>3, <1>4 DEF s
<1> QED
  BY <1>9, <1>10

\* The state in which a Throne Room makes the first of its two plays.
Doubled(g, c) ==
  LET queued == [g EXCEPT !.pendingPlays =
                            Append(@, [player |-> g.current, card |-> c])]
  IN  InPlayFrom(queued, c, "hand")

LEMMA DoubledReady ==
  ASSUME NEW g, Ready(g), NEW answer, InHand(g, g.current, answer.choice)
  PROVE  LET h == Doubled(g, answer.choice)
         IN  /\ Ready(h) /\ h \in Outcome(g) /\ h.current = g.current
             /\ ThroneRoomOnResolve(g, g.current, answer)
                  = OnPlay(h, g.current, answer.choice)
<1> DEFINE p == g.current
           c == answer.choice
           e == [player |-> p, card |-> c]
           queued == [g EXCEPT !.pendingPlays = Append(@, e)]
           h == InPlayFrom(queued, c, "hand")
<1>1. h = Doubled(g, c)
  BY DEF Doubled
<1>2. InHand(g, p, c)
  OBVIOUS
<1>3. /\ Ready(h) /\ h \in Outcome(g) /\ h.current = p
      /\ ThroneRoomOnResolve(g, p, answer) = OnPlay(h, p, c)
  <2>1. g \in GameStates /\ p \in Players /\ c \in Cards /\ e \in PendingPlay
    BY <1>2, PlayersFact DEF Ready, InHand, PendingPlay
  <2> HIDE DEF e
  <2>2. /\ queued \in GameStates /\ queued.players = g.players /\ queued.current = p
        /\ queued.pendingPlays = Append(g.pendingPlays, e)
        /\ queued.decision = g.decision /\ queued.decisionSeq = g.decisionSeq
        /\ queued.supply = g.supply /\ queued.trash = g.trash /\ SameTurn(g, queued)
    <3>1. Append(g.pendingPlays, e) \in Seq(PendingPlay)
      BY <2>1 DEF GameStates
    <3> QED
      BY <2>1, <3>1 DEF GameStates, SameTurn
  <2>3. ThroneRoomOnResolve(g, p, answer) = PlayCardFromZone(queued, p, c, "hand")
    BY <1>2 DEF ThroneRoomOnResolve, e
  <2> HIDE DEF queued, c, p
  <2>4. Holds(queued, c, "hand")
    BY <1>2, <2>2 DEF Holds, InHand
  <2>5. PlayCardFromZone(queued, p, c, "hand") = OnPlay(h, p, c)
    BY <2>2, <2>4 DEF PlayCardFromZone, PlayCardInPlace, InPlayFrom, Holds
  <2>6. /\ h \in GameStates
        /\ SameTurn(queued, h) /\ SameExisting(queued, h) /\ SameWaiting(queued, h)
        /\ h.decision = queued.decision /\ h.decisionSeq = queued.decisionSeq
        /\ h.pendingPlays = queued.pendingPlays
        /\ \A x \in Cards : h.players[h.current].inPlay[x]
                            = queued.players[queued.current].inPlay[x] + OneOf(c)[x]
    BY <2>2, <2>4, InPlayKeeps
  <2> HIDE DEF h
  <2>7. ReplaysInPlay(h)
    <3>1. /\ h.pendingPlays = Append(g.pendingPlays, [player |-> g.current, card |-> c])
          /\ h.current = g.current
      BY <2>2, <2>6 DEF e, p, SameTurn
    <3>2. \A i \in DOMAIN g.pendingPlays : g.pendingPlays[i].player = g.current
      BY DEF Ready, ReplaysInPlay
    <3>3. ASSUME NEW x \in Cards
          PROVE  /\ \A i \in DOMAIN h.pendingPlays : h.pendingPlays[i].player = g.current
                 /\ Cardinality(Replays(h, x)) <= h.players[h.current].inPlay[x]
      <4>1. /\ \A i \in DOMAIN h.pendingPlays : h.pendingPlays[i].player = g.current
            /\ Cardinality(Replays(h, x)) = Cardinality(Replays(g, x)) + OneOf(c)[x]
        BY <2>1, <3>1, <3>2, Queued
      <4>2. Cardinality(Replays(g, x)) <= g.players[g.current].inPlay[x]
        BY DEF Ready, ReplaysInPlay
      <4>3. Cardinality(Replays(g, x)) \in Nat
        BY <2>1, ReplaysFinite
      <4>4. OneOf(c)[x] \in Nat /\ g.players[g.current].inPlay[x] \in Nat
        BY <2>1, PlayersFact, CountsAreNat DEF OneOf
      <4>5. h.players[h.current].inPlay[x]
              = g.players[g.current].inPlay[x] + OneOf(c)[x]
        BY <2>2, <2>6 DEF p
      <4> QED
        BY <4>1, <4>2, <4>3, <4>4, <4>5
    <3>4. \A i \in DOMAIN h.pendingPlays : h.pendingPlays[i].player = h.current
      BY <2>1, <3>1, <3>3
    <3> QED
      BY <3>3, <3>4 DEF ReplaysInPlay
  <2>8. SameTurn(g, h) /\ SameExisting(g, h) /\ SameWaiting(g, h)
    <3>1. SameExisting(g, queued) /\ SameWaiting(g, queued)
      BY <2>2 DEF SameExisting, SameWaiting, SameMeans, Existing
    <3> QED
      BY <2>2, <2>6, <3>1 DEF SameTurn, SameExisting, SameWaiting, SameMeans
  <2>9. h \in Outcome(g) /\ h.decision = NoDecision
    BY <2>2, <2>6, <2>7, <2>8 DEF Outcome, Asks, CurrentAsks, LibraryShown, Ready
  <2>10. Ready(h) /\ h.current = p
    BY <2>2, <2>6, <2>7, <2>9 DEF Ready, SameTurn
  <2> QED
    BY <2>3, <2>5, <2>9, <2>10
<1> QED
  BY <1>1, <1>3

LEMMA ThroneRoomResolved ==
  ASSUME NEW g, Ready(g), NEW answer
  PROVE  ThroneRoomOnResolve(g, g.current, answer) \subseteq Outcome(g)
<1> DEFINE p == g.current
           c == answer.choice
           h == Doubled(g, c)
<1>1. CASE ~InHand(g, p, c)
  BY <1>1, FromZoneOutcome DEF ThroneRoomOnResolve
<1>2. CASE InHand(g, p, c)
  <2>1. /\ Ready(h) /\ h \in Outcome(g) /\ h.current = p
        /\ ThroneRoomOnResolve(g, p, answer) = OnPlay(h, p, c)
    BY <1>2, DoubledReady
  <2> HIDE DEF h
  <2>2. h.decision = NoDecision /\ OnPlay(h, p, c) \subseteq Outcome(h)
    BY <2>1, OnPlayOutcome DEF Ready
  <2> QED
    BY <2>1, <2>2, OutcomeTwice
<1> QED
  BY <1>1, <1>2

\* The list prompts, whose answers are bags of cards.
ListPrompt(d) ==
  \/ d.card \in {"militia", "bureaucrat", "cellar", "chapel", "moneylender", "poacher"}
  \/ d.card \in {"remodel", "mine"} /\ d.step = 0

\* Answering any decision, obediently or not.
LEMMA OnResolveOutcome ==
  ASSUME NEW g, Ready(g), NEW d \in Decision, NEW answer,
         d.card \in AttackAskers \/ d.player = g.current,
         d.card = "library" => InSeq(d.shown[1], g.players[d.player].setAside),
         ListPrompt(d) => answer.list \in Bag,
         d.card = "sentry" => answer.order \in Seq(Cards \cup {NoCard})
  PROVE  OnResolve(g, d, answer) \subseteq Outcome(g)
<1> DEFINE p == d.player
<1>1. p \in Players /\ d.card \in Askers /\ (d.card \notin AttackAskers => p = g.current)
  BY DEF Decision
<1>2. CASE d.card = "militia"
  BY <1>2, <1>1, MilitiaResolved DEF OnResolve, ListPrompt
<1>3. CASE d.card = "bureaucrat"
  BY <1>3, <1>1, BureaucratResolved DEF OnResolve, ListPrompt
<1>4. CASE d.card = "bandit"
  BY <1>4, <1>1, BanditResolved DEF OnResolve
<1>5. CASE d.card = "cellar"
  BY <1>5, <1>1, CellarResolved DEF OnResolve, ListPrompt, AttackAskers
<1>6. CASE d.card = "chapel"
  BY <1>6, <1>1, HandResolved DEF OnResolve, ListPrompt, AttackAskers
<1>7. CASE d.card = "poacher"
  BY <1>7, <1>1, HandResolved DEF OnResolve, ListPrompt, AttackAskers
<1>8. CASE d.card = "moneylender"
  BY <1>8, <1>1, MoneylenderResolved DEF OnResolve, ListPrompt, AttackAskers
<1>9. CASE d.card = "workshop"
  BY <1>9, <1>1, WorkshopResolved DEF OnResolve, AttackAskers
<1>10. CASE d.card = "artisan"
  BY <1>10, <1>1, ArtisanResolved DEF OnResolve, AttackAskers
<1>11. CASE d.card = "remodel"
  BY <1>11, <1>1, RemodelResolved DEF OnResolve, ListPrompt, AttackAskers
<1>12. CASE d.card = "mine"
  BY <1>12, <1>1, MineResolved DEF OnResolve, ListPrompt, AttackAskers
<1>13. CASE d.card = "harbinger"
  BY <1>13, <1>1, HarbingerResolved DEF OnResolve, AttackAskers
<1>14. CASE d.card = "vassal"
  BY <1>14, <1>1, VassalResolved DEF OnResolve, AttackAskers
<1>15. CASE d.card = "library"
  BY <1>15, <1>1, LibraryResolved DEF OnResolve, AttackAskers
<1>16. CASE d.card = "sentry"
  BY <1>16, <1>1, SentryResolved DEF OnResolve, AttackAskers
<1>17. CASE d.card = "throne_room"
  BY <1>17, <1>1, ThroneRoomResolved DEF OnResolve, AttackAskers
<1> QED
  BY <1>1, <1>2, <1>3, <1>4, <1>5, <1>6, <1>7, <1>8, <1>9, <1>10, <1>11, <1>12, <1>13, <1>14, <1>15, <1>16, <1>17 DEF Askers
=============================================================================
