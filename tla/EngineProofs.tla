---------------------------- MODULE EngineProofs ----------------------------
(***************************************************************************)
(* The engine's invariants, for every kingdom, every starting deck and     *)
(* every answer of the types the engine accepts, and that the engine       *)
(* implements the turn protocol.                                           *)
(***************************************************************************)
EXTENDS Engine, CardEffectsProofs

(***************************************************************************)
(* The inductive invariant.  The properties are not inductive alone: a     *)
(* Library that returns a kept card to the hand conserves the cards only   *)
(* because the card it asked about is still set aside, an answer may add   *)
(* Coins or Actions only because nobody but the current player is asked    *)
(* (but by an attack), and a replay runs for the current player with its   *)
(* card in play only because every one that was queued did.                *)
(***************************************************************************)
Sound(g) ==
  g \in GameStates /\ CurrentAsks(g) /\ LibraryShown(g) /\ ReplaysInPlay(g)

CleanPlayer(q) ==
  /\ q.inPlay = EmptyBag /\ q.setAside = <<>>
  /\ q.actions = 0 /\ q.buys = 0 /\ q.coins = 0
  /\ q.charges = 0 /\ ~q.silver

WaitingIsClean(g) == CleanPlayer(g.players[Opponent(g.current)])

IInv == Sound(gs) /\ CardsConserved /\ IdlePlayerIsClean

\* What one call of Apply makes of a state, as far as the invariant goes.
Keeps(g, h) ==
  /\ Sound(h) /\ SameExisting(g, h)
  /\ WaitingIsClean(g) => WaitingIsClean(h)

LEMMA KeepsTwice ==
  ASSUME NEW g, NEW h, Keeps(g, h), NEW k, Keeps(h, k)
  PROVE  Keeps(g, k)
BY DEF Keeps, SameExisting

LEMMA SoundReady ==
  ASSUME NEW g
  PROVE  /\ Ready(g) => Sound(g)
         /\ Sound(g) /\ g.decision = NoDecision => Ready(g)
BY DEF Sound, Ready, CurrentAsks, LibraryShown

LEMMA OutcomeKeeps ==
  ASSUME NEW g, NEW h \in Outcome(g)
  PROVE  Keeps(g, h)
<1>1. h.current = g.current
  BY DEF Outcome, SameTurn
<1> QED
  BY <1>1 DEF Outcome, Keeps, Sound, WaitingIsClean, CleanPlayer, SameWaiting, SameMeans

-----------------------------------------------------------------------------
(* The replays a Throne Room still owes.                                   *)

\* The youngest replay taken off the list, and then made.
LEMMA UnwindOnePlays ==
  ASSUME NEW g, Ready(g), Len(g.pendingPlays) # 0
  PROVE  LET h == [g EXCEPT !.pendingPlays = Front(@)]
         IN  /\ Ready(h) /\ h.current = g.current /\ h \in Outcome(g)
             /\ h.players = g.players /\ h.err = g.err
             /\ Len(h.pendingPlays) = Len(g.pendingPlays) - 1
             /\ \E c : UnwindOne(g) = OnPlay(h, g.current, c)
<1> DEFINE s == g.pendingPlays
           n == Len(s)
           last == s[n]
           h == [g EXCEPT !.pendingPlays = Front(@)]
<1>1. n # 0
  OBVIOUS
<1>2. /\ Ready(h) /\ h.current = g.current /\ h \in Outcome(g)
      /\ h.players = g.players /\ h.err = g.err
      /\ Len(h.pendingPlays) = n - 1 /\ UnwindOne(g) = OnPlay(h, g.current, last.card)
  <2>1. s \in Seq(PendingPlay) /\ n \in Nat /\ n - 1 \in 0..n /\ n \in 1..n
        /\ DOMAIN s = 1..n
    BY <1>1 DEF Ready, GameStates
  <2>2. Front(s) = SubSeq(s, 1, n - 1)
    BY DEF Front
  <2> HIDE DEF s, n
  <2>3. /\ Front(s) \in Seq(PendingPlay) /\ DOMAIN Front(s) = 1..(n - 1)
        /\ Len(Front(s)) = n - 1
        /\ \A i \in 1..(n - 1) : i \in 1..n /\ Front(s)[i] = s[i]
    <3>1. \A i \in 1..(n - 1) : s[i] \in PendingPlay
      BY <2>1
    <3> QED
      BY <2>1, <2>2, <3>1
  <2>4. /\ h \in GameStates /\ h.decision = NoDecision /\ h.pendingPlays = Front(s)
        /\ SameTurn(g, h) /\ h.players = g.players /\ h.supply = g.supply
        /\ h.trash = g.trash /\ h.decisionSeq = g.decisionSeq /\ h.err = g.err
    BY <2>3 DEF Ready, GameStates, SameTurn, s
  <2>5. last.player = g.current
    BY <2>1 DEF Ready, ReplaysInPlay, s
  <2>6. UnwindOne(g) = OnPlay(h, g.current, last.card)
    BY <1>1, <2>5 DEF UnwindOne, PlayCardInPlace, Ready, n, s
  <2> HIDE DEF h
  <2>7. ReplaysInPlay(h)
    <3>1. ASSUME NEW x \in Cards
          PROVE  Cardinality(Replays(h, x)) <= h.players[h.current].inPlay[x]
      <4>1. Replays(h, x) \subseteq Replays(g, x)
        BY <2>1, <2>3, <2>4 DEF Replays, s
      <4>2. IsFiniteSet(Replays(g, x)) /\ Cardinality(Replays(g, x)) \in Nat
            /\ Cardinality(Replays(h, x)) \in Nat
        BY <2>4, ReplaysFinite DEF Ready
      <4>3. Cardinality(Replays(h, x)) <= Cardinality(Replays(g, x))
        BY <4>1, <4>2, FS_Subset
      <4>4. Cardinality(Replays(g, x)) <= g.players[g.current].inPlay[x]
        BY DEF Ready, ReplaysInPlay
      <4>5. h.players[h.current].inPlay[x] = g.players[g.current].inPlay[x]
            /\ g.players[g.current].inPlay[x] \in Nat
        BY <2>4, PlayersFact, CountsAreNat DEF SameTurn, Ready
      <4> QED
        BY <4>2, <4>3, <4>4, <4>5
    <3>2. ASSUME NEW i \in DOMAIN h.pendingPlays
          PROVE  h.pendingPlays[i].player = h.current
      BY <2>1, <2>3, <2>4 DEF Ready, ReplaysInPlay, SameTurn, s
    <3> QED
      BY <3>1, <3>2 DEF ReplaysInPlay
  <2>8. SameExisting(g, h) /\ SameWaiting(g, h)
    BY <2>4 DEF SameExisting, SameWaiting, SameMeans, Existing
  <2>9. Ready(h) /\ h.current = g.current /\ h \in Outcome(g)
    BY <2>4, <2>7, <2>8 DEF Ready, Outcome, Asks, CurrentAsks, LibraryShown, SameTurn
  <2> QED
    BY <2>3, <2>4, <2>6, <2>9
<1> QED
  BY <1>2

LEMMA UnwindOneOutcome ==
  ASSUME NEW g, Ready(g)
  PROVE  UnwindOne(g) \subseteq Outcome(g)
<1> DEFINE h == [g EXCEPT !.pendingPlays = Front(@)]
<1>1. CASE Len(g.pendingPlays) = 0
  BY <1>1, MovedSelf, MovedReady DEF UnwindOne, Ready
<1>2. CASE Len(g.pendingPlays) # 0
  <2>1. /\ Ready(h) /\ h.current = g.current /\ h \in Outcome(g)
        /\ \E c : UnwindOne(g) = OnPlay(h, g.current, c)
    BY <1>2, UnwindOnePlays
  <2> HIDE DEF h
  <2>2. PICK c : UnwindOne(g) = OnPlay(h, g.current, c)
    BY <2>1
  <2>3. h.decision = NoDecision /\ OnPlay(h, g.current, c) \subseteq Outcome(h)
    BY <2>1, OnPlayOutcome DEF Ready
  <2> QED
    BY <2>1, <2>2, <2>3, OutcomeTwice
<1> QED
  BY <1>1, <1>2

\* The loop round by round: S[k] holds what k rounds may end in.
LEMMA UnwindRounds ==
  ASSUME NEW g, g.pendingPlays \in Seq(PendingPlay), NEW U,
         NEW S \in [0..Len(g.pendingPlays) -> SUBSET U], g \in S[0],
         \A h \in U : UnwindOne(h) \subseteq U,
         \A k \in 0..(Len(g.pendingPlays) - 1) :
           \A h \in S[k] : UnwindOne(h) \subseteq S[k + 1]
  PROVE  Unwind(g) \subseteq S[Len(g.pendingPlays)]
<1> DEFINE Sets == SUBSET U
           n == Len(g.pendingPlays)
           one == [R \in Sets |-> UNION {UnwindOne(h) : h \in R}]
           step == [k \in 1..n |-> one]
           Def(f) == f = [k \in 0..n |-> IF k = 0 THEN {g}
                                         ELSE UNION {UnwindOne(h) : h \in f[k - 1]}]
           round == CHOOSE f : Def(f)
<1>1. step \in [1..n -> [Sets -> Sets]] /\ {g} \in Sets /\ n \in Nat
  <2>1. n \in Nat /\ 0 \in 0..n
    OBVIOUS
  <2> QED
    BY <2>1
<1>2. PICK f \in [0..n -> Sets] :
        f[0] = {g} /\ \A k \in 1..n : f[k] = step[k][f[k - 1]]
  <2> HIDE DEF step, Sets, n
  <2>1. Loops(n, Sets, {g}, step) # {}
    BY <1>1, Rounds
  <2> QED
    BY <2>1 DEF Loops
<1>3. Def(f)
  <2> HIDE DEF n
  <2>1. ASSUME NEW k \in 0..n, k # 0
        PROVE  f[k] = UNION {UnwindOne(h) : h \in f[k - 1]}
    <3>1. k - 1 \in 0..n /\ k \in 1..n
      BY <1>1, <2>1
    <3>2. f[k - 1] \in Sets
      BY <3>1
    <3> QED
      BY <1>2, <3>1, <3>2
  <2> QED
    BY <1>2, <2>1
<1>4. Def(round)
  BY <1>3
<1>5. 0..n \subseteq {k \in 0..n : round[k] \subseteq S[k]}
  <2> DEFINE T == {k \in 0..n : round[k] \subseteq S[k]}
  <2> HIDE DEF round, n
  <2>1. 0 \in T
    BY <1>1, <1>4
  <2>2. ASSUME NEW k \in 0..(n - 1), k \in T PROVE k + 1 \in T
    <3>1. k + 1 \in 0..n /\ k + 1 # 0 /\ (k + 1) - 1 = k
      BY <1>1
    <3>2. round[k + 1] = UNION {UnwindOne(h) : h \in round[k]}
      BY <1>4, <3>1
    <3>3. \A h \in S[k] : UnwindOne(h) \subseteq S[k + 1]
      BY DEF n
    <3> QED
      BY <2>2, <3>1, <3>2, <3>3
  <2> QED
    BY <1>1, <2>1, <2>2, UpTo
<1>6. Unwind(g) = round[n]
  BY DEF Unwind
<1> HIDE DEF round, n
<1>7. round[n] \subseteq S[n]
  BY <1>1, <1>5
<1> QED
  BY <1>6, <1>7 DEF n

\* A set of states closed under the loop's round holds what the loop ends in.
LEMMA UnwindStays ==
  ASSUME NEW S, NEW g \in S, g.pendingPlays \in Seq(PendingPlay),
         \A h \in S : UnwindOne(h) \subseteq S
  PROVE  Unwind(g) \subseteq S
<1> DEFINE n == Len(g.pendingPlays)
           always == [k \in 0..n |-> S]
<1>1. n \in Nat
  OBVIOUS
<1>2. /\ always \in [0..n -> SUBSET S] /\ g \in always[0] /\ always[n] = S
      /\ \A k \in 0..(n - 1) : always[k] = S /\ always[k + 1] = S
  <2> HIDE DEF n
  <2> QED
    BY <1>1
<1> HIDE DEF always
<1>3. \A k \in 0..(n - 1) : \A h \in always[k] : UnwindOne(h) \subseteq always[k + 1]
  BY <1>2
<1>4. Unwind(g) \subseteq always[n]
  BY <1>2, <1>3, UnwindRounds
<1> QED
  BY <1>2, <1>4

LEMMA UnwindOutcome ==
  ASSUME NEW g, NEW h \in Outcome(g)
  PROVE  Unwind(h) \subseteq Outcome(g)
<1> DEFINE S == Outcome(g)
<1>1. h \in S /\ h.pendingPlays \in Seq(PendingPlay)
  BY DEF Outcome, GameStates
<1>2. ASSUME NEW k \in S PROVE UnwindOne(k) \subseteq S
  <2>1. CASE k.decision # NoDecision
    BY <2>1 DEF UnwindOne
  <2>2. CASE k.decision = NoDecision
    <3>1. Ready(k)
      BY <2>2 DEF Ready, Outcome
    <3>2. UnwindOne(k) \subseteq Outcome(k)
      BY <3>1, UnwindOneOutcome
    <3> QED
      BY <2>2, <3>2, OutcomeTwice
  <2> QED
    BY <2>1, <2>2
<1> HIDE DEF S
<1>3. Unwind(h) \subseteq S
  BY <1>1, <1>2, UnwindStays
<1> QED
  BY <1>3 DEF S

-----------------------------------------------------------------------------
(* The calls of Apply.                                                     *)

\* Whether the last call was rejected is nothing the invariant looks at.
LEMMA ErrKeeps ==
  ASSUME NEW g, Sound(g), NEW e \in BOOLEAN
  PROVE  LET h == [g EXCEPT !.err = e]
         IN  /\ Keeps(g, h) /\ SameTurn(g, h)
             /\ h.decision = g.decision /\ h.decisionSeq = g.decisionSeq
<1> DEFINE h == [g EXCEPT !.err = e]
<1>1. /\ h \in GameStates /\ SameTurn(g, h) /\ h.players = g.players
      /\ h.supply = g.supply /\ h.trash = g.trash /\ h.current = g.current
      /\ h.decision = g.decision /\ h.decisionSeq = g.decisionSeq
      /\ h.pendingPlays = g.pendingPlays
  BY DEF Sound, GameStates, SameTurn
<1> HIDE DEF h
<1>2. \A x : Replays(h, x) = Replays(g, x)
  BY <1>1 DEF Replays
<1>3. Sound(h)
  BY <1>1, <1>2 DEF Sound, CurrentAsks, LibraryShown, ReplaysInPlay
<1>4. SameExisting(g, h) /\ (WaitingIsClean(g) => WaitingIsClean(h))
  BY <1>1 DEF SameExisting, Existing, WaitingIsClean
<1> QED
  BY <1>1, <1>3, <1>4 DEF Keeps, h

LEMMA FailKeeps ==
  ASSUME NEW g, Sound(g)
  PROVE  /\ Keeps(g, Fail(g)) /\ SameTurn(g, Fail(g))
         /\ Fail(g).decision = g.decision /\ Fail(g).decisionSeq = g.decisionSeq
BY ErrKeeps DEF Fail

LEMMA ResolveKeeps ==
  ASSUME NEW g, Sound(g), g.decision # NoDecision, NEW p, NEW id, NEW answer,
         ListPrompt(g.decision) => answer.list \in Bag,
         g.decision.card = "sentry" => answer.order \in Seq(Cards \cup {NoCard}),
         NEW h \in ApplyResolveDecision(g, p, id, answer)
  PROVE  /\ Keeps(g, h) /\ SameTurn(g, h)
         /\ \/ h.decision = NoDecision /\ h.decisionSeq = g.decisionSeq
            \/ h.decision # NoDecision /\ h.decisionSeq = g.decisionSeq + 1
            \/ h.decision = g.decision /\ h.decisionSeq = g.decisionSeq
<1> DEFINE d == g.decision
           k == [g EXCEPT !.decision = NoDecision]
<1>1. CASE d.id # id \/ d.player # p
  BY <1>1, FailKeeps DEF ApplyResolveDecision
<1>2. CASE ~(d.id # id \/ d.player # p)
  <2>1. d \in Decision
    BY DEF Sound, GameStates
  <2>2. /\ k \in GameStates /\ SameTurn(g, k) /\ k.players = g.players
        /\ k.supply = g.supply /\ k.trash = g.trash /\ k.current = g.current
        /\ k.decision = NoDecision /\ k.decisionSeq = g.decisionSeq
        /\ k.pendingPlays = g.pendingPlays
    BY DEF Sound, GameStates, SameTurn
  <2>3. PICK a \in OnResolve(k, d, answer) : h \in (IF a.err THEN {a} ELSE Unwind(a))
    BY <1>2 DEF ApplyResolveDecision
  <2> HIDE DEF k
  <2>4. Ready(k)
    <3>1. \A x : Replays(k, x) = Replays(g, x)
      BY <2>2 DEF Replays
    <3> QED
      BY <2>2, <3>1 DEF Ready, Sound, ReplaysInPlay
  <2>5. SameExisting(g, k) /\ (WaitingIsClean(g) => WaitingIsClean(k))
    BY <2>2 DEF SameExisting, Existing, WaitingIsClean
  <2>6. a \in Outcome(k)
    <3>1. d.card \in AttackAskers \/ d.player = k.current
      BY <2>2 DEF Sound, CurrentAsks
    <3>2. d.card = "library" => InSeq(d.shown[1], k.players[d.player].setAside)
      BY <2>2 DEF Sound, LibraryShown
    <3> HIDE DEF d
    <3>3. OnResolve(k, d, answer) \subseteq Outcome(k)
      BY <2>1, <2>4, <3>1, <3>2, OnResolveOutcome DEF d
    <3> QED
      BY <2>3, <3>3
  <2>7. h \in Outcome(k)
    BY <2>3, <2>6, UnwindOutcome
  <2>8. Keeps(k, h)
    BY <2>7, OutcomeKeeps
  <2>9. SameTurn(g, h) /\ Asks(k, h)
    BY <2>2, <2>7 DEF Outcome, SameTurn
  <2> QED
    BY <2>2, <2>5, <2>8, <2>9 DEF Keeps, SameExisting, Asks
<1> QED
  BY <1>1, <1>2

LEMMA TreasureIsPlain ==
  ASSUME NEW c \in Cards, HasType(c, "treasure")
  PROVE  c \in Plain
<1>1. \A x \in Registered : "treasure" \in CardTypes[x] => x \in {"copper", "silver", "gold"}
  BY DEF Registered, CardTypes
<1> QED
  BY <1>1, CardsAssumption DEF HasType, Plain

\* Playing a card, which asks somebody something in the Action phase only.
LEMMA PlayOutcome ==
  ASSUME NEW g, Ready(g), NEW c \in Cards, NEW h \in ApplyPlayCard(g, g.current, c)
  PROVE  /\ h \in Outcome(g)
         /\ g.phase # "action" => h.decision = NoDecision
<1> DEFINE p == g.current
           q == g.players[p]
           r == [q EXCEPT !.actions = @ - 1]
           spent == [g EXCEPT !.players[p].actions = @ - 1]
<1>1. p \in Players /\ q \in PlayerState /\ g \in GameStates
  BY PlayersFact DEF Ready
<1>2. Fail(g) \in Outcome(g) /\ Fail(g).decision = NoDecision
  BY <1>1, FailMoves, MovedReady DEF Moved, Ready
<1>3. CASE g.phase = "action"
  <2>1. CASE HasType(c, "action") /\ q.actions > 0
    <3>1. r \in PlayerState /\ SameOwned(q, r) /\ r.inPlay = q.inPlay
      <4>1. q.actions - 1 \in Nat
        BY <1>1, <2>1 DEF PlayerState
      <4> HIDE DEF q
      <4> QED
        BY <1>1, <4>1 DEF PlayerState, SameOwned, Owned
    <3>2. spent = [g EXCEPT !.players[p] = r]
      BY <1>1 DEF GameStates
    <3>3. h \in PlayCardFromZone(spent, p, c, "hand")
      BY <1>3, <2>1 DEF ApplyPlayCard
    <3> HIDE DEF r, spent
    <3>4. spent \in Moved(g)
      BY <1>1, <3>1, <3>2, MovePlayer
    <3>5. Ready(spent) /\ spent.current = p
      BY <3>4, MovedReady DEF Moved, SameTurn
    <3>6. h \in Outcome(spent)
      BY <3>3, <3>5, FromZoneOutcome
    <3> QED
      BY <1>3, <3>4, <3>6, MovedOutcome
  <2>2. CASE ~(HasType(c, "action") /\ q.actions > 0)
    BY <1>2, <1>3, <2>2 DEF ApplyPlayCard
  <2> QED
    BY <2>1, <2>2
<1>4. CASE g.phase # "action"
  <2>1. CASE HasType(c, "treasure")
    <3>1. h \in PlayCardFromZone(g, p, c, "hand") /\ c \in Plain
      BY <1>4, <2>1, TreasureIsPlain DEF ApplyPlayCard
    <3> QED
      BY <3>1, FromZoneOutcome
  <2>2. CASE ~HasType(c, "treasure")
    BY <1>2, <1>4, <2>2 DEF ApplyPlayCard
  <2> QED
    BY <2>1, <2>2
<1> QED
  BY <1>3, <1>4

LEMMA BuyMoves ==
  ASSUME NEW g, Ready(g), NEW c \in Cards
  PROVE  ApplyBuyCard(g, g.current, c) \subseteq Moved(g)
<1> DEFINE p == g.current
           q == g.players[p]
           r == [q EXCEPT !.coins = @ - Cost[c], !.buys = @ - 1]
           paid == [g EXCEPT !.players[p].coins = @ - Cost[c], !.players[p].buys = @ - 1]
           can == /\ g.phase = "buy" /\ g.supply[c] > 0
                  /\ q.buys > 0 /\ q.coins >= Cost[c]
<1>1. p \in Players /\ q \in PlayerState /\ g \in GameStates /\ Cost[c] \in Nat
  BY PlayersFact, CostIsNat, CardsAssumption DEF Ready
<1>2. Fail(g) \in Moved(g)
  BY <1>1, FailMoves
<1>3. CASE can
  <2>1. r \in PlayerState /\ SameOwned(q, r) /\ r.inPlay = q.inPlay
    <3>1. q.coins - Cost[c] \in Nat /\ q.buys - 1 \in Nat
      <4>1. q.coins \in Nat /\ q.buys \in Nat /\ q.buys > 0 /\ q.coins >= Cost[c]
        BY <1>1, <1>3 DEF PlayerState
      <4> QED
        BY <1>1, <4>1
    <3> HIDE DEF q
    <3> QED
      BY <1>1, <3>1 DEF PlayerState, SameOwned, Owned
  <2>2. paid = [g EXCEPT !.players[p] = r]
    BY <1>1 DEF GameStates
  <2>3. ApplyBuyCard(g, p, c) = {GainCard(paid, p, c, "discard")}
    BY <1>3 DEF ApplyBuyCard
  <2> HIDE DEF r, q, paid
  <2>4. paid \in Moved(g)
    BY <1>1, <2>1, <2>2, MovePlayer DEF q
  <2>5. GainCard(paid, p, c, "discard") \in Moved(paid)
    BY <1>1, <2>4, GainCardMoves DEF Moved
  <2> QED
    BY <2>3, <2>4, <2>5, MovedTwice
<1>4. CASE ~can
  BY <1>2, <1>4 DEF ApplyBuyCard
<1> QED
  BY <1>3, <1>4

-----------------------------------------------------------------------------
(* The end of a turn.                                                      *)

LEMMA CleanedUpKeeps ==
  ASSUME NEW q \in PlayerState, NEW r \in CleanedUp(q)
  PROVE  r \in PlayerState /\ SameOwned(q, r) /\ CleanPlayer(r)
<1> DEFINE all == BagPlus(BagPlus(q.discard, BagOfSeq(q.setAside)), BagPlus(q.inPlay, q.hand))
           u == [q EXCEPT !.discard = all, !.setAside = <<>>, !.inPlay = EmptyBag,
                          !.hand = EmptyBag]
<1>1. PICK v \in DrawCards(u, 5) :
        r = [v EXCEPT !.actions = 0, !.buys = 0, !.coins = 0, !.charges = 0,
                      !.silver = FALSE]
  BY DEF CleanedUp
<1>2. all \in Bag /\ EmptyBag \in Bag /\ <<>> \in Seq(Cards) /\ BagOfSeq(q.setAside) \in Bag
  BY SeqIsBag, BagTypes DEF PlayerState
<1>3. ASSUME NEW c \in Cards
      PROVE  all[c] = q.discard[c] + BagOfSeq(q.setAside)[c] + (q.inPlay[c] + q.hand[c])
  BY <1>3 DEF BagPlus
<1> HIDE DEF all
<1>4. /\ u \in PlayerState /\ u.deck = q.deck /\ u.top = q.top /\ u.discard = all
      /\ u.setAside = <<>> /\ u.inPlay = EmptyBag /\ u.hand = EmptyBag
  BY <1>2 DEF PlayerState
<1> HIDE DEF u
<1>5. ASSUME NEW c \in Cards PROVE Owned(u, c) = Owned(q, c)
  <2>1. /\ u.hand[c] = 0 /\ u.inPlay[c] = 0 /\ BagOfSeq(u.setAside)[c] = 0
        /\ u.deck[c] = q.deck[c] /\ BagOfSeq(u.top)[c] = BagOfSeq(q.top)[c]
        /\ u.discard[c] = q.discard[c] + BagOfSeq(q.setAside)[c] + (q.inPlay[c] + q.hand[c])
    BY <1>3, <1>4, CountEmpty DEF EmptyBag
  <2>2. /\ q.hand[c] \in Nat /\ q.deck[c] \in Nat /\ q.discard[c] \in Nat
        /\ q.inPlay[c] \in Nat /\ BagOfSeq(q.top)[c] \in Nat
        /\ BagOfSeq(q.setAside)[c] \in Nat
    BY CountsAreNat
  <2> QED
    BY <2>1, <2>2 DEF Owned
<1>6. v \in PlayerState /\ SameOwned(u, v) /\ v.inPlay = EmptyBag /\ v.setAside = <<>>
  <2>1. v \in Rearranged(u)
    BY <1>1, <1>4, DrawCardsKeeps
  <2> QED
    BY <1>4, <2>1 DEF Rearranged, SameMeans
<1>7. /\ r \in PlayerState /\ CleanPlayer(r) /\ r.hand = v.hand /\ r.deck = v.deck
      /\ r.top = v.top /\ r.discard = v.discard /\ r.inPlay = v.inPlay
      /\ r.setAside = v.setAside
  BY <1>1, <1>6 DEF PlayerState, CleanPlayer
<1>8. ASSUME NEW c \in Cards PROVE Owned(r, c) = Owned(v, c)
  BY <1>7 DEF Owned
<1> QED
  BY <1>5, <1>6, <1>7, <1>8 DEF SameOwned

LEMMA StartTurnKeeps ==
  ASSUME NEW q \in PlayerState
  PROVE  StartTurn(q) \in PlayerState /\ SameOwned(q, StartTurn(q))
<1> DEFINE r == StartTurn(q)
<1>1. /\ r \in PlayerState /\ r.hand = q.hand /\ r.deck = q.deck
      /\ r.top = q.top /\ r.discard = q.discard /\ r.inPlay = q.inPlay
      /\ r.setAside = q.setAside
  BY DEF PlayerState, StartTurn
<1> HIDE DEF r
<1>2. SameOwned(q, r)
  BY <1>1 DEF SameOwned, Owned
<1> QED
  BY <1>1, <1>2 DEF r

\* What passing the turn amounts to.
Passed(g, h) ==
  /\ h \in GameStates /\ h.pendingPlays = <<>>
  /\ h.decision = NoDecision /\ h.decisionSeq = g.decisionSeq
  /\ h.current = Opponent(g.current) /\ h.starting = g.starting
  /\ h.phase = "action"
  /\ h.turn = IF h.current = g.starting THEN g.turn + 1 ELSE g.turn
  /\ SameExisting(g, h) /\ WaitingIsClean(h)

LEMMA CleanupPasses ==
  ASSUME NEW g, Ready(g), NEW h \in CleanupAndEndTurn(g)
  PROVE  /\ Passed(g, h) /\ h.ended = g.ended /\ h.supply = g.supply
         /\ h.players[g.current] \in CleanedUp(g.players[g.current])
         /\ h.players[h.current] = StartTurn(g.players[h.current])
<1> DEFINE px == g.current
           next == Opponent(px)
           q == g.players[px]
<1>1. /\ px \in Players /\ next \in Players /\ next # px /\ Opponent(next) = px
      /\ q \in PlayerState /\ g.players[next] \in PlayerState /\ g \in GameStates
      /\ g.turn \in Nat
  BY PlayersFact DEF Ready, GameStates
<1>2. PICK k \in WithPlayer(g, px, CleanedUp(q)) :
        h = [k EXCEPT !.pendingPlays = <<>>, !.current = next, !.phase = "action",
                      !.turn = IF next = g.starting THEN @ + 1 ELSE @,
                      !.players[next] = StartTurn(@)]
  BY DEF CleanupAndEndTurn
<1>3. PICK r \in CleanedUp(q) : k = [g EXCEPT !.players[px] = r]
  BY DEF WithPlayer
<1>4. r \in PlayerState /\ SameOwned(q, r) /\ CleanPlayer(r)
  BY <1>1, CleanedUpKeeps
<1>5. StartTurn(g.players[next]) \in PlayerState
      /\ SameOwned(g.players[next], StartTurn(g.players[next]))
  BY <1>1, StartTurnKeeps
<1> DEFINE s == StartTurn(g.players[next])
<1> HIDE DEF s
<1>6. h = [g EXCEPT !.pendingPlays = <<>>, !.current = next, !.phase = "action",
                    !.turn = IF next = g.starting THEN @ + 1 ELSE @,
                    !.players = [@ EXCEPT ![px] = r, ![next] = s]]
  <2> HIDE DEF q, px, next
  <2>1. k.players = [g.players EXCEPT ![px] = r] /\ k.players[next] = g.players[next]
        /\ k.turn = g.turn /\ k \in GameStates
    BY <1>1, <1>3, <1>4 DEF GameStates
  <2> QED
    BY <1>1, <1>2, <1>3, <1>4, <2>1 DEF GameStates, s
<1>7. g.turn + 1 \in Nat /\ <<>> \in Seq(PendingPlay)
  BY <1>1
<1>8. /\ h \in GameStates /\ h.pendingPlays = <<>> /\ h.current = next
      /\ h.starting = g.starting /\ h.phase = "action" /\ h.ended = g.ended
      /\ h.turn = IF h.current = g.starting THEN g.turn + 1 ELSE g.turn
      /\ h.decision = g.decision /\ h.decisionSeq = g.decisionSeq
      /\ h.supply = g.supply /\ h.trash = g.trash
      /\ h.players[px] = r /\ h.players[next] = s
  <2> HIDE DEF q, px, next
  <2> QED
    BY <1>1, <1>4, <1>5, <1>6, <1>7 DEF GameStates, s
<1>9. SameExisting(g, h)
  <2>1. ASSUME NEW c \in Cards
        PROVE  Owned(h.players[px], c) = Owned(g.players[px], c)
               /\ Owned(h.players[next], c) = Owned(g.players[next], c)
    BY <1>4, <1>5, <1>8 DEF SameOwned, s
  <2>2. \A p \in Players : p = px \/ p = next
    BY <1>1 DEF Players
  <2>3. \A c \in Cards : \A p \in Players : Owned(h.players[p], c) = Owned(g.players[p], c)
    BY <2>1, <2>2
  <2> QED
    BY <1>8, <2>3 DEF SameExisting, Existing, Players
<1>10. WaitingIsClean(h)
  BY <1>1, <1>4, <1>8 DEF WaitingIsClean
<1> QED
  BY <1>3, <1>8, <1>9, <1>10 DEF Passed, Ready, s

LEMMA PassedKeeps ==
  ASSUME NEW g, NEW h, Passed(g, h)
  PROVE  Keeps(g, h)
<1>1. ReplaysInPlay(h)
  <2>1. \A x : Replays(h, x) = {}
    BY DEF Passed, Replays
  <2>2. \A x \in Cards : h.players[h.current].inPlay[x] \in Nat
    BY PlayersFact, CountsAreNat DEF Passed
  <2> QED
    <3>1. \A x \in Cards : Cardinality(Replays(h, x)) <= h.players[h.current].inPlay[x]
      BY <2>1, <2>2, FS_EmptySet
    <3>2. DOMAIN h.pendingPlays = {}
      BY DEF Passed
    <3> QED
      BY <3>1, <3>2 DEF ReplaysInPlay
<1> QED
  BY <1>1 DEF Passed, Keeps, Sound, CurrentAsks, LibraryShown

\* Ending the Buy phase passes the turn and may end the game.
LEMMA EndTurnPasses ==
  ASSUME NEW g, Ready(g), g.phase # "action", NEW h \in ApplyEndPhase(g)
  PROVE  Passed(g, h) /\ h.ended \in BOOLEAN
<1>1. PICK k \in CleanupAndEndTurn(g) : h = (IF IsGameOver(k) THEN EndGame(k) ELSE k)
  BY DEF ApplyEndPhase
<1>2. Passed(g, k)
  BY CleanupPasses
<1>3. CASE IsGameOver(k)
  <2>1. DetermineWinners(k) \in SUBSET Players
    BY DEF DetermineWinners
  <2>2. h = [k EXCEPT !.ended = TRUE, !.winners = DetermineWinners(k)]
    BY <1>1, <1>3 DEF EndGame
  <2> DEFINE w == DetermineWinners(k)
  <2> HIDE DEF w
  <2>3. /\ h \in GameStates /\ h.ended = TRUE /\ h.players = k.players
        /\ h.pendingPlays = k.pendingPlays /\ h.supply = k.supply /\ h.trash = k.trash
        /\ h.decision = k.decision /\ h.decisionSeq = k.decisionSeq
        /\ h.current = k.current /\ h.starting = k.starting /\ h.phase = k.phase
        /\ h.turn = k.turn
    BY <1>2, <2>1, <2>2 DEF Passed, GameStates, w
  <2> QED
    BY <1>2, <2>3 DEF Passed, SameExisting, Existing, WaitingIsClean
<1>4. CASE ~IsGameOver(k)
  BY <1>1, <1>2, <1>4 DEF Passed, GameStates
<1> QED
  BY <1>3, <1>4

LEMMA EndActionsKeeps ==
  ASSUME NEW g, Ready(g), g.phase = "action", NEW h \in ApplyEndPhase(g)
  PROVE  /\ Keeps(g, h) /\ h.decision = NoDecision /\ h.decisionSeq = g.decisionSeq
         /\ h.current = g.current /\ h.starting = g.starting /\ h.phase = "buy"
         /\ h.turn = g.turn /\ h.ended = g.ended
<1>1. h = [g EXCEPT !.phase = "buy"]
  BY DEF ApplyEndPhase
<1>2. /\ h \in GameStates /\ h.players = g.players
      /\ h.supply = g.supply /\ h.trash = g.trash /\ h.current = g.current
      /\ h.decision = g.decision /\ h.decisionSeq = g.decisionSeq
      /\ h.pendingPlays = g.pendingPlays /\ h.starting = g.starting
      /\ h.phase = "buy" /\ h.turn = g.turn /\ h.ended = g.ended
  BY <1>1 DEF Ready, GameStates
<1>3. \A x : Replays(h, x) = Replays(g, x)
  BY <1>2 DEF Replays
<1>4. Ready(h)
  BY <1>2, <1>3 DEF Ready, ReplaysInPlay
<1>5. SameExisting(g, h) /\ (WaitingIsClean(g) => WaitingIsClean(h))
  BY <1>2 DEF SameExisting, Existing, WaitingIsClean
<1> QED
  BY <1>2, <1>4, <1>5, SoundReady DEF Keeps, Ready

-----------------------------------------------------------------------------
(* Every call.                                                             *)

\* A call of Apply with arguments of the right types.
WellFormed(g, act) ==
  \/ act.kind \in {"play", "buy"} /\ act.card \in Cards
  \/ act.kind = "end"
  \/ /\ act.kind = "resolve"
     /\ g.decision # NoDecision =>
          /\ ListPrompt(g.decision) => act.answer.list \in Bag
          /\ g.decision.card = "sentry" =>
               act.answer.order \in Seq(Cards \cup {NoCard})

\* What its clients may see of one call: nothing, or one step of the protocol.
Visible(g, h) ==
  \/ /\ SameTurn(g, h) /\ h.decision = g.decision /\ h.decisionSeq = g.decisionSeq
  \/ /\ ~g.ended /\ g.decision = NoDecision /\ g.phase = "action"
     /\ SameTurn(g, h) /\ h.decision # NoDecision
     /\ h.decisionSeq = g.decisionSeq + 1
  \/ /\ ~g.ended /\ g.decision # NoDecision /\ SameTurn(g, h)
     /\ \/ h.decision = NoDecision /\ h.decisionSeq = g.decisionSeq
        \/ h.decision # NoDecision /\ h.decisionSeq = g.decisionSeq + 1
  \/ /\ ~g.ended /\ g.decision = NoDecision /\ g.phase = "action"
     /\ h.decision = NoDecision /\ h.decisionSeq = g.decisionSeq
     /\ h.current = g.current /\ h.starting = g.starting /\ h.phase = "buy"
     /\ h.turn = g.turn /\ h.ended = g.ended
  \/ /\ ~g.ended /\ g.decision = NoDecision /\ g.phase = "buy"
     /\ h.decision = NoDecision /\ h.decisionSeq = g.decisionSeq
     /\ h.current = Opponent(g.current) /\ h.starting = g.starting
     /\ h.phase = "action" /\ h.ended \in BOOLEAN
     /\ h.turn = IF h.current = g.starting THEN g.turn + 1 ELSE g.turn

LEMMA OutcomeVisible ==
  ASSUME NEW g, Ready(g), ~g.ended, NEW h \in Outcome(g),
         g.phase # "action" => h.decision = NoDecision
  PROVE  Visible(g, h)
BY DEF Outcome, Ready, Asks, Visible

LEMMA ApplyKeeps ==
  ASSUME NEW g0, Sound(g0), NEW act, WellFormed(g0, act), NEW h \in Apply(g0, act)
  PROVE  Keeps(g0, h) /\ Visible(g0, h)
<1> DEFINE g == [g0 EXCEPT !.err = FALSE]
<1>1. /\ Keeps(g0, g) /\ SameTurn(g0, g)
      /\ g.decision = g0.decision /\ g.decisionSeq = g0.decisionSeq
  BY ErrKeeps
<1>2. WellFormed(g, act)
  BY <1>1 DEF WellFormed
<1>3. h \in IF g.ended THEN {Fail(g)}
            ELSE IF g.decision # NoDecision
            THEN IF act.kind = "resolve"
                 THEN ApplyResolveDecision(g, act.player, act.id, act.answer)
                 ELSE {Fail(g)}
            ELSE IF act.player # g.current \/ act.kind = "resolve" THEN {Fail(g)}
            ELSE CASE act.kind = "play" -> ApplyPlayCard(g, act.player, act.card)
                   [] act.kind = "buy" -> ApplyBuyCard(g, act.player, act.card)
                   [] act.kind = "end" -> ApplyEndPhase(g)
  BY DEF Apply
<1> HIDE DEF g
<1>4. Sound(g) /\ g \in GameStates
  BY <1>1 DEF Keeps, Sound
<1>5. SUFFICES Keeps(g, h) /\ Visible(g, h)
  BY <1>1, KeepsTwice DEF Visible, SameTurn
<1>6. CASE h = Fail(g)
  BY <1>4, <1>6, FailKeeps DEF Visible
<1>7. CASE ~g.ended /\ g.decision # NoDecision /\ act.kind = "resolve"
  <2>1. h \in ApplyResolveDecision(g, act.player, act.id, act.answer)
    BY <1>3, <1>7
  <2>2. /\ ListPrompt(g.decision) => act.answer.list \in Bag
        /\ g.decision.card = "sentry" => act.answer.order \in Seq(Cards \cup {NoCard})
    BY <1>2, <1>7 DEF WellFormed
  <2>3. /\ Keeps(g, h) /\ SameTurn(g, h)
        /\ \/ h.decision = NoDecision /\ h.decisionSeq = g.decisionSeq
           \/ h.decision # NoDecision /\ h.decisionSeq = g.decisionSeq + 1
           \/ h.decision = g.decision /\ h.decisionSeq = g.decisionSeq
    BY <1>4, <1>7, <2>1, <2>2, ResolveKeeps
  <2> QED
    BY <1>7, <2>3 DEF Visible
<1>8. CASE ~g.ended /\ g.decision = NoDecision /\ act.player = g.current
           /\ act.kind # "resolve"
  <2>1. Ready(g)
    BY <1>4, <1>8, SoundReady
  <2>2. CASE act.kind = "play"
    <3>1. h \in ApplyPlayCard(g, g.current, act.card) /\ act.card \in Cards
      BY <1>2, <1>3, <1>8, <2>2 DEF WellFormed
    <3>2. h \in Outcome(g) /\ (g.phase # "action" => h.decision = NoDecision)
      BY <2>1, <3>1, PlayOutcome
    <3> QED
      BY <1>8, <2>1, <3>2, OutcomeKeeps, OutcomeVisible
  <2>3. CASE act.kind = "buy"
    <3>1. h \in ApplyBuyCard(g, g.current, act.card) /\ act.card \in Cards
      BY <1>2, <1>3, <1>8, <2>3 DEF WellFormed
    <3>2. h \in Moved(g)
      BY <2>1, <3>1, BuyMoves
    <3>3. h \in Outcome(g) /\ h.decision = NoDecision
      BY <2>1, <3>2, MovedReady DEF Ready
    <3> QED
      BY <1>8, <2>1, <3>3, OutcomeKeeps, OutcomeVisible
  <2>4. CASE act.kind = "end"
    <3>1. h \in ApplyEndPhase(g)
      BY <1>3, <1>8, <2>4
    <3>2. CASE g.phase = "action"
      BY <1>8, <2>1, <3>1, <3>2, EndActionsKeeps DEF Visible
    <3>3. CASE g.phase # "action"
      <4>1. g.phase = "buy"
        BY <1>4, <3>3 DEF GameStates
      <4>2. Passed(g, h) /\ h.ended \in BOOLEAN
        BY <2>1, <3>1, <3>3, EndTurnPasses
      <4> QED
        BY <1>8, <4>1, <4>2, PassedKeeps DEF Passed, Visible
    <3> QED
      BY <3>2, <3>3
  <2> QED
    BY <1>2, <1>8, <2>2, <2>3, <2>4 DEF WellFormed
<1>9. \/ h = Fail(g)
      \/ ~g.ended /\ g.decision # NoDecision /\ act.kind = "resolve"
      \/ ~g.ended /\ g.decision = NoDecision /\ act.player = g.current
         /\ act.kind # "resolve"
  BY <1>3
<1> QED
  BY <1>6, <1>7, <1>8, <1>9

LEMMA SubBagsAreBags ==
  ASSUME NEW b \in Bag
  PROVE  SubBags(b) \subseteq Bag
<1>1. ASSUME NEW copies \in SUBSET Copies(b), NEW c \in Cards
      PROVE  Cardinality({x \in copies : x[1] = c}) \in Nat
  <2>1. {x \in copies : x[1] = c} \in SUBSET Copies(b)
    OBVIOUS
  <2>2. IsFiniteSet({x \in copies : x[1] = c})
    BY <2>1, SizeIsNat, FS_Subset
  <2> QED
    BY <2>2, FS_CardinalityType
<1>2. ASSUME NEW copies \in SUBSET Copies(b)
      PROVE  [c \in Cards |-> Cardinality({x \in copies : x[1] = c})] \in Bag
  BY <1>1 DEF Bag
<1> QED
  BY <1>2 DEF SubBags

\* Every answer a client may give is of the type its card expects.
LEMMA AnswerTypes ==
  ASSUME NEW g \in GameStates, g.decision # NoDecision,
         NEW answer \in Answers(g, g.decision)
  PROVE  /\ ListPrompt(g.decision) => answer.list \in Bag
         /\ g.decision.card = "sentry" => answer.order \in Seq(Cards \cup {NoCard})
<1> DEFINE d == g.decision
<1>1. d \in Decision /\ g.players[d.player] \in PlayerState
  BY PlayersFact DEF GameStates, Decision
<1>2. AsksForList(d) <=> ListPrompt(d)
  BY DEF AsksForList, ListCards, ListPrompt
<1>3. Lists(g, d) \subseteq Bag
  <2>1. g.players[d.player].hand \in Bag
    BY <1>1 DEF PlayerState
  <2> DEFINE hand == g.players[d.player].hand
             b == [c \in Cards |-> IF Passes(d, c) THEN hand[c] ELSE 0]
  <2>2. b \in Bag
    <3> HIDE DEF hand
    <3> QED
      BY <2>1 DEF Bag, hand
  <2>3. ObedientLists(g, d) \subseteq SubBags(b)
    BY DEF ObedientLists, Offered
  <2> HIDE DEF b
  <2>4. ObedientLists(g, d) \subseteq Bag
    BY <2>2, <2>3, SubBagsAreBags
  <2>5. SubBags(hand) \cup {OneOf(c) : c \in Cards} \subseteq Bag
    BY <2>1, SubBagsAreBags, BagTypes
  <2> QED
    BY <2>4, <2>5 DEF Lists
<1>4. Orders(d) \subseteq Seq(Cards \cup {NoCard})
  <2> DEFINE names == {d.shown[i] : i \in DOMAIN d.shown}
             from(S) == UNION {[1..n -> S] : n \in 0..Len(d.shown)}
  <2>1. d.shown \in Seq(Cards)
    BY <1>1 DEF Decision
  <2>2. names \subseteq Cards /\ Len(d.shown) \in Nat
    BY <2>1
  <2>3. ASSUME NEW S \in SUBSET (Cards \cup {NoCard})
        PROVE  from(S) \subseteq Seq(Cards \cup {NoCard})
    <3>1. ASSUME NEW s \in from(S) PROVE s \in Seq(Cards \cup {NoCard})
      <4>1. PICK n \in 0..Len(d.shown) : s \in [1..n -> S]
        OBVIOUS
      <4>2. n \in Nat /\ s \in [1..n -> Cards \cup {NoCard}]
        BY <2>2, <4>1
      <4> QED
        BY <4>2
    <3> QED
      BY <3>1
  <2>4. Orders(d) \subseteq from(names) \cup from(names \cup {NoCard})
    BY DEF Orders
  <2> HIDE DEF names, from
  <2>5. names \in SUBSET (Cards \cup {NoCard})
        /\ names \cup {NoCard} \in SUBSET (Cards \cup {NoCard})
    BY <2>2
  <2> QED
    BY <2>3, <2>4, <2>5
<1>5. ASSUME ListPrompt(d) PROVE answer.list \in Bag
  <2>1. AsksForList(d) /\ d.card # "sentry" /\ d.card \notin YesNoCards
    BY <1>2, <1>5 DEF ListPrompt, YesNoCards
  <2>2. Answers(g, d) = {[list |-> b] : b \in Lists(g, d)}
    BY <2>1 DEF Answers
  <2>3. PICK b \in Lists(g, d) : answer = [list |-> b]
    BY <2>2
  <2> QED
    BY <1>3, <2>3
<1>6. ASSUME d.card = "sentry" PROVE answer.order \in Seq(Cards \cup {NoCard})
  <2>1. ~AsksForList(d) /\ d.card \notin YesNoCards
    BY <1>6 DEF AsksForList, ListCards, YesNoCards
  <2>2. Answers(g, d) = {[order |-> s] : s \in Orders(d)}
    BY <1>6, <2>1 DEF Answers
  <2>3. PICK s \in Orders(d) : answer = [order |-> s]
    BY <2>2
  <2> QED
    BY <1>4, <2>3
<1> QED
  BY <1>5, <1>6

-----------------------------------------------------------------------------
(* The specification.                                                      *)

LEMMA InitIInv == Init => IInv
<1> SUFFICES ASSUME Init PROVE IInv
  OBVIOUS
<1>1. PICK first \in Players, h0 \in DrawCards(Undealt(0), 5), h1 \in DrawCards(Undealt(1), 5) :
        gs = NewGame(first, [p \in Players |-> IF p = 0 THEN h0 ELSE h1])
  BY DEF Init
<1> DEFINE dealt == [p \in Players |-> IF p = 0 THEN h0 ELSE h1]
<1>2. EmptyBag \in Bag /\ \A c \in Cards : EmptyBag[c] = 0
  BY BagTypes DEF EmptyBag
<1>3. ASSUME NEW p \in Players
      PROVE  /\ Undealt(p) \in PlayerState /\ CleanPlayer(Undealt(p))
             /\ \A c \in Cards : Owned(Undealt(p), c) = StartDeck[p][c]
  <2>1. StartDeck[p] \in Bag /\ <<>> \in Seq(Cards)
    BY EngineAssumption
  <2>2. Undealt(p) \in PlayerState
    BY <1>2, <2>1 DEF Undealt, PlayerState
  <2>3. ASSUME NEW c \in Cards PROVE Owned(Undealt(p), c) = StartDeck[p][c]
    <3>1. BagOfSeq(<<>>)[c] = 0 /\ StartDeck[p][c] \in Nat
      BY <1>2, <2>1, CountEmpty DEF Bag
    <3> QED
      BY <1>2, <3>1 DEF Owned, Undealt
  <2>4. CleanPlayer(Undealt(p))
    BY DEF CleanPlayer, Undealt
  <2> QED
    BY <2>2, <2>3, <2>4
<1>4. ASSUME NEW p \in Players
      PROVE  dealt[p] \in Rearranged(Undealt(p))
  <2>1. DrawCards(Undealt(p), 5) \subseteq Rearranged(Undealt(p))
    BY <1>3, DrawCardsKeeps
  <2>2. dealt[p] \in DrawCards(Undealt(p), 5)
    BY DEF Players
  <2> QED
    BY <2>1, <2>2
<1> HIDE DEF dealt
<1> DEFINE ps == [p \in Players |-> IF p = first THEN StartTurn(dealt[p]) ELSE dealt[p]]
<1>5. ASSUME NEW p \in Players
      PROVE  /\ ps[p] \in PlayerState
             /\ \A c \in Cards : Owned(ps[p], c) = StartDeck[p][c]
             /\ p # first => CleanPlayer(ps[p])
             /\ ps[p].inPlay = EmptyBag
  <2>1. /\ dealt[p] \in PlayerState /\ CleanPlayer(dealt[p])
        /\ \A c \in Cards : Owned(dealt[p], c) = StartDeck[p][c]
    BY <1>3, <1>4 DEF Rearranged, SameOwned, SameMeans, CleanPlayer
  <2>2. /\ StartTurn(dealt[p]) \in PlayerState
        /\ SameOwned(dealt[p], StartTurn(dealt[p]))
        /\ StartTurn(dealt[p]).inPlay = dealt[p].inPlay
    BY <2>1, StartTurnKeeps DEF StartTurn, PlayerState
  <2> QED
    BY <2>1, <2>2 DEF SameOwned, CleanPlayer
<1>6. /\ gs.players = ps /\ gs.current = first /\ gs.decision = NoDecision
      /\ gs.pendingPlays = <<>> /\ gs.supply = InitialPiles /\ gs.trash = EmptyBag
  BY <1>1 DEF NewGame, dealt
<1>7. gs \in GameStates
  <2>1. ps \in [Players -> PlayerState] /\ InitialPiles \in Bag
        /\ <<>> \in Seq(PendingPlay) /\ {} \in SUBSET Players
    BY <1>5, EngineAssumption
  <2>2. gs = NewGame(first, dealt)
    BY <1>1 DEF dealt
  <2> QED
    BY <1>2, <2>1, <2>2 DEF NewGame, GameStates
<1> HIDE DEF ps
<1>8. ReplaysInPlay(gs)
  <2>1. DOMAIN gs.pendingPlays = {} /\ \A x : Replays(gs, x) = {}
    BY <1>6 DEF Replays
  <2>2. \A x \in Cards : gs.players[gs.current].inPlay[x] = 0
    BY <1>2, <1>5, <1>6
  <2> QED
    BY <2>1, <2>2, FS_EmptySet DEF ReplaysInPlay
<1>9. CardsConserved
  <2>1. 0 \in Players /\ 1 \in Players
    BY DEF Players
  <2>2. ASSUME NEW c \in Cards
        PROVE  Existing(gs, c) = InitialPiles[c] + StartDeck[0][c] + StartDeck[1][c]
    <3>1. /\ InitialPiles[c] \in Nat /\ StartDeck[0][c] \in Nat /\ StartDeck[1][c] \in Nat
          /\ EmptyBag[c] = 0
      BY <1>2, <2>1, EngineAssumption DEF Bag
    <3>2. /\ Owned(gs.players[0], c) = StartDeck[0][c]
          /\ Owned(gs.players[1], c) = StartDeck[1][c]
      BY <1>5, <1>6, <2>1
    <3> QED
      BY <1>6, <3>1, <3>2 DEF Existing
  <2> QED
    BY <2>2 DEF CardsConserved
<1>10. IdlePlayerIsClean
  <2>1. Opponent(first) \in Players /\ Opponent(first) # first
    BY PlayersFact
  <2>2. CleanPlayer(gs.players[Opponent(gs.current)])
    BY <1>5, <1>6, <2>1
  <2> QED
    BY <2>2 DEF CleanPlayer, IdlePlayerIsClean
<1> QED
  BY <1>6, <1>7, <1>8, <1>9, <1>10 DEF IInv, Sound, CurrentAsks, LibraryShown

\* Only a pending decision is answered, by an answer a client may give to it.
Given(act) ==
  act.kind = "resolve" =>
    gs.decision # NoDecision /\ act.answer \in Answers(gs, gs.decision)

\* A step of the specification is a call of Apply with well-formed arguments.
LEMMA StepIsCall ==
  ASSUME IInv, Next
  PROVE  \E act : /\ WellFormed(gs, act) /\ Given(act)
                  /\ gs' \in Apply(gs, act) /\ (gs'.err => Rejections)
<1>1. gs \in GameStates
  BY DEF IInv, Sound
<1>2. SUFFICES \E act : WellFormed(gs, act) /\ Given(act) /\ Call(act)
  BY <1>2 DEF Call
<1>3. ASSUME NEW p \in Players, NEW c \in Cards, PlayCard(p, c)
      PROVE  \E act : WellFormed(gs, act) /\ Given(act) /\ Call(act)
  BY <1>3 DEF PlayCard, WellFormed, Given
<1>4. ASSUME NEW p \in Players, NEW c \in BuyChoices, BuyCard(p, c)
      PROVE  \E act : WellFormed(gs, act) /\ Given(act) /\ Call(act)
  BY <1>4, EngineAssumption DEF BuyCard, WellFormed, Given
<1>5. ASSUME NEW p \in Players, EndPhase(p)
      PROVE  \E act : WellFormed(gs, act) /\ Given(act) /\ Call(act)
  BY <1>5 DEF EndPhase, WellFormed, Given
<1>6. ASSUME NEW p \in Players, gs.decision # NoDecision, NEW id, ResolveDecision(p, id)
      PROVE  \E act : WellFormed(gs, act) /\ Given(act) /\ Call(act)
  <2>1. PICK answer \in Answers(gs, gs.decision) :
          Call([kind |-> "resolve", player |-> p, id |-> id, answer |-> answer])
    BY <1>6 DEF ResolveDecision
  <2> DEFINE act == [kind |-> "resolve", player |-> p, id |-> id, answer |-> answer]
  <2>2. /\ ListPrompt(gs.decision) => answer.list \in Bag
        /\ gs.decision.card = "sentry" => answer.order \in Seq(Cards \cup {NoCard})
    BY <1>1, <1>6, AnswerTypes
  <2>3. WellFormed(gs, act) /\ Given(act) /\ Call(act)
    BY <1>6, <2>1, <2>2 DEF WellFormed, Given
  <2> HIDE DEF act
  <2> QED
    BY <2>3
<1> QED
  BY <1>3, <1>4, <1>5, <1>6 DEF Next

LEMMA CallOfStep ==
  ASSUME IInv, Next
  PROVE  Keeps(gs, gs') /\ Visible(gs, gs')
BY StepIsCall, ApplyKeeps DEF IInv

LEMMA NextIInv == IInv /\ [Next]_gs => IInv'
<1> SUFFICES ASSUME IInv, [Next]_gs PROVE IInv'
  OBVIOUS
<1>1. CASE UNCHANGED gs
  BY <1>1 DEF IInv, CardsConserved, IdlePlayerIsClean
<1>2. CASE Next
  <2>1. Keeps(gs, gs')
    BY <1>2, CallOfStep
  <2>2. Sound(gs')
    BY <2>1 DEF Keeps
  <2>3. CardsConserved'
    BY <2>1 DEF Keeps, SameExisting, IInv, CardsConserved
  <2>4. IdlePlayerIsClean'
    BY <2>1 DEF Keeps, IInv, IdlePlayerIsClean, WaitingIsClean, CleanPlayer
  <2> QED
    BY <2>2, <2>3, <2>4 DEF IInv
<1> QED
  BY <1>1, <1>2

\* The strengthened invariant holds of every reachable state of the engine.
THEOREM Invariant == Spec => []IInv
<1> QED
  BY InitIInv, NextIInv, PTL DEF Spec

\* Every zone, counter, phase and pending decision keeps its type in every
\* state Apply can reach: no pile of the supply, no Action, no Buy and no Coin
\* ever goes below zero, whatever the answers.
THEOREM TypeCorrect == Spec => []TypeOK
<1>1. IInv => TypeOK
  BY DEF IInv, Sound, TypeOK
<1> QED
  BY <1>1, Invariant, PTL

\* No call of Apply creates or destroys a card, whatever cards are in the
\* game and whatever the clients answer: rejected calls included.
THEOREM Conservation == Spec => []CardsConserved
<1>1. IInv => CardsConserved
  BY DEF IInv
<1> QED
  BY <1>1, Invariant, PTL

\* The player who waits has no card in play or set aside, no resource and no
\* charge: cleanupAndEndTurn leaves nothing of a turn, and nothing the other
\* player does gives any.
THEOREM CleanBetweenTurns == Spec => []IdlePlayerIsClean
<1>1. IInv => IdlePlayerIsClean
  BY DEF IInv
<1> QED
  BY <1>1, Invariant, PTL

\* However Throne Rooms nest, every replay owed is the current player's and no
\* copy of a card in play is owed two.
THEOREM ReplaysAreOwedOnce == Spec => []OneReplayPerCopy
<1>1. IInv => OneReplayPerCopy
  BY DEF IInv, Sound, ReplaysInPlay, Replays, OneReplayPerCopy
<1> QED
  BY <1>1, Invariant, PTL

LEMMA InitFollows == Init => Protocol!Init
<1> SUFFICES ASSUME Init PROVE Protocol!Init
  OBVIOUS
<1>1. PICK first \in Players : \E dealt : gs = NewGame(first, dealt)
  BY DEF Init
<1> QED
  BY <1>1 DEF NewGame, Protocol!Init, Asked

LEMMA NextFollows == IInv /\ [Next]_gs => [Protocol!Next]_(Protocol!vars)
<1> SUFFICES ASSUME IInv, [Next]_gs PROVE [Protocol!Next]_(Protocol!vars)
  OBVIOUS
<1>1. CASE UNCHANGED gs
  BY <1>1 DEF Protocol!vars, Asked
<1>2. CASE Next
  <2>1. Visible(gs, gs') /\ Sound(gs')
    BY <1>2, CallOfStep DEF Keeps
  <2>2. /\ (gs.decision = NoDecision) <=> (Asked(gs) = Nobody)
        /\ (gs'.decision = NoDecision) <=> (Asked(gs)' = Nobody)
        /\ gs'.decision # NoDecision => Asked(gs)' \in Players
    BY <2>1 DEF IInv, Sound, GameStates, Decision, Asked, Nobody, Players
  <2>3. CASE SameTurn(gs, gs') /\ gs'.decision = gs.decision
             /\ gs'.decisionSeq = gs.decisionSeq
    BY <2>3 DEF SameTurn, Protocol!vars, Asked
  <2>4. CASE /\ ~gs.ended /\ gs.decision = NoDecision /\ gs.phase = "action"
             /\ SameTurn(gs, gs') /\ gs'.decision # NoDecision
             /\ gs'.decisionSeq = gs.decisionSeq + 1
    <3>1. Protocol!Ask
      BY <2>2, <2>4 DEF Protocol!Ask, Protocol!turnVars, SameTurn
    <3> QED
      BY <3>1 DEF Protocol!Next
  <2>5. CASE /\ ~gs.ended /\ gs.decision # NoDecision /\ SameTurn(gs, gs')
             /\ \/ gs'.decision = NoDecision /\ gs'.decisionSeq = gs.decisionSeq
                \/ gs'.decision # NoDecision /\ gs'.decisionSeq = gs.decisionSeq + 1
    <3>1. Protocol!Answer
      BY <2>2, <2>5 DEF Protocol!Answer, Protocol!turnVars, SameTurn
    <3> QED
      BY <3>1 DEF Protocol!Next
  <2>6. CASE /\ ~gs.ended /\ gs.decision = NoDecision /\ gs.phase = "action"
             /\ gs'.decision = NoDecision /\ gs'.decisionSeq = gs.decisionSeq
             /\ gs'.current = gs.current /\ gs'.starting = gs.starting
             /\ gs'.phase = "buy" /\ gs'.turn = gs.turn /\ gs'.ended = gs.ended
    <3>1. Protocol!EndActions
      BY <2>2, <2>6 DEF Protocol!EndActions
    <3> QED
      BY <3>1 DEF Protocol!Next
  <2>7. CASE /\ ~gs.ended /\ gs.decision = NoDecision /\ gs.phase = "buy"
             /\ gs'.decision = NoDecision /\ gs'.decisionSeq = gs.decisionSeq
             /\ gs'.current = Opponent(gs.current) /\ gs'.starting = gs.starting
             /\ gs'.phase = "action" /\ gs'.ended \in BOOLEAN
             /\ gs'.turn = IF gs'.current = gs.starting THEN gs.turn + 1 ELSE gs.turn
    <3>1. Protocol!EndTurn
      BY <2>2, <2>7 DEF Protocol!EndTurn
    <3> QED
      BY <3>1 DEF Protocol!Next
  <2> QED
    BY <2>1, <2>3, <2>4, <2>5, <2>6, <2>7 DEF Visible
<1> QED
  BY <1>1, <1>2

\* The engine implements the turn protocol its clients rely on: every call of
\* Apply is one step of it or changes nothing of it.
THEOREM Refinement == Spec => FollowsProtocol
<1>1. Init => Protocol!Init
  BY InitFollows
<1>2. IInv /\ [Next]_gs => [Protocol!Next]_(Protocol!vars)
  BY NextFollows
<1> QED
  BY <1>1, <1>2, Invariant, PTL DEF Spec, FollowsProtocol, Protocol!Spec

-----------------------------------------------------------------------------
(***************************************************************************)
(* The end of a turn and of the game: what cleanupAndEndTurn deals, when   *)
(* applyEndPhase ends the game, and who wins it.                           *)
(***************************************************************************)

(* How many cards there are.                                               *)

\* One card more makes the slice one longer.
LEMMA SizeAddOne ==
  ASSUME NEW b \in Bag, NEW c \in Cards
  PROVE  Size(AddOne(b, c)) = Size(b) + 1
<1> DEFINE last == <<c, b[c] + 1>>
<1>1. b[c] \in Nat /\ AddOne(b, c)[c] = b[c] + 1
      /\ \A d \in Cards : d # c => AddOne(b, c)[d] = b[d]
  BY DEF Bag, AddOne, BagPlus, OneOf
<1>2. last \notin Copies(b)
  BY <1>1 DEF Copies
<1>3. Copies(AddOne(b, c)) = Copies(b) \cup {last}
  <2>1. 1..AddOne(b, c)[c] = (1..b[c]) \cup {b[c] + 1}
    BY <1>1
  <2>2. ASSUME NEW d \in Cards
        PROVE  {d} \X (1..AddOne(b, c)[d])
                 = ({d} \X (1..b[d])) \cup (IF d = c THEN {last} ELSE {})
    BY <1>1, <2>1
  <2> HIDE DEF last
  <2>3. Copies(AddOne(b, c)) \subseteq Copies(b) \cup {last}
    BY <2>2 DEF Copies
  <2>4. Copies(b) \cup {last} \subseteq Copies(AddOne(b, c))
    BY <2>2 DEF Copies
  <2> QED
    BY <2>3, <2>4
<1> HIDE DEF last
<1>4. IsFiniteSet(Copies(b))
  BY SizeIsNat
<1> QED
  BY <1>2, <1>3, <1>4, FS_AddElement DEF Size

\* A bag of no more copies of any card is no longer a slice.
LEMMA SizeOfPart ==
  ASSUME NEW a \in Bag, NEW b \in Bag, \A c \in Cards : a[c] <= b[c]
  PROVE  Size(a) <= Size(b)
<1>1. \A c \in Cards : 1..a[c] \subseteq 1..b[c]
  BY DEF Bag
<1>2. Copies(a) \subseteq Copies(b)
  BY <1>1 DEF Copies
<1> QED
  BY <1>2, SizeIsNat, FS_Subset DEF Size

LEMMA SizeOfNothing == Size(EmptyBag) = 0
<1>1. Copies(EmptyBag) = {}
  BY DEF Copies, EmptyBag
<1> QED
  BY <1>1, FS_EmptySet DEF Size

LEMMA OwnedIsBag ==
  ASSUME NEW q \in PlayerState
  PROVE  /\ OwnedCards(q) \in Bag
         /\ \A c \in Cards : q.hand[c] <= OwnedCards(q)[c]
<1>1. ASSUME NEW c \in Cards
      PROVE  Owned(q, c) \in Nat /\ q.hand[c] <= Owned(q, c)
  BY CountsAreNat DEF Owned
<1> QED
  BY <1>1 DEF OwnedCards, Bag

\* What a player owns depends on nothing but the counts.
LEMMA SameOwnedCards ==
  ASSUME NEW q, NEW r, SameOwned(q, r)
  PROVE  OwnedCards(r) = OwnedCards(q)
BY DEF SameOwned, OwnedCards

-----------------------------------------------------------------------------
(* The draw of five.                                                       *)
Least(m, n) == IF m < n THEN m ELSE n

\* A player with the table cleared and k cards drawn, or all there are.
Dealt(u, k) ==
  {r \in Rearranged(u) : Size(r.hand) = Least(Size(OwnedCards(u)), k)}

\* Drawing goes on as long as there is a card outside the hand: the discard
\* pile is shuffled in time, and nothing is drawn twice.
LEMMA DrawOneDeals ==
  ASSUME NEW u \in PlayerState, u.inPlay = EmptyBag, u.setAside = <<>>,
         NEW k \in Nat, NEW r \in Dealt(u, k)
  PROVE  DrawOne(r) \subseteq Dealt(u, k + 1)
<1> DEFINE all == Size(OwnedCards(u))
           v == Reshuffled(r)
<1>1. r \in PlayerState /\ r \in Rearranged(u) /\ Size(r.hand) = Least(all, k)
  BY DEF Dealt, Rearranged
<1>2. /\ v \in Rearranged(u) /\ v \in PlayerState /\ v.hand = r.hand
      /\ DeckEmpty(v) => v.discard = EmptyBag
  <2>1. v \in Rearranged(r)
    BY <1>1, ReshuffledKeeps
  <2>2. v.hand = r.hand /\ (DeckEmpty(v) => v.discard = EmptyBag)
    BY <1>1 DEF Reshuffled, PlayerState, DeckEmpty
  <2> QED
    BY <1>1, <2>1, <2>2, RearrangedTwice DEF Rearranged
<1>3. /\ all \in Nat /\ Size(v.hand) \in Nat /\ v.hand \in Bag
  <2>1. v.hand \in Bag
    BY <1>2 DEF PlayerState
  <2> QED
    BY <2>1, SizeIsNat, OwnedIsBag
<1> HIDE DEF v, all
<1>4. DrawOne(r) = IF DeckEmpty(v) THEN {v}
                   ELSE {[t.rest EXCEPT !.hand = AddOne(@, t.card)] : t \in Pop(v)}
  BY DEF DrawOne, v
<1>5. CASE DeckEmpty(v)
  <2>1. ASSUME NEW c \in Cards PROVE Owned(v, c) = v.hand[c]
    <3>1. v.inPlay = EmptyBag /\ v.setAside = <<>> /\ v.discard = EmptyBag
          /\ v.deck = EmptyBag /\ v.top = <<>>
      BY <1>2, <1>5 DEF Rearranged, SameMeans, DeckEmpty
    <3>2. EmptyBag[c] = 0 /\ BagOfSeq(<<>>)[c] = 0 /\ v.hand[c] \in Nat
      BY <1>2, CountEmpty, CountsAreNat DEF EmptyBag
    <3> QED
      BY <3>1, <3>2 DEF Owned
  <2>2. v.hand = [c \in Cards |-> v.hand[c]]
    BY <1>3 DEF Bag
  <2>3. OwnedCards(v) = v.hand
    BY <2>1, <2>2 DEF OwnedCards
  <2>4. Size(v.hand) = all
    BY <1>2, <2>3, SameOwnedCards DEF Rearranged, all
  <2>5. all = Least(all, k + 1)
    BY <1>1, <1>2, <1>3, <2>4 DEF Least
  <2> QED
    BY <1>2, <1>4, <1>5, <2>4, <2>5 DEF Dealt, all
<1>6. CASE ~DeckEmpty(v)
  <2>1. ASSUME NEW t \in Pop(v)
        PROVE  [t.rest EXCEPT !.hand = AddOne(@, t.card)] \in Dealt(u, k + 1)
    <3> DEFINE w == [t.rest EXCEPT !.hand = AddOne(@, t.card)]
    <3>1. w \in Rearranged(u) /\ w \in PlayerState
      <4>1. w \in Rearranged(v)
        BY <1>2, PopAndKeep
      <4> HIDE DEF w
      <4>2. w \in Rearranged(u)
        BY <1>2, <4>1, RearrangedTwice
      <4> QED
        BY <4>2 DEF Rearranged
    <3>2. w.hand = AddOne(v.hand, t.card) /\ t.card \in Cards
      <4>1. t.rest \in PlayerState /\ t.rest.hand = v.hand /\ t.card \in Cards
        BY <1>2, PopKeeps
      <4> QED
        BY <4>1 DEF PlayerState
    <3> HIDE DEF w
    <3>3. Size(w.hand) = Size(v.hand) + 1
      BY <1>3, <3>2, SizeAddOne
    <3>4. Size(w.hand) <= all
      <4>1. w.hand \in Bag /\ OwnedCards(w) = OwnedCards(u)
        BY <3>1, SameOwnedCards DEF Rearranged, PlayerState
      <4> QED
        BY <3>1, <4>1, OwnedIsBag, SizeOfPart DEF all
    <3>5. Size(w.hand) = Least(all, k + 1)
      BY <1>1, <1>2, <1>3, <3>3, <3>4 DEF Least
    <3> QED
      BY <3>1, <3>5 DEF Dealt, w, all
  <2> QED
    BY <1>4, <1>6, <2>1
<1> QED
  BY <1>5, <1>6

\* The cleanup leaves five cards in hand, or all there are.
LEMMA CleanedUpDeals ==
  ASSUME NEW q \in PlayerState, NEW r \in CleanedUp(q)
  PROVE  Size(r.hand) = Least(Size(OwnedCards(q)), 5)
<1> DEFINE gone == BagPlus(BagPlus(q.discard, BagOfSeq(q.setAside)), BagPlus(q.inPlay, q.hand))
           u == [q EXCEPT !.discard = gone, !.setAside = <<>>, !.inPlay = EmptyBag,
                          !.hand = EmptyBag]
<1>1. PICK v \in DrawCards(u, 5) :
        r = [v EXCEPT !.actions = 0, !.buys = 0, !.coins = 0, !.charges = 0,
                      !.silver = FALSE]
  BY DEF CleanedUp
<1>2. gone \in Bag /\ EmptyBag \in Bag /\ <<>> \in Seq(Cards)
  BY SeqIsBag, BagTypes DEF PlayerState
<1> HIDE DEF gone
<1>3. /\ u \in PlayerState /\ u.setAside = <<>> /\ u.inPlay = EmptyBag
      /\ u.hand = EmptyBag
  BY <1>2 DEF PlayerState
<1>4. SameOwned(u, v)
  <2> HIDE DEF u
  <2>1. DrawCards(u, 5) \subseteq Rearranged(u)
    BY <1>3, DrawCardsKeeps
  <2> QED
    BY <1>1, <2>1 DEF Rearranged
<1> HIDE DEF u
<1> DEFINE S == [k \in 0..5 |-> Dealt(u, k)]
<1>5. S \in [0..5 -> SUBSET Rearranged(u)] /\ S[5] = Dealt(u, 5) /\ S[0] = Dealt(u, 0)
  BY DEF Dealt
<1>6. u \in S[0]
  <2>1. Size(OwnedCards(u)) \in Nat
    BY <1>3, OwnedIsBag, SizeIsNat
  <2> QED
    BY <1>3, <1>5, <2>1, SizeOfNothing, RearrangedSelf DEF Dealt, Least
<1>7. \A w \in Rearranged(u) : DrawOne(w) \subseteq Rearranged(u)
  BY DrawOneKeeps, RearrangedTwice DEF Rearranged
<1>8. \A k \in 0..4 : \A w \in S[k] : DrawOne(w) \subseteq S[k + 1]
  <2>1. ASSUME NEW k \in 0..4, NEW w \in Dealt(u, k)
        PROVE  DrawOne(w) \subseteq Dealt(u, k + 1)
    BY <1>3, DrawOneDeals
  <2>2. \A k \in 0..4 : S[k] = Dealt(u, k) /\ S[k + 1] = Dealt(u, k + 1)
    OBVIOUS
  <2> HIDE DEF S
  <2> QED
    BY <2>1, <2>2
<1> HIDE DEF S
<1>9. v \in Dealt(u, 5)
  <2>1. DrawCards(u, 5) \subseteq S[5]
    <3>1. 5 - 1 = 4 /\ 5 \in Nat
      OBVIOUS
    <3> QED
      BY <1>5, <1>6, <1>7, <1>8, <3>1, DrawCardsRounds
  <2> QED
    BY <1>1, <1>5, <2>1
<1>10. r.hand = v.hand /\ OwnedCards(u) = OwnedCards(q)
  <2>1. v \in PlayerState
    BY <1>9 DEF Dealt, Rearranged
  <2>2. SameOwned(q, r)
    BY CleanedUpKeeps
  <2>3. SameOwned(v, r) /\ r.hand = v.hand
    BY <1>1, <2>1 DEF PlayerState, SameOwned, Owned
  <2>4. \A c \in Cards : Owned(u, c) = Owned(q, c)
    BY <1>4, <2>2, <2>3 DEF SameOwned
  <2> QED
    BY <2>3, <2>4 DEF OwnedCards
<1> QED
  BY <1>9, <1>10 DEF Dealt

-----------------------------------------------------------------------------
(* Passing the turn.                                                       *)

\* Only the end of a Buy phase passes the turn.
LEMMA TurnPasses ==
  ASSUME NEW g0, Sound(g0), NEW act, WellFormed(g0, act), NEW h \in Apply(g0, act),
         h.current # g0.current, NEW g, g = [g0 EXCEPT !.err = FALSE]
  PROVE  Ready(g) /\ ~g.ended /\ g.phase # "action" /\ h \in ApplyEndPhase(g)
<1>1. /\ Sound(g) /\ g.current = g0.current /\ g.ended = g0.ended
      /\ g.phase = g0.phase /\ g.decision = g0.decision
  BY ErrKeeps DEF Keeps, SameTurn
<1>2. ~g.ended /\ g.decision = NoDecision /\ g.phase = "buy"
  BY <1>1, ApplyKeeps DEF Visible, SameTurn
<1>3. Ready(g)
  BY <1>1, <1>2, SoundReady
<1>4. h \in IF act.player # g.current \/ act.kind = "resolve" THEN {Fail(g)}
            ELSE CASE act.kind = "play" -> ApplyPlayCard(g, act.player, act.card)
                   [] act.kind = "buy" -> ApplyBuyCard(g, act.player, act.card)
                   [] act.kind = "end" -> ApplyEndPhase(g)
  BY <1>2 DEF Apply
<1>5. h # Fail(g)
  BY <1>1, FailKeeps DEF SameTurn
<1>6. act.kind # "play"
  <2>1. ASSUME act.kind = "play" PROVE FALSE
    <3>1. h \in ApplyPlayCard(g, g.current, act.card) /\ act.card \in Cards
      BY <1>4, <1>5, <2>1 DEF WellFormed
    <3>2. h \in Outcome(g)
      BY <1>3, <3>1, PlayOutcome
    <3> QED
      BY <1>1, <3>2 DEF Outcome, SameTurn
  <2> QED
    BY <2>1
<1>7. act.kind # "buy"
  <2>1. ASSUME act.kind = "buy" PROVE FALSE
    <3>1. h \in ApplyBuyCard(g, g.current, act.card) /\ act.card \in Cards
      BY <1>4, <1>5, <2>1 DEF WellFormed
    <3>2. h \in Moved(g)
      BY <1>3, <3>1, BuyMoves
    <3> QED
      BY <1>1, <3>2 DEF Moved, SameTurn
  <2> QED
    BY <2>1
<1>8. act.kind = "end"
  BY <1>4, <1>5, <1>6, <1>7 DEF WellFormed
<1>9. h \in ApplyEndPhase(g)
  BY <1>4, <1>5, <1>8
<1> QED
  BY <1>2, <1>3, <1>9

\* What the end of a Buy phase makes of the players, the piles and the game.
LEMMA EndOfTurn ==
  ASSUME NEW g, Ready(g), ~g.ended, g.phase # "action", NEW h \in ApplyEndPhase(g)
  PROVE  /\ Passed(g, h) /\ h.supply = g.supply
         /\ h.players[g.current] \in CleanedUp(g.players[g.current])
         /\ h.players[h.current] = StartTurn(g.players[h.current])
         /\ h.ended <=> IsGameOver(h)
         /\ h.ended => h.winners = DetermineWinners(h)
<1>1. PICK k \in CleanupAndEndTurn(g) : h = (IF IsGameOver(k) THEN EndGame(k) ELSE k)
  BY DEF ApplyEndPhase
<1>2. /\ Passed(g, k) /\ k.ended = FALSE /\ k.supply = g.supply
      /\ k.players[g.current] \in CleanedUp(g.players[g.current])
      /\ k.players[k.current] = StartTurn(g.players[k.current])
  BY CleanupPasses DEF Ready, GameStates
<1>3. Passed(g, h)
  BY EndTurnPasses
<1>4. CASE IsGameOver(k)
  <2> DEFINE w == DetermineWinners(k)
  <2> HIDE DEF w
  <2>1. /\ h.ended = TRUE /\ h.winners = w /\ h.players = k.players
        /\ h.supply = k.supply /\ h.current = k.current
    BY <1>1, <1>2, <1>4 DEF EndGame, Passed, GameStates, w
  <2>2. DetermineWinners(h) = w
    BY <2>1 DEF DetermineWinners, w
  <2>3. IsGameOver(h)
    BY <1>4, <2>1 DEF IsGameOver, EmptyPiles
  <2> QED
    BY <1>2, <1>3, <2>1, <2>2, <2>3
<1>5. CASE ~IsGameOver(k)
  BY <1>1, <1>2, <1>3, <1>5
<1> QED
  BY <1>4, <1>5

LEMMA AfterTheEnd ==
  ASSUME NEW g0 \in GameStates, g0.ended, NEW act, NEW h \in Apply(g0, act)
  PROVE  h = [g0 EXCEPT !.err = TRUE]
<1> DEFINE g == [g0 EXCEPT !.err = FALSE]
<1>1. g.ended
  BY DEF GameStates
<1>2. h = Fail(g)
  BY <1>1 DEF Apply
<1> QED
  BY <1>2 DEF Fail, GameStates

LEMMA ThreeOrMore ==
  ASSUME NEW S, IsFiniteSet(S)
  PROVE  Cardinality(S) >= 3 <=> \E a, b, c \in S : a # b /\ b # c /\ a # c
<1>1. ASSUME NEW T, IsFiniteSet(T), NEW n \in Nat, Cardinality(T) >= n + 1
      PROVE  \E x \in T : IsFiniteSet(T \ {x}) /\ Cardinality(T \ {x}) >= n
  <2>1. Cardinality(T) \in Nat /\ T # {}
    BY <1>1, FS_CardinalityType, FS_EmptySet
  <2>2. PICK x \in T : TRUE
    BY <2>1
  <2>3. IsFiniteSet(T \ {x}) /\ Cardinality(T \ {x}) = Cardinality(T) - 1
    BY <1>1, FS_RemoveElement
  <2>4. Cardinality(T \ {x}) >= n
    BY <1>1, <2>1, <2>3
  <2> QED
    BY <2>3, <2>4
<1>2. ASSUME Cardinality(S) >= 3
      PROVE  \E a, b, c \in S : a # b /\ b # c /\ a # c
  <2>1. PICK a \in S : IsFiniteSet(S \ {a}) /\ Cardinality(S \ {a}) >= 2
    <3>1. 2 \in Nat /\ 2 + 1 = 3
      OBVIOUS
    <3> QED
      BY <1>1, <1>2, <3>1
  <2>2. PICK b \in S \ {a} : IsFiniteSet((S \ {a}) \ {b})
                              /\ Cardinality((S \ {a}) \ {b}) >= 1
    <3>1. 1 \in Nat /\ 1 + 1 = 2
      OBVIOUS
    <3> QED
      BY <1>1, <2>1, <3>1
  <2>3. PICK c \in (S \ {a}) \ {b} : TRUE
    <3>1. 0 \in Nat /\ 0 + 1 = 1
      OBVIOUS
    <3> QED
      BY <1>1, <2>2, <3>1
  <2> QED
    BY <2>3
<1>3. ASSUME NEW a \in S, NEW b \in S, NEW c \in S, a # b, b # c, a # c
      PROVE  Cardinality(S) >= 3
  <2>1. IsFiniteSet({a}) /\ Cardinality({a}) = 1
    BY FS_Singleton
  <2>2. IsFiniteSet({a} \cup {b}) /\ Cardinality({a} \cup {b}) = 2
    <3>1. b \notin {a}
      BY <1>3
    <3>2. /\ IsFiniteSet({a} \cup {b})
          /\ Cardinality({a} \cup {b}) = Cardinality({a}) + 1
      BY <2>1, <3>1, FS_AddElement, Zenon
    <3> QED
      BY <2>1, <3>2
  <2>3. Cardinality(({a} \cup {b}) \cup {c}) = 3
    <3>1. c \notin {a} \cup {b}
      BY <1>3
    <3>2. Cardinality(({a} \cup {b}) \cup {c}) = Cardinality({a} \cup {b}) + 1
      BY <2>2, <3>1, FS_AddElement, Zenon
    <3> QED
      BY <2>2, <3>2
  <2>4. Cardinality(({a} \cup {b}) \cup {c}) <= Cardinality(S)
    <3>1. ({a} \cup {b}) \cup {c} \in SUBSET S
      OBVIOUS
    <3> QED
      BY <3>1, FS_Subset
  <2>5. Cardinality(S) \in Nat
    BY FS_CardinalityType
  <2> QED
    BY <2>3, <2>4, <2>5
<1> QED
  BY <1>2, <1>3

-----------------------------------------------------------------------------
(* The score.                                                              *)

\* With nothing set aside ComputeScore counts everything a player owns.
LEMMA ScoreIsPoints ==
  ASSUME NEW q \in PlayerState, q.setAside = <<>>
  PROVE  ComputeScore(q) = Points(q)
<1>1. ASSUME NEW c \in Cards PROVE ScoredCards(q)[c] = Owned(q, c)
  <2>1. BagOfSeq(q.setAside)[c] = 0
    BY CountEmpty DEF EmptyBag
  <2>2. ScoredCards(q)[c] = (q.hand[c] + q.discard[c])
                              + (q.inPlay[c] + (q.deck[c] + BagOfSeq(q.top)[c]))
    BY DEF ScoredCards, BagPlus
  <2> QED
    BY <2>1, <2>2, CountsAreNat DEF Owned
<1>2. ScoredCards(q) = [c \in Cards |-> ScoredCards(q)[c]]
  BY DEF ScoredCards, BagPlus
<1>3. ScoredCards(q) = OwnedCards(q)
  BY <1>1, <1>2 DEF OwnedCards
<1>4. Size(OwnedCards(q)) + Len(q.setAside) = Size(OwnedCards(q))
  <2>1. Size(OwnedCards(q)) \in Nat /\ Len(<<>>) = 0
    BY OwnedIsBag, SizeIsNat
  <2> QED
    BY <2>1
<1> QED
  BY <1>3, <1>4 DEF ComputeScore, Points

\* At the end of a turn neither player has anything set aside.
LEMMA WinnersAreRight ==
  ASSUME NEW h \in GameStates, \A p \in Players : h.players[p].setAside = <<>>
  PROVE  DetermineWinners(h) = {p \in Players : \A o \in Players :
                                  Points(h.players[o]) <= Points(h.players[p])}
<1>1. \A p \in Players : ComputeScore(h.players[p]) = Points(h.players[p])
  BY PlayersFact, ScoreIsPoints
<1> QED
  BY <1>1 DEF DetermineWinners

-----------------------------------------------------------------------------
(* The theorems.                                                           *)

\* One call, as far as the end of a turn goes.
LEMMA StepEndsTurn ==
  ASSUME IInv, Next
  PROVE  /\ gs.ended => gs' = [gs EXCEPT !.err = TRUE]
         /\ gs'.ended # gs.ended => gs'.current # gs.current
         /\ gs'.current # gs.current =>
              /\ gs'.players[gs.current] \in CleanedUp(gs.players[gs.current])
              /\ \A p \in Players : gs'.players[p].setAside = <<>>
              /\ gs'.ended <=> IsGameOver(gs')
              /\ gs'.ended => gs'.winners = DetermineWinners(gs')
<1>1. PICK act : WellFormed(gs, act) /\ gs' \in Apply(gs, act)
  BY StepIsCall
<1>2. Sound(gs) /\ gs \in GameStates /\ Sound(gs') /\ gs' \in GameStates
  BY CallOfStep DEF IInv, Sound, Keeps
<1>3. gs'.ended # gs.ended => gs'.current # gs.current
  BY <1>2, CallOfStep, PlayersFact DEF Visible, SameTurn
<1>4. ASSUME gs'.current # gs.current
      PROVE  /\ gs'.players[gs.current] \in CleanedUp(gs.players[gs.current])
             /\ \A p \in Players : gs'.players[p].setAside = <<>>
             /\ gs'.ended <=> IsGameOver(gs')
             /\ gs'.ended => gs'.winners = DetermineWinners(gs')
  <2> DEFINE g == [gs EXCEPT !.err = FALSE]
  <2>1. Ready(g) /\ ~g.ended /\ g.phase # "action" /\ gs' \in ApplyEndPhase(g)
    BY <1>1, <1>2, <1>4, TurnPasses
  <2>2. g.players = gs.players /\ g.current = gs.current
    BY <1>2 DEF GameStates
  <2> HIDE DEF g
  <2>3. /\ Passed(g, gs')
        /\ gs'.players[g.current] \in CleanedUp(g.players[g.current])
        /\ gs'.players[gs'.current] = StartTurn(g.players[gs'.current])
        /\ gs'.ended <=> IsGameOver(gs')
        /\ gs'.ended => gs'.winners = DetermineWinners(gs')
    BY <2>1, EndOfTurn
  <2>4. gs'.current = Opponent(gs.current) /\ gs.current = Opponent(gs'.current)
    BY <1>2, <2>2, <2>3, PlayersFact DEF Passed
  <2>5. gs'.players[gs.current].setAside = <<>>
    BY <2>3, <2>4 DEF Passed, WaitingIsClean, CleanPlayer
  <2>6. gs'.players[gs'.current].setAside = <<>>
    <3>1. gs.players[gs'.current].setAside = <<>>
      BY <2>4 DEF IInv, IdlePlayerIsClean
    <3>2. gs.players[gs'.current] \in PlayerState
      BY <1>2, PlayersFact
    <3> QED
      BY <2>2, <2>3, <3>1, <3>2 DEF StartTurn, PlayerState
  <2>7. \A p \in Players : p = gs.current \/ p = gs'.current
    BY <1>2, <2>4, PlayersFact
  <2> QED
    BY <2>2, <2>3, <2>5, <2>6, <2>7
<1>5. gs.ended => gs' = [gs EXCEPT !.err = TRUE]
  BY <1>1, <1>2, AfterTheEnd
<1> QED
  BY <1>3, <1>4, <1>5

\* The game is over exactly when the design says it is.
LEMMA GameOverMeans ==
  ASSUME NEW h \in GameStates
  PROVE  IsGameOver(h) <=>
           \/ h.supply["province"] = 0
           \/ \E a, b, c \in Cards :
                /\ a # b /\ b # c /\ a # c
                /\ \A d \in {a, b, c} : h.supply[d] = 0
<1>1. IsFiniteSet(EmptyPiles(h))
  BY CardsAssumption, FS_Subset DEF EmptyPiles
<1>2. Cardinality(EmptyPiles(h)) >= 3
        <=> \E a, b, c \in EmptyPiles(h) : a # b /\ b # c /\ a # c
  BY <1>1, ThreeOrMore
<1>3. (\E a, b, c \in EmptyPiles(h) : a # b /\ b # c /\ a # c)
        <=> \E a, b, c \in Cards :
              /\ a # b /\ b # c /\ a # c
              /\ \A d \in {a, b, c} : h.supply[d] = 0
  BY DEF EmptyPiles
<1> QED
  BY <1>2, <1>3 DEF IsGameOver

\* The game ends only as the turn passes, if and only if no Province or three
\* empty piles are left, and no call changes an ended game.
THEOREM EndsOnlyBetweenTurns == Spec => EndsBetweenTurns
<1> DEFINE Piles(h) == \/ h.supply["province"] = 0
                       \/ \E a, b, c \in Cards :
                            /\ a # b /\ b # c /\ a # c
                            /\ \A d \in {a, b, c} : h.supply[d] = 0
           A == /\ gs.ended => gs' = [gs EXCEPT !.err = TRUE]
                /\ gs'.ended # gs.ended => gs'.current # gs.current
                /\ gs'.current # gs.current => (gs'.ended <=> Piles(gs'))
<1>1. IInv /\ [Next]_gs => [A]_gs
  <2> SUFFICES ASSUME IInv, Next PROVE A
    OBVIOUS
  <2>1. gs' \in GameStates
    BY CallOfStep DEF Keeps, Sound
  <2>2. IsGameOver(gs') <=> Piles(gs')
    BY <2>1, GameOverMeans
  <2> QED
    BY <2>2, StepEndsTurn
<1> QED
  BY <1>1, Invariant, PTL DEF Spec, EndsBetweenTurns

\* Whoever ends a turn keeps every card owned and is dealt five of them, or
\* all when there are fewer: the discard pile is shuffled into the deck in the
\* middle of the draw when the deck runs out, and only then.
THEOREM DealsFiveCards == Spec => DealsFive
<1> DEFINE before == gs.players[gs.current]
           after == gs'.players[gs.current]
           all == Size(OwnedCards(before))
           A == gs'.current # gs.current =>
                  /\ \A c \in Cards : Owned(after, c) = Owned(before, c)
                  /\ Size(after.hand) = IF all < 5 THEN all ELSE 5
<1>1. IInv /\ [Next]_gs => [A]_gs
  <2> SUFFICES ASSUME IInv, Next, gs'.current # gs.current
               PROVE  /\ \A c \in Cards : Owned(after, c) = Owned(before, c)
                      /\ Size(after.hand) = IF all < 5 THEN all ELSE 5
    OBVIOUS
  <2>1. before \in PlayerState
    BY PlayersFact DEF IInv, Sound
  <2>2. after \in CleanedUp(before)
    BY StepEndsTurn
  <2> QED
    BY <2>1, <2>2, CleanedUpKeeps, CleanedUpDeals DEF SameOwned, Least
<1> QED
  BY <1>1, Invariant, PTL DEF Spec, DealsFive

\* The winners are exactly the players nobody beats on all they own, though
\* ComputeScore skips the cards set aside: the game ends behind the cleanup of
\* one player, while the other has nothing set aside either.
THEOREM WinnersAreThoseWhoOwnMost == Spec => []WinnersOwnMost
<1>1. Init => WinnersOwnMost
  BY DEF Init, NewGame, WinnersOwnMost
<1>2. IInv /\ WinnersOwnMost /\ [Next]_gs => WinnersOwnMost'
  <2> SUFFICES ASSUME IInv, WinnersOwnMost, Next, gs'.ended
               PROVE  gs'.winners = {p \in Players : \A o \in Players :
                        Points(gs'.players[o]) <= Points(gs'.players[p])}
    BY DEF WinnersOwnMost
  <2>1. CASE gs.ended
    <3>1. gs' = [gs EXCEPT !.err = TRUE]
      BY <2>1, StepEndsTurn
    <3>2. gs'.winners = gs.winners /\ gs'.players = gs.players
      BY <3>1 DEF IInv, Sound, GameStates
    <3> QED
      BY <2>1, <3>2 DEF WinnersOwnMost
  <2>2. CASE ~gs.ended
    <3>1. gs \in GameStates /\ gs' \in GameStates
      BY CallOfStep DEF Keeps, Sound, IInv
    <3>2. gs'.current # gs.current
      BY <2>2, <3>1, StepEndsTurn DEF GameStates
    <3> QED
      BY <3>1, <3>2, StepEndsTurn, WinnersAreRight
  <2> QED
    BY <2>1, <2>2
<1> QED
  BY <1>1, <1>2, Invariant, PTL DEF Spec
=============================================================================
