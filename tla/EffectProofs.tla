---------------------------- MODULE EffectProofs ----------------------------
(***************************************************************************)
(* What the effects of cards leave alone: whom they touch, whom they ask,  *)
(* and which cards they leave set aside.  From it: every replay a Throne   *)
(* Room owes and every card set aside waits behind a decision that is      *)
(* pending, and a Moat in hand keeps the player who waits from harm.       *)
(***************************************************************************)
EXTENDS EngineProofs

(***************************************************************************)
(* Beside(g, p): cards have moved and the other player has what he had.    *)
(* LocalTo(g, p): and p has set no card aside nor taken one back.          *)
(***************************************************************************)
Beside(g, p) ==
  {h \in Moved(g) :
     h.err = g.err /\ h.players[Opponent(p)] = g.players[Opponent(p)]}

LocalTo(g, p) ==
  {h \in Beside(g, p) : h.players[p].setAside = g.players[p].setAside}

LEMMA LocalSelf ==
  ASSUME NEW g \in GameStates, NEW p
  PROVE  g \in LocalTo(g, p)
BY MovedSelf DEF LocalTo, Beside

LEMMA LocalTwice ==
  ASSUME NEW g, NEW p, NEW h \in LocalTo(g, p), NEW k \in LocalTo(h, p)
  PROVE  k \in LocalTo(g, p)
BY MovedTwice DEF LocalTo, Beside

LEMMA BesideTwice ==
  ASSUME NEW g, NEW p, NEW h \in Beside(g, p), NEW k \in Beside(h, p)
  PROVE  k \in Beside(g, p)
BY MovedTwice DEF Beside

LEMMA LocalTypes ==
  ASSUME NEW g \in GameStates, NEW p, NEW h \in LocalTo(g, p)
  PROVE  /\ h \in Beside(g, p) /\ h \in Moved(g) /\ h \in GameStates
         /\ h.current = g.current /\ h.err = g.err
BY DEF LocalTo, Beside, Moved, SameTurn

LEMMA BesidePlayer ==
  ASSUME NEW g \in GameStates, NEW p \in Players, NEW r \in PlayerState,
         SameOwned(g.players[p], r), r.inPlay = g.players[p].inPlay,
         p = g.current \/ SameMeans(g.players[p], r)
  PROVE  LET h == [g EXCEPT !.players[p] = r]
         IN  h \in Beside(g, p) /\ h.players[p] = r
<1>1. [g EXCEPT !.players[p] = r] \in Moved(g)
  BY MovePlayer
<1> QED
  BY <1>1, PlayersFact DEF Beside, GameStates

LEMMA LocalPlayer ==
  ASSUME NEW g \in GameStates, NEW p \in Players, NEW r \in Rearranged(g.players[p])
  PROVE  [g EXCEPT !.players[p] = r] \in LocalTo(g, p)
<1>1. r \in PlayerState /\ SameOwned(g.players[p], r) /\ SameMeans(g.players[p], r)
  BY DEF Rearranged
<1> QED
  BY <1>1, BesidePlayer DEF LocalTo, SameMeans

-----------------------------------------------------------------------------
(* The primitives.                                                         *)

LEMMA DrawLocal ==
  ASSUME NEW g \in GameStates, NEW p \in Players, NEW n \in Nat
  PROVE  WithPlayer(g, p, DrawCards(g.players[p], n)) \subseteq LocalTo(g, p)
<1>1. g.players[p] \in PlayerState
  BY PlayersFact
<1>2. DrawCards(g.players[p], n) \subseteq Rearranged(g.players[p])
  BY <1>1, DrawCardsKeeps
<1> QED
  BY <1>2, LocalPlayer DEF WithPlayer

LEMMA DiscardFromHandLocal ==
  ASSUME NEW g \in GameStates, NEW p \in Players, NEW list \in Bag
  PROVE  DiscardFromHand(g, p, list) \in LocalTo(g, p)
<1>1. DiscardFromHand(g, p, list) \in Moved(g)
  BY DiscardFromHandMoves
<1>2. /\ DiscardFromHand(g, p, list).err = g.err
      /\ DiscardFromHand(g, p, list).players[Opponent(p)] = g.players[Opponent(p)]
      /\ DiscardFromHand(g, p, list).players[p].setAside = g.players[p].setAside
  BY PlayersFact DEF DiscardFromHand, GameStates, PlayerState
<1> QED
  BY <1>1, <1>2 DEF LocalTo, Beside

LEMMA TrashFromHandLocal ==
  ASSUME NEW g \in GameStates, NEW p \in Players, NEW list \in Bag
  PROVE  TrashFromHand(g, p, list) \in LocalTo(g, p)
<1>1. TrashFromHand(g, p, list) \in Moved(g)
  BY TrashFromHandMoves
<1>2. /\ TrashFromHand(g, p, list).err = g.err
      /\ TrashFromHand(g, p, list).players[Opponent(p)] = g.players[Opponent(p)]
      /\ TrashFromHand(g, p, list).players[p].setAside = g.players[p].setAside
  BY PlayersFact DEF TrashFromHand, GameStates, PlayerState
<1> QED
  BY <1>1, <1>2 DEF LocalTo, Beside

LEMMA PutOnDeckLocal ==
  ASSUME NEW g \in GameStates, NEW p \in Players, NEW c
  PROVE  PutOnDeck(g, p, c) \in LocalTo(g, p)
<1>1. PutOnDeck(g, p, c) \in Moved(g)
  BY PutOnDeckMoves
<1>2. /\ PutOnDeck(g, p, c).err = g.err
      /\ PutOnDeck(g, p, c).players[Opponent(p)] = g.players[Opponent(p)]
      /\ PutOnDeck(g, p, c).players[p].setAside = g.players[p].setAside
  BY SMTT(30), PlayersFact DEF PutOnDeck, GameStates, PlayerState
<1> QED
  BY <1>1, <1>2 DEF LocalTo, Beside

LEMMA TrashFromDeckLocal ==
  ASSUME NEW g \in GameStates, NEW p \in Players, NEW c \in Cards
  PROVE  TrashFromDeck(g, p, c) \in LocalTo(g, p)
<1>1. TrashFromDeck(g, p, c) \in Moved(g)
  BY TrashFromDeckMoves
<1>2. /\ TrashFromDeck(g, p, c).err = g.err
      /\ TrashFromDeck(g, p, c).players[Opponent(p)] = g.players[Opponent(p)]
      /\ TrashFromDeck(g, p, c).players[p].setAside = g.players[p].setAside
  BY PlayersFact DEF TrashFromDeck, RemoveFromDeck, GameStates, PlayerState
<1> QED
  BY <1>1, <1>2 DEF LocalTo, Beside

LEMMA DiscardFromDeckLocal ==
  ASSUME NEW g \in GameStates, NEW p \in Players, NEW c \in Cards
  PROVE  DiscardFromDeck(g, p, c) \in LocalTo(g, p)
<1>1. DiscardFromDeck(g, p, c) \in Moved(g)
  BY DiscardFromDeckMoves
<1>2. /\ DiscardFromDeck(g, p, c).err = g.err
      /\ DiscardFromDeck(g, p, c).players[Opponent(p)] = g.players[Opponent(p)]
      /\ DiscardFromDeck(g, p, c).players[p].setAside = g.players[p].setAside
  BY PlayersFact DEF DiscardFromDeck, RemoveFromDeck, GameStates, PlayerState
<1> QED
  BY <1>1, <1>2 DEF LocalTo, Beside

LEMMA GainCardLocal ==
  ASSUME NEW g \in GameStates, NEW p \in Players, NEW c,
         NEW dest \in {"hand", "deck", "discard"}
  PROVE  GainCard(g, p, c, dest) \in LocalTo(g, p)
<1>1. GainCard(g, p, c, dest) \in Moved(g)
  BY GainCardMoves
<1>2. /\ GainCard(g, p, c, dest).err = g.err
      /\ GainCard(g, p, c, dest).players[Opponent(p)] = g.players[Opponent(p)]
      /\ GainCard(g, p, c, dest).players[p].setAside = g.players[p].setAside
  <2> DEFINE q == g.players[p]
             gained == CASE dest = "hand" -> [q EXCEPT !.hand = AddOne(@, c)]
                         [] dest = "deck" -> [q EXCEPT !.top = Append(@, c)]
                         [] dest = "discard" -> [q EXCEPT !.discard = AddOne(@, c)]
  <2>1. GainCard(g, p, c, dest) =
          IF c \in Cards /\ g.supply[c] > 0
          THEN [g EXCEPT !.supply = DropOne(@, c), !.players[p] = gained]
          ELSE g
    BY DEF GainCard
  <2>2. gained.setAside = q.setAside
    <3>1. q \in PlayerState
      BY DEF GameStates
    <3> QED
      BY <3>1 DEF PlayerState
  <2> HIDE DEF gained
  <2> QED
    BY <2>1, <2>2, PlayersFact DEF GameStates
<1> QED
  BY <1>1, <1>2 DEF LocalTo, Beside

LEMMA AddResourcesLocal ==
  ASSUME NEW g \in GameStates, NEW a \in Nat, NEW b \in Nat, NEW m \in Nat
  PROVE  AddResources(g, g.current, a, b, m) \in LocalTo(g, g.current)
<1> DEFINE p == g.current
<1>1. AddResources(g, p, a, b, m) \in Moved(g)
  BY AddResourcesMoves
<1>2. /\ AddResources(g, p, a, b, m).err = g.err
      /\ AddResources(g, p, a, b, m).players[Opponent(p)] = g.players[Opponent(p)]
      /\ AddResources(g, p, a, b, m).players[p].setAside = g.players[p].setAside
  <2> DEFINE q == g.players[p]
             r == [q EXCEPT !.actions = @ + a, !.buys = @ + b, !.coins = @ + m]
  <2>1. p \in Players /\ Opponent(p) # p /\ q \in PlayerState
    BY PlayersFact DEF GameStates
  <2>2. r.setAside = q.setAside
    <3> HIDE DEF q
    <3> QED
      BY <2>1 DEF PlayerState
  <2>3. AddResources(g, p, a, b, m) = [g EXCEPT !.players[p] = r]
    BY <2>1 DEF AddResources, GameStates
  <2> HIDE DEF r
  <2> QED
    BY <2>1, <2>2, <2>3, PlayersFact DEF GameStates
<1> QED
  BY <1>1, <1>2 DEF LocalTo, Beside

LEMMA PlusLocal ==
  ASSUME NEW g, Ready(g), NEW n \in Nat, NEW a \in Nat, NEW b \in Nat, NEW m \in Nat
  PROVE  Plus(g, g.current, n, a, b, m) \subseteq LocalTo(g, g.current)
<1> DEFINE p == g.current
<1>1. ASSUME NEW h \in WithPlayer(g, p, DrawCards(g.players[p], n))
      PROVE  AddResources(h, p, a, b, m) \in LocalTo(g, p)
  <2>1. h \in LocalTo(g, p)
    BY DrawLocal, PlayersFact DEF Ready
  <2>2. h \in GameStates /\ h.current = p
    BY <2>1, LocalTypes DEF Ready
  <2>3. AddResources(h, p, a, b, m) \in LocalTo(h, p)
    BY <2>2, AddResourcesLocal
  <2> QED
    BY <2>1, <2>3, LocalTwice
<1> QED
  BY <1>1 DEF Plus

-----------------------------------------------------------------------------
(***************************************************************************)
(* What an effect must not do, by whatever way its card came to be played. *)
(***************************************************************************)

\* The cards player p has set aside are those p is asked about.
AsideShown(h, p) ==
  LET aside == h.players[p].setAside
  IN  aside # <<>> =>
        /\ h.decision # NoDecision /\ h.decision.player = p
        /\ \/ h.decision.card = "sentry" /\ h.decision.shown = aside
           \/ /\ h.decision.card = "library"
              /\ h.decision.shown = <<aside[Len(aside)]>>

\* The player who waits holds a Moat.
MoatHeld(g) == "moat" \in Cards /\ InHand(g, Opponent(g.current), "moat")

\* The player who waits in g is not asked in h, and has lost nothing by then.
Spares(g, h) ==
  LET v == Opponent(g.current)
  IN  /\ h.decision # NoDecision => h.decision.player # v
      /\ \A c \in Cards :
           /\ Owned(h.players[v], c) = Owned(g.players[v], c)
           /\ h.players[v].hand[c] >= g.players[v].hand[c]
           /\ h.players[v].discard[c] <= g.players[v].discard[c]

Gentle(g) ==
  {h \in Outcome(g) :
     /\ h.err = g.err
     /\ MoatHeld(g) => Spares(g, h)
     /\ g.players[g.current].setAside = <<>> => AsideShown(h, g.current)}

\* As above, and no replay is queued or forgotten.
Quiet(g) == {h \in Gentle(g) : h.pendingPlays = g.pendingPlays}

LEMMA HandsAreNat ==
  ASSUME NEW g \in GameStates, NEW p \in Players, NEW c \in Cards
  PROVE  g.players[p].hand[c] \in Nat /\ g.players[p].discard[c] \in Nat
BY PlayersFact, CountsAreNat

\* What touches the current player only harms nobody else.
LEMMA BesideSpares ==
  ASSUME NEW g \in GameStates, NEW h,
         h.players[Opponent(g.current)] = g.players[Opponent(g.current)],
         h.decision # NoDecision => h.decision.player = g.current
  PROVE  Spares(g, h)
<1>1. Opponent(g.current) \in Players /\ Opponent(g.current) # g.current
  BY PlayersFact
<1>2. \A c \in Cards : /\ g.players[Opponent(g.current)].hand[c] \in Nat
                       /\ g.players[Opponent(g.current)].discard[c] \in Nat
  BY <1>1, HandsAreNat
<1> QED
  BY <1>1, <1>2 DEF Spares

LEMMA SparesTwice ==
  ASSUME NEW g \in GameStates, NEW h \in GameStates, NEW k \in GameStates,
         h.current = g.current, Spares(g, h), Spares(h, k)
  PROVE  Spares(g, k)
<1> DEFINE v == Opponent(g.current)
<1>1. v \in Players
  BY PlayersFact
<1>2. ASSUME NEW c \in Cards
      PROVE  k.players[v].hand[c] >= g.players[v].hand[c]
             /\ k.players[v].discard[c] <= g.players[v].discard[c]
  <2>1. /\ g.players[v].hand[c] \in Nat /\ g.players[v].discard[c] \in Nat
        /\ h.players[v].hand[c] \in Nat /\ h.players[v].discard[c] \in Nat
        /\ k.players[v].hand[c] \in Nat /\ k.players[v].discard[c] \in Nat
    BY <1>1, HandsAreNat
  <2>2. /\ h.players[v].hand[c] >= g.players[v].hand[c]
        /\ h.players[v].discard[c] <= g.players[v].discard[c]
        /\ k.players[v].hand[c] >= h.players[v].hand[c]
        /\ k.players[v].discard[c] <= h.players[v].discard[c]
    BY DEF Spares
  <2> HIDE DEF v
  <2> QED
    BY <2>1, <2>2
<1> QED
  BY <1>2 DEF Spares

\* The Moat is still there.
LEMMA MoatStays ==
  ASSUME NEW g \in GameStates, NEW h \in GameStates, h.current = g.current,
         MoatHeld(g), Spares(g, h)
  PROVE  MoatHeld(h)
<1> DEFINE v == Opponent(g.current)
<1>1. v \in Players /\ "moat" \in Cards
  BY PlayersFact DEF MoatHeld
<1>2. /\ g.players[v].hand["moat"] \in Nat /\ h.players[v].hand["moat"] \in Nat
      /\ g.players[v].hand["moat"] > 0
      /\ h.players[v].hand["moat"] >= g.players[v].hand["moat"]
  BY <1>1, HandsAreNat DEF MoatHeld, InHand, Spares
<1> HIDE DEF v
<1>3. h.players[v].hand["moat"] > 0
  BY <1>2
<1> QED
  BY <1>1, <1>3 DEF MoatHeld, InHand, v

LEMMA OutcomeTypes ==
  ASSUME NEW g, NEW h \in Outcome(g)
  PROVE  h \in GameStates /\ h.current = g.current
BY DEF Outcome, SameTurn

\* Effects in a row.
LEMMA GentleTwice ==
  ASSUME NEW g, Ready(g), NEW h \in Gentle(g), h.decision = NoDecision, NEW k \in Gentle(h)
  PROVE  Ready(h) /\ k \in Gentle(g)
<1>1. Ready(h) /\ k \in Outcome(g) /\ k.err = g.err
  BY OutcomeTwice DEF Gentle
<1>2. g \in GameStates /\ h \in GameStates /\ k \in GameStates /\ h.current = g.current
  BY <1>1, OutcomeTypes DEF Ready, Gentle
<1>3. MoatHeld(g) => Spares(g, k)
  BY <1>2, MoatStays, SparesTwice DEF Gentle
<1>4. g.players[g.current].setAside = <<>> => h.players[g.current].setAside = <<>>
  BY DEF Gentle, AsideShown
<1> QED
  BY <1>1, <1>2, <1>3, <1>4 DEF Gentle

LEMMA QuietTwice ==
  ASSUME NEW g, Ready(g), NEW h \in Quiet(g), h.decision = NoDecision, NEW k \in Quiet(h)
  PROVE  k \in Quiet(g)
BY GentleTwice DEF Quiet

LEMMA LocalQuiet ==
  ASSUME NEW g, Ready(g), NEW h \in LocalTo(g, g.current)
  PROVE  Ready(h) /\ h \in Quiet(g) /\ h.current = g.current /\ h.decision = NoDecision
<1>1. h \in Moved(g) /\ h.err = g.err /\ h.current = g.current /\ g \in GameStates
  BY LocalTypes DEF Ready
<1>2. Ready(h) /\ h \in Outcome(g) /\ h.decision = NoDecision
      /\ h.pendingPlays = g.pendingPlays
  BY <1>1, MovedReady DEF Moved, Ready
<1>3. Spares(g, h)
  BY <1>1, <1>2, BesideSpares DEF LocalTo, Beside
<1>4. g.players[g.current].setAside = <<>> => AsideShown(h, g.current)
  BY DEF LocalTo, AsideShown
<1> QED
  BY <1>1, <1>2, <1>3, <1>4 DEF Quiet, Gentle

\* The current player is asked after a move of that kind.
LEMMA LocalAsked ==
  ASSUME NEW g, Ready(g), NEW h \in LocalTo(g, g.current),
         NEW c \in Askers \ {"library"}, NEW s \in 0..2, NEW prompt \in Prompts
  PROVE  RequestDecision(h, g.current, c, s, prompt) \in Quiet(g)
<1> DEFINE k == RequestDecision(h, g.current, c, s, prompt)
<1>1. /\ h \in Moved(g) /\ h \in GameStates /\ h.err = g.err /\ g.current \in Players
      /\ g \in GameStates
  BY LocalTypes, PlayersFact DEF Ready
<1>2. k \in Outcome(g)
  BY <1>1, CurrentAsked
<1>3. /\ k.players = h.players /\ k.pendingPlays = h.pendingPlays
      /\ k.decision # NoDecision /\ k.decision.player = g.current
  BY <1>1, AskedShape
<1>4. k.err = h.err
  BY <1>1 DEF RequestDecision, GameStates
<1> HIDE DEF k
<1>5. Spares(g, k)
  BY <1>1, <1>3, BesideSpares DEF LocalTo, Beside
<1>6. g.players[g.current].setAside = <<>> => AsideShown(k, g.current)
  BY <1>3 DEF LocalTo, AsideShown
<1>7. k.pendingPlays = g.pendingPlays
  BY <1>1, <1>3 DEF Moved
<1> QED
  BY <1>1, <1>2, <1>4, <1>5, <1>6, <1>7, <1>3 DEF Quiet, Gentle, k

-----------------------------------------------------------------------------
(* Cards that draw and add.                                                *)

LEMMA LocalChange ==
  ASSUME NEW g \in GameStates, NEW r \in PlayerState,
         SameOwned(g.players[g.current], r),
         r.inPlay = g.players[g.current].inPlay,
         r.setAside = g.players[g.current].setAside
  PROVE  [g EXCEPT !.players[g.current] = r] \in LocalTo(g, g.current)
<1> DEFINE h == [g EXCEPT !.players[g.current] = r]
<1>1. g.current \in Players
  BY PlayersFact
<1>2. h \in Beside(g, g.current) /\ h.players[g.current] = r
  BY <1>1, BesidePlayer
<1> HIDE DEF h
<1>3. h \in LocalTo(g, g.current)
  BY <1>2 DEF LocalTo
<1> QED
  BY <1>3 DEF h

LEMMA SilverLocal ==
  ASSUME NEW g, Ready(g)
  PROVE  SilverOnPlay(g, g.current) \subseteq LocalTo(g, g.current)
<1> DEFINE p == g.current
           q == g.players[p]
           bonus == IF q.silver THEN 0 ELSE q.charges
           r == [q EXCEPT !.silver = TRUE]
           h == [g EXCEPT !.players[p] = r]
<1>1. p \in Players /\ q \in PlayerState /\ bonus \in Nat /\ g \in GameStates
  BY PlayersFact DEF Ready, PlayerState
<1>2. r \in PlayerState /\ SameOwned(q, r) /\ r.inPlay = q.inPlay
      /\ r.setAside = q.setAside
  <2> HIDE DEF q
  <2> QED
    BY <1>1 DEF PlayerState, SameOwned, Owned
<1>3. h \in LocalTo(g, p)
  <2> HIDE DEF r
  <2> QED
    BY <1>1, <1>2, LocalChange
<1>4. Ready(h) /\ h.current = p
  BY <1>3, LocalQuiet
<1>5. SilverOnPlay(g, p) = Plus(h, p, 0, 0, 0, 2 + bonus)
  BY DEF SilverOnPlay
<1> HIDE DEF h, bonus
<1>6. 2 + bonus \in Nat
  BY <1>1
<1>7. Plus(h, p, 0, 0, 0, 2 + bonus) \subseteq LocalTo(h, p)
  BY <1>4, <1>6, PlusLocal
<1> QED
  BY <1>3, <1>5, <1>7, LocalTwice

LEMMA MerchantLocal ==
  ASSUME NEW g, Ready(g)
  PROVE  MerchantOnPlay(g, g.current) \subseteq LocalTo(g, g.current)
<1> DEFINE p == g.current
<1>1. ASSUME NEW h \in Plus(g, p, 1, 1, 0, 0)
      PROVE  [h EXCEPT !.players[p].charges = @ + 1] \in LocalTo(g, p)
  <2> DEFINE q == h.players[p]
             r == [q EXCEPT !.charges = @ + 1]
  <2>1. h \in LocalTo(g, p)
    BY PlusLocal
  <2>2. h \in GameStates /\ h.current = p /\ p \in Players /\ q \in PlayerState
    BY <2>1, LocalTypes, PlayersFact DEF Ready
  <2>3. r \in PlayerState /\ SameOwned(q, r) /\ r.inPlay = q.inPlay
        /\ r.setAside = q.setAside
    <3> HIDE DEF q
    <3>1. q.charges + 1 \in Nat
      BY <2>2 DEF PlayerState
    <3> QED
      BY <2>2, <3>1 DEF PlayerState, SameOwned, Owned
  <2>4. [h EXCEPT !.players[p] = r] \in LocalTo(h, p)
    <3> HIDE DEF r
    <3> QED
      BY <2>2, <2>3, LocalChange
  <2>5. [h EXCEPT !.players[p].charges = @ + 1] = [h EXCEPT !.players[p] = r]
    BY <2>2 DEF GameStates
  <2> QED
    BY <2>1, <2>4, <2>5, LocalTwice
<1> QED
  BY <1>1 DEF MerchantOnPlay

\* A draw adds to the hand and takes from the discard pile, if at all.
LEMMA DrawOneSpares ==
  ASSUME NEW q \in PlayerState, NEW r \in DrawOne(q), NEW c \in Cards
  PROVE  r.hand[c] >= q.hand[c] /\ r.discard[c] <= q.discard[c]
<1> DEFINE u == Reshuffled(q)
<1>1. u \in PlayerState
  BY ReshuffledKeeps DEF Rearranged
<1>2. u.hand = q.hand /\ (u.discard = q.discard \/ u.discard = EmptyBag)
  BY DEF Reshuffled, PlayerState
<1>3. q.hand[c] \in Nat /\ q.discard[c] \in Nat
  BY CountsAreNat
<1>4. u.discard[c] <= q.discard[c]
  <2>1. EmptyBag[c] = 0
    BY DEF EmptyBag
  <2> HIDE DEF u
  <2> QED
    BY <1>2, <1>3, <2>1
<1>5. DrawOne(q) = IF DeckEmpty(u) THEN {u}
                   ELSE {[t.rest EXCEPT !.hand = AddOne(@, t.card)] : t \in Pop(u)}
  BY DEF DrawOne
<1> HIDE DEF u
<1>6. CASE DeckEmpty(u)
  BY <1>2, <1>3, <1>4, <1>5, <1>6
<1>7. CASE ~DeckEmpty(u)
  <2>1. PICK t \in Pop(u) : r = [t.rest EXCEPT !.hand = AddOne(@, t.card)]
    BY <1>5, <1>7
  <2>2. t.rest \in PlayerState /\ t.rest.hand = u.hand /\ t.rest.discard = u.discard
    BY <1>1, PopKeeps
  <2>3. r.hand = AddOne(u.hand, t.card) /\ r.discard = u.discard
    BY <2>1, <2>2 DEF PlayerState
  <2>4. r.hand[c] = q.hand[c] + OneOf(t.card)[c] /\ OneOf(t.card)[c] \in Nat
    BY <1>2, <2>3 DEF AddOne, BagPlus, OneOf
  <2> QED
    BY <1>3, <1>4, <2>3, <2>4
<1> QED
  BY <1>6, <1>7

LEMMA DrawOnce ==
  ASSUME NEW q \in PlayerState
  PROVE  DrawCards(q, 1) \subseteq DrawOne(q)
<1> DEFINE S == [k \in 0..1 |-> IF k = 0 THEN {q} ELSE DrawOne(q)]
<1>1. \A r \in PlayerState : DrawOne(r) \subseteq PlayerState
  BY DrawOneKeeps DEF Rearranged
<1>2. S \in [0..1 -> SUBSET PlayerState] /\ S[0] = {q} /\ S[1] = DrawOne(q)
  BY <1>1
<1>3. 0..(1 - 1) = {0} /\ 1 \in Nat /\ 0 + 1 = 1
  OBVIOUS
<1> HIDE DEF S
<1>4. \A k \in 0..(1 - 1) : \A r \in S[k] : DrawOne(r) \subseteq S[k + 1]
  BY <1>2, <1>3
<1>5. q \in S[0]
  BY <1>2
<1>6. DrawCards(q, 1) \subseteq S[1]
  BY <1>1, <1>2, <1>3, <1>4, <1>5, DrawCardsRounds
<1> QED
  BY <1>2, <1>6

LEMMA CouncilRoomQuiet ==
  ASSUME NEW g, Ready(g)
  PROVE  CouncilRoomOnPlay(g, g.current) \subseteq Quiet(g)
<1> DEFINE p == g.current
           v == Opponent(p)
<1>1. ASSUME NEW h \in Plus(g, p, 4, 0, 1, 0), NEW r \in DrawCards(h.players[v], 1)
      PROVE  [h EXCEPT !.players[v] = r] \in Quiet(g)
  <2> DEFINE k == [h EXCEPT !.players[v] = r]
  <2>1. h \in LocalTo(g, p)
    BY PlusLocal
  <2>2. Ready(h) /\ h \in Quiet(g) /\ h.current = p /\ h.decision = NoDecision
    BY <2>1, LocalQuiet
  <2>3. h \in GameStates /\ p \in Players /\ v \in Players /\ Opponent(v) = p /\ v # p
        /\ h.players[v] \in PlayerState
    BY <2>2, PlayersFact DEF Ready
  <2>4. r \in Rearranged(h.players[v]) /\ r \in DrawOne(h.players[v])
    BY <2>3, DrawCardsKeeps, DrawOnce
  <2>5. k \in LocalTo(h, v) /\ k.players[v] = r
    BY <2>3, <2>4, LocalPlayer DEF GameStates
  <2> HIDE DEF k
  <2>6. k \in Moved(h) /\ k.err = h.err /\ k.players[p] = h.players[p]
    BY <2>3, <2>5 DEF LocalTo, Beside
  <2>7. Ready(k) /\ k \in Outcome(h) /\ k.decision = NoDecision
        /\ k.pendingPlays = h.pendingPlays
    BY <2>2, <2>6, MovedReady DEF Moved
  <2>8. Spares(h, k)
    <3>1. ASSUME NEW c \in Cards
          PROVE  r.hand[c] >= h.players[v].hand[c] /\ r.discard[c] <= h.players[v].discard[c]
      BY <2>3, <2>4, DrawOneSpares
    <3>2. \A c \in Cards : Owned(r, c) = Owned(h.players[v], c)
      BY <2>4 DEF Rearranged, SameOwned
    <3> QED
      BY <2>2, <2>5, <2>7, <3>1, <3>2 DEF Spares
  <2>9. k \in Quiet(h)
    BY <2>2, <2>6, <2>7, <2>8 DEF Quiet, Gentle, AsideShown
  <2> QED
    BY <2>2, <2>9, QuietTwice DEF k
<1> QED
  BY <1>1 DEF CouncilRoomOnPlay, WithPlayer

-----------------------------------------------------------------------------
(* Attacks.                                                                *)

\* A Moat in hand leaves no victim.
LEMMA Blocked ==
  ASSUME NEW g, MoatHeld(g), NEW h,
         h.players[Opponent(g.current)] = g.players[Opponent(g.current)]
  PROVE  AttackVictims(h, g.current) = {}
<1> DEFINE v == Opponent(g.current)
<1>1. "moat" \in Cards /\ InHand(h, v, "moat")
  BY DEF MoatHeld, InHand
<1>2. "moat" \in Registered /\ "reaction" \in CardTypes["moat"]
  BY DEF Registered, CardTypes
<1>3. HasType("moat", "reaction")
  BY <1>1, <1>2 DEF HasType
<1> QED
  BY <1>1, <1>3 DEF AttackVictims

\* Without a Moat, an attack need only leave alone what the attacker has set
\* aside.
LEMMA AttackQuiet ==
  ASSUME NEW g, Ready(g), ~MoatHeld(g), NEW h \in Outcome(g), h.err = g.err,
         h.players[g.current].setAside = g.players[g.current].setAside,
         h.pendingPlays = g.pendingPlays
  PROVE  h \in Quiet(g)
BY DEF Quiet, Gentle, AsideShown

\* What is done to the victim leaves the attacker alone.
LEMMA VictimMoves ==
  ASSUME NEW g, Ready(g), NEW p, p = g.current, NEW h \in LocalTo(g, p),
         NEW k \in LocalTo(h, Opponent(p))
  PROVE  /\ k \in Outcome(g) /\ k.err = g.err /\ k.pendingPlays = g.pendingPlays
         /\ k.players[p].setAside = g.players[p].setAside
<1>1. h \in Moved(g) /\ k \in Moved(h) /\ h.err = g.err /\ k.err = h.err
  BY DEF LocalTo, Beside
<1>2. k \in Moved(g)
  BY <1>1, MovedTwice
<1>3. Opponent(Opponent(p)) = p
  BY PlayersFact DEF Ready
<1>4. k.players[p].setAside = g.players[p].setAside
  BY <1>3 DEF LocalTo, Beside
<1> QED
  BY <1>1, <1>2, <1>4, MovedReady DEF Moved

LEMMA VictimAsked ==
  ASSUME NEW g, Ready(g), NEW p, p = g.current, NEW h \in LocalTo(g, p),
         NEW k \in LocalTo(h, Opponent(p)), NEW c \in AttackAskers,
         NEW prompt \in Prompts,
         NEW a, a = RequestDecision(k, Opponent(p), c, 0, prompt)
  PROVE  /\ a \in Outcome(g) /\ a.err = g.err /\ a.pendingPlays = g.pendingPlays
         /\ a.players[p].setAside = g.players[p].setAside
<1>1. /\ k \in Moved(g) /\ k.err = g.err /\ k.pendingPlays = g.pendingPlays
      /\ k.players[p].setAside = g.players[p].setAside
  <2>1. h \in Moved(g) /\ k \in Moved(h)
    BY DEF LocalTo, Beside
  <2> QED
    BY <2>1, MovedTwice, VictimMoves
<1>2. k \in GameStates /\ Opponent(p) \in Players
  BY <1>1, PlayersFact DEF Moved, Ready
<1>3. c \in Askers \ {"library"} /\ 0 \in 0..2
  BY DEF AttackAskers, Askers
<1>4. a \in Outcome(g)
  BY <1>1, <1>2, <1>3, MovedThenAsked
<1>5. a.players = k.players /\ a.pendingPlays = k.pendingPlays
  BY <1>2, <1>3, AskedShape
<1>6. a.err = k.err
  BY <1>2 DEF RequestDecision, GameStates
<1> QED
  BY <1>1, <1>4, <1>5, <1>6

LEMMA WitchQuiet ==
  ASSUME NEW g, Ready(g)
  PROVE  WitchOnPlay(g, g.current) \subseteq Quiet(g)
<1> DEFINE p == g.current
           v == Opponent(p)
<1>1. ASSUME NEW h \in Plus(g, p, 2, 0, 0, 0)
      PROVE  (IF AttackVictims(h, p) = {} THEN h
              ELSE GainCard(h, v, "curse", "discard")) \in Quiet(g)
  <2>1. h \in LocalTo(g, p) /\ h \in Quiet(g) /\ h \in GameStates
    BY PlusLocal, LocalQuiet DEF Ready
  <2>2. CASE AttackVictims(h, p) = {}
    BY <2>1, <2>2
  <2>3. CASE AttackVictims(h, p) # {}
    <3>1. ~MoatHeld(g)
      BY <2>1, <2>3, Blocked DEF LocalTo, Beside
    <3>2. v \in Players
      BY PlayersFact DEF Ready
    <3>3. GainCard(h, v, "curse", "discard") \in LocalTo(h, v)
      BY <2>1, <3>2, GainCardLocal
    <3>4. GainCard(h, v, "curse", "discard") \in Quiet(g)
      BY <2>1, <3>1, <3>3, VictimMoves, AttackQuiet
    <3> QED
      BY <2>3, <3>4
  <2> QED
    BY <2>2, <2>3
<1> QED
  BY <1>1 DEF WitchOnPlay

LEMMA MilitiaQuiet ==
  ASSUME NEW g, Ready(g)
  PROVE  MilitiaOnPlay(g, g.current) \subseteq Quiet(g)
<1> DEFINE p == g.current
           v == Opponent(p)
<1>1. ASSUME NEW h \in Plus(g, p, 0, 0, 0, 2)
      PROVE  MilitiaQueue(h, AttackVictims(h, p)) \in Quiet(g)
  <2> DEFINE toAsk == {w \in AttackVictims(h, p) : Size(h.players[w].hand) > 3}
             v0 == CHOOSE w \in toAsk : TRUE
             n == Size(h.players[v0].hand) - 3
  <2>1. h \in LocalTo(g, p) /\ h \in Quiet(g) /\ h \in GameStates
        /\ p \in Players
    BY PlusLocal, LocalQuiet, PlayersFact DEF Ready
  <2>2. CASE toAsk = {}
    BY <2>1, <2>2 DEF MilitiaQueue
  <2>3. CASE toAsk # {}
    <3>1. v0 \in toAsk
      BY <2>3
    <3>2. v0 = v /\ v0 \in Players /\ Size(h.players[v0].hand) > 3
          /\ AttackVictims(h, p) # {}
      BY <2>1, <3>1, VictimsFact
    <3>3. Size(h.players[v0].hand) \in Nat
      BY <2>1, <3>2, HandSizeIsNat
    <3>4. n \in Nat
      BY <3>2, <3>3
    <3>5. MilitiaQueue(h, AttackVictims(h, p))
            = RequestDecision(h, v0, "militia", 0, HandPrompt(n, n))
      BY <2>3 DEF MilitiaQueue
    <3> HIDE DEF v0, n, toAsk
    <3>6. HandPrompt(n, n) \in Prompts /\ "militia" \in AttackAskers
      BY <3>4, PromptTypes DEF AttackAskers
    <3>7. ~MoatHeld(g)
      BY <2>1, <3>2, Blocked DEF LocalTo, Beside
    <3>8. h \in LocalTo(h, v)
      BY <2>1, LocalSelf
    <3> DEFINE prompt == HandPrompt(n, n)
               a == RequestDecision(h, v, "militia", 0, prompt)
    <3> HIDE DEF prompt
    <3>9. /\ a \in Outcome(g) /\ a.err = g.err /\ a.pendingPlays = g.pendingPlays
          /\ a.players[p].setAside = g.players[p].setAside
      BY <2>1, <3>6, <3>8, VictimAsked DEF prompt
    <3>10. a = MilitiaQueue(h, AttackVictims(h, p))
      BY <3>2, <3>5 DEF prompt
    <3> HIDE DEF a
    <3>11. a \in Quiet(g)
      BY <3>7, <3>9, AttackQuiet
    <3> QED
      BY <3>10, <3>11
  <2> QED
    BY <2>2, <2>3
<1> QED
  BY <1>1 DEF MilitiaOnPlay

LEMMA BureaucratQuiet ==
  ASSUME NEW g, Ready(g)
  PROVE  BureaucratOnPlay(g, g.current) \subseteq Quiet(g)
<1> DEFINE p == g.current
           v == Opponent(p)
           h == GainCard(g, p, "silver", "deck")
           victims == AttackVictims(h, p)
           v0 == CHOOSE w \in victims : TRUE
           only == CHOOSE c \in Cards : VictoriesInHand(h, v0)[c] > 0
<1>1. h \in LocalTo(g, p) /\ p \in Players
  BY GainCardLocal, PlayersFact DEF Ready
<1>2. h \in Quiet(g) /\ h \in GameStates
  BY <1>1, LocalQuiet DEF Ready
<1>3. CASE victims = {} \/ Size(VictoriesInHand(h, v0)) = 0
  <2>1. BureaucratQueue(h, victims) = h
    BY <1>3 DEF BureaucratQueue
  <2> QED
    BY <1>2, <2>1 DEF BureaucratOnPlay
<1>4. CASE victims # {} /\ Size(VictoriesInHand(h, v0)) # 0
  <2>1. v0 \in victims
    BY <1>4
  <2>2. v0 = v /\ v0 \in Players
    BY <1>1, <2>1, VictimsFact
  <2>3. \/ BureaucratQueue(h, victims) = PutOnDeck(h, v0, only)
        \/ BureaucratQueue(h, victims)
             = RequestDecision(h, v0, "bureaucrat", 0, HandPrompt(1, 1))
    BY <1>4 DEF BureaucratQueue
  <2>4. ~MoatHeld(g)
    <3> HIDE DEF h
    <3> QED
      BY <1>1, <1>4, Blocked DEF LocalTo, Beside
  <2>5. BureaucratOnPlay(g, p) = {BureaucratQueue(h, victims)}
    BY DEF BureaucratOnPlay
  <2> HIDE DEF v0, only, victims, h
  <2>6. PutOnDeck(h, v0, only) \in Quiet(g)
    <3>1. PutOnDeck(h, v0, only) \in LocalTo(h, v)
      BY <1>2, <2>2, PutOnDeckLocal
    <3> QED
      BY <1>1, <2>4, <3>1, VictimMoves, AttackQuiet
  <2>7. RequestDecision(h, v0, "bureaucrat", 0, HandPrompt(1, 1)) \in Quiet(g)
    <3>1. "bureaucrat" \in AttackAskers /\ HandPrompt(1, 1) \in Prompts
      BY PromptTypes DEF AttackAskers
    <3>2. h \in LocalTo(h, v)
      BY <1>2, LocalSelf
    <3> DEFINE prompt == HandPrompt(1, 1)
               a == RequestDecision(h, v, "bureaucrat", 0, prompt)
    <3> HIDE DEF prompt
    <3>3. /\ a \in Outcome(g) /\ a.err = g.err /\ a.pendingPlays = g.pendingPlays
          /\ a.players[p].setAside = g.players[p].setAside
      BY <1>1, <3>1, <3>2, VictimAsked DEF prompt
    <3>4. a = RequestDecision(h, v0, "bureaucrat", 0, HandPrompt(1, 1))
      BY <2>2 DEF prompt
    <3> HIDE DEF a
    <3>5. a \in Quiet(g)
      BY <2>4, <3>3, AttackQuiet
    <3> QED
      BY <3>4, <3>5
  <2> QED
    BY <2>3, <2>5, <2>6, <2>7
<1> QED
  BY <1>3, <1>4

LEMMA DiscardOthersLocal ==
  ASSUME NEW g \in GameStates, NEW v \in Players, NEW revealed \in Seq(Cards),
         NEW kept
  PROVE  DiscardOthers(g, v, revealed, kept) \in LocalTo(g, v)
<1> DEFINE discarded(h, i) == IF i > Len(revealed) \/ revealed[i] = kept THEN h
                              ELSE DiscardFromDeck(h, v, revealed[i])
<1>1. ASSUME NEW h \in GameStates, NEW i \in 1..2
      PROVE  discarded(h, i) \in LocalTo(h, v) /\ discarded(h, i) \in GameStates
  <2>1. CASE i > Len(revealed) \/ revealed[i] = kept
    BY <2>1, LocalSelf
  <2>2. CASE ~(i > Len(revealed) \/ revealed[i] = kept)
    <3>1. i \in 1..Len(revealed)
      BY <2>2, LenProperties
    <3>2. revealed[i] \in Cards
      BY <3>1, ElementOfSeq
    <3> QED
      BY <2>2, <3>2, DiscardFromDeckLocal, LocalTypes
  <2> QED
    BY <2>1, <2>2
<1>2. discarded(g, 1) \in LocalTo(g, v) /\ discarded(g, 1) \in GameStates
  BY <1>1
<1>3. discarded(discarded(g, 1), 2) \in LocalTo(discarded(g, 1), v)
  <2> HIDE DEF discarded
  <2> QED
    BY <1>1, <1>2
<1>4. DiscardOthers(g, v, revealed, kept) = discarded(discarded(g, 1), 2)
  BY DEF DiscardOthers
<1> HIDE DEF discarded
<1> QED
  BY <1>2, <1>3, <1>4, LocalTwice

LEMMA BanditTakeLocal ==
  ASSUME NEW g \in GameStates, NEW v \in Players, NEW revealed \in Seq(Cards),
         NEW chosen \in Cards
  PROVE  BanditTake(g, v, chosen, revealed) \in LocalTo(g, v)
<1> DEFINE h == TrashFromDeck(g, v, chosen)
<1>1. h \in LocalTo(g, v) /\ h \in GameStates
  BY TrashFromDeckLocal, LocalTypes
<1> HIDE DEF h
<1>2. DiscardOthers(h, v, revealed, chosen) \in LocalTo(g, v)
  BY <1>1, DiscardOthersLocal, LocalTwice
<1> QED
  BY <1>2 DEF BanditTake, h

\* A raid moves the victim's cards, or asks the victim.
LEMMA BanditRaidShape ==
  ASSUME NEW h \in GameStates, NEW v \in Players
  PROVE  \/ BanditRaid(h, v) \in LocalTo(h, v)
         \/ \E prompt \in Prompts :
              BanditRaid(h, v) = RequestDecision(h, v, "bandit", 0, prompt)
<1> DEFINE revealed == Revealed(h.players[v])
           treasures == {i \in DOMAIN revealed : IsNonCopperTreasure(revealed[i])}
           i0 == CHOOSE i \in treasures : TRUE
<1>1. revealed \in Seq(Cards)
  BY PlayersFact, RevealedIsSeq
<1>2. CASE treasures = {}
  <2>1. BanditRaid(h, v) = DiscardOthers(h, v, revealed, NoCard)
    BY <1>2 DEF BanditRaid
  <2> HIDE DEF revealed
  <2> QED
    BY <1>1, <2>1, DiscardOthersLocal
<1>3. CASE treasures # {} /\ Cardinality(treasures) = 1
  <2>1. BanditRaid(h, v) = BanditTake(h, v, revealed[i0], revealed)
    BY <1>3 DEF BanditRaid
  <2>2. i0 \in DOMAIN revealed
    BY <1>3
  <2> HIDE DEF revealed, i0
  <2>3. revealed[i0] \in Cards
    BY <1>1, <2>2, LenProperties, ElementOfSeq
  <2> QED
    BY <1>1, <2>1, <2>3, BanditTakeLocal
<1>4. CASE treasures # {} /\ Cardinality(treasures) # 1
  <2>1. BanditRaid(h, v) = RequestDecision(h, v, "bandit", 0, ShownPrompt(revealed))
    BY <1>4 DEF BanditRaid
  <2> HIDE DEF revealed
  <2>2. ShownPrompt(revealed) \in Prompts
    BY <1>1, PromptTypes
  <2> QED
    BY <2>1, <2>2
<1> QED
  BY <1>2, <1>3, <1>4

LEMMA BanditQuiet ==
  ASSUME NEW g, Ready(g)
  PROVE  BanditOnPlay(g, g.current) \subseteq Quiet(g)
<1> DEFINE p == g.current
           v == Opponent(p)
           h == GainCard(g, p, "gold", "discard")
           victims == AttackVictims(h, p)
           v0 == CHOOSE w \in victims : TRUE
<1>1. h \in LocalTo(g, p) /\ p \in Players
  BY GainCardLocal, PlayersFact DEF Ready
<1>2. h \in Quiet(g) /\ h \in GameStates
  BY <1>1, LocalQuiet DEF Ready
<1>3. CASE victims = {}
  BY <1>2, <1>3 DEF BanditOnPlay, BanditQueue
<1>4. CASE victims # {}
  <2>1. v0 \in victims
    BY <1>4
  <2>2. v0 = v /\ v0 \in Players
    BY <1>1, <2>1, VictimsFact
  <2>3. BanditOnPlay(g, p)
          = {BanditRaid(k, v0) :
               k \in WithPlayer(h, v0, RevealFromDeck(h.players[v0]))}
    BY <1>4 DEF BanditOnPlay, BanditQueue
  <2>4. ~MoatHeld(g)
    <3> HIDE DEF h
    <3> QED
      BY <1>1, <1>4, Blocked DEF LocalTo, Beside
  <2> HIDE DEF v0, h, victims
  <2>5. ASSUME NEW r \in RevealFromDeck(h.players[v0])
        PROVE  BanditRaid([h EXCEPT !.players[v0] = r], v0) \in Quiet(g)
    <3> DEFINE k == [h EXCEPT !.players[v0] = r]
    <3>1. r \in Rearranged(h.players[v0])
      BY <1>2, <2>2, PlayersFact, RevealFromDeckKeeps
    <3>2. k \in LocalTo(h, v)
      BY <1>2, <2>2, <3>1, LocalPlayer
    <3> HIDE DEF k
    <3>3. k \in GameStates
      BY <1>2, <3>2, LocalTypes
    <3>4. CASE BanditRaid(k, v0) \in LocalTo(k, v0)
      <4>1. BanditRaid(k, v0) \in LocalTo(h, v)
        BY <2>2, <3>2, <3>4, LocalTwice
      <4> QED
        BY <1>1, <2>4, <4>1, VictimMoves, AttackQuiet DEF k
    <3>5. CASE \E prompt \in Prompts :
                 BanditRaid(k, v0) = RequestDecision(k, v0, "bandit", 0, prompt)
      <4>1. PICK prompt \in Prompts :
                 BanditRaid(k, v0) = RequestDecision(k, v0, "bandit", 0, prompt)
        BY <3>5
      <4>2. "bandit" \in AttackAskers
        BY DEF AttackAskers
      <4> QED
        BY SMTT(30), <1>1, <2>2, <2>4, <3>2, <4>1, <4>2, VictimAsked, AttackQuiet DEF k
    <3> QED
      BY <2>2, <3>3, <3>4, <3>5, BanditRaidShape DEF k
  <2> QED
    BY <2>3, <2>5 DEF WithPlayer
<1> QED
  BY <1>3, <1>4

-----------------------------------------------------------------------------
(* Cards that ask about the hand, the supply or the discard pile.          *)

LEMMA HandQuiet ==
  ASSUME NEW g, Ready(g)
  PROVE  /\ CellarOnPlay(g, g.current) \subseteq Quiet(g)
         /\ ChapelOnPlay(g, g.current) \subseteq Quiet(g)
         /\ MoneylenderOnPlay(g, g.current) \subseteq Quiet(g)
         /\ PoacherOnPlay(g, g.current) \subseteq Quiet(g)
         /\ WorkshopOnPlay(g, g.current) \subseteq Quiet(g)
         /\ ArtisanOnPlay(g, g.current) \subseteq Quiet(g)
         /\ RemodelOnPlay(g, g.current) \subseteq Quiet(g)
         /\ MineOnPlay(g, g.current) \subseteq Quiet(g)
         /\ HarbingerOnPlay(g, g.current) \subseteq Quiet(g)
         /\ ThroneRoomOnPlay(g, g.current) \subseteq Quiet(g)
<1> DEFINE p == g.current
<1>1. g \in LocalTo(g, p) /\ g \in Quiet(g) /\ p \in Players /\ g \in GameStates
  BY LocalSelf, LocalQuiet, PlayersFact DEF Ready
<1>2. \A m, n \in Nat : HandPrompt(m, n) \in Prompts
  BY PromptTypes
<1>3. 0 \in 0..2 /\ \A c \in {"cellar", "chapel", "moneylender", "poacher", "workshop",
                             "artisan", "remodel", "mine", "harbinger", "throne_room"} :
                         c \in Askers \ {"library"}
  BY DEF Askers
<1>4. CellarOnPlay(g, p) \subseteq Quiet(g)
  <2>1. ASSUME NEW h \in Plus(g, p, 0, 1, 0, 0)
        PROVE  RequestDecision(h, p, "cellar", 0, HandPrompt(0, Size(h.players[p].hand)))
                 \in Quiet(g)
    <3>1. h \in LocalTo(g, p) /\ h \in GameStates
      BY <1>1, PlusLocal, LocalTypes
    <3>2. HandPrompt(0, Size(h.players[p].hand)) \in Prompts
      BY <1>1, <1>2, <3>1, HandSizeIsNat
    <3> QED
      BY <1>3, <3>1, <3>2, LocalAsked
  <2> QED
    BY <2>1 DEF CellarOnPlay
<1>5. ChapelOnPlay(g, p) \subseteq Quiet(g)
  <2>1. RequestDecision(g, p, "chapel", 0, HandPrompt(0, 4)) \in Quiet(g)
    BY <1>1, <1>2, <1>3, LocalAsked
  <2> QED
    BY <2>1 DEF ChapelOnPlay
<1>6. MoneylenderOnPlay(g, p) \subseteq Quiet(g)
  <2>1. RequestDecision(g, p, "moneylender", 0, HandPrompt(0, 1)) \in Quiet(g)
    BY <1>1, <1>2, <1>3, LocalAsked
  <2> QED
    BY <1>1, <2>1 DEF MoneylenderOnPlay
<1>7. PoacherOnPlay(g, p) \subseteq Quiet(g)
  <2> DEFINE n == Cardinality(EmptyPiles(g))
  <2>1. n \in Nat
    BY CardsAssumption, FS_Subset, FS_CardinalityType DEF EmptyPiles
  <2>2. ASSUME NEW h \in Plus(g, p, 1, 1, 0, 1)
        PROVE  h \in Quiet(g)
               /\ RequestDecision(h, p, "poacher", 0, HandPrompt(n, n)) \in Quiet(g)
    <3>1. h \in LocalTo(g, p)
      BY PlusLocal
    <3>2. HandPrompt(n, n) \in Prompts
      BY <1>2, <2>1
    <3> QED
      BY <1>3, <3>1, <3>2, LocalAsked, LocalQuiet
  <2> QED
    BY <2>2 DEF PoacherOnPlay
<1>8. WorkshopOnPlay(g, p) \subseteq Quiet(g)
  <2>1. RequestDecision(g, p, "workshop", 0, GainPrompt(4)) \in Quiet(g)
    BY <1>1, <1>3, LocalAsked, PromptTypes
  <2> QED
    BY <2>1 DEF WorkshopOnPlay
<1>9. ArtisanOnPlay(g, p) \subseteq Quiet(g)
  <2>1. RequestDecision(g, p, "artisan", 0, GainPrompt(5)) \in Quiet(g)
    BY <1>1, <1>3, LocalAsked, PromptTypes
  <2> QED
    BY <2>1 DEF ArtisanOnPlay
<1>10. RemodelOnPlay(g, p) \subseteq Quiet(g)
  <2>1. RequestDecision(g, p, "remodel", 0, HandPrompt(1, 1)) \in Quiet(g)
    BY <1>1, <1>2, <1>3, LocalAsked
  <2> QED
    BY <1>1, <2>1 DEF RemodelOnPlay
<1>11. MineOnPlay(g, p) \subseteq Quiet(g)
  <2>1. RequestDecision(g, p, "mine", 0, HandPrompt(0, 1)) \in Quiet(g)
    BY <1>1, <1>2, <1>3, LocalAsked
  <2> QED
    BY <1>1, <2>1 DEF MineOnPlay
<1>12. HarbingerOnPlay(g, p) \subseteq Quiet(g)
  <2>1. ASSUME NEW h \in Plus(g, p, 1, 1, 0, 0)
        PROVE  h \in Quiet(g)
               /\ RequestDecision(h, p, "harbinger", 0, HandPrompt(0, 1)) \in Quiet(g)
    BY <1>2, <1>3, PlusLocal, LocalAsked, LocalQuiet
  <2> QED
    BY <2>1 DEF HarbingerOnPlay
<1>13. ThroneRoomOnPlay(g, p) \subseteq Quiet(g)
  <2>1. RequestDecision(g, p, "throne_room", 0, HandPrompt(1, 1)) \in Quiet(g)
    BY <1>1, <1>2, <1>3, LocalAsked
  <2> QED
    BY <1>1, <2>1 DEF ThroneRoomOnPlay
<1> QED
  BY <1>4, <1>5, <1>6, <1>7, <1>8, <1>9, <1>10, <1>11, <1>12, <1>13

-----------------------------------------------------------------------------
(* Cards taken off the deck and inspected.                                 *)

LEMMA VassalQuiet ==
  ASSUME NEW g, Ready(g)
  PROVE  VassalOnPlay(g, g.current) \subseteq Quiet(g)
<1> DEFINE p == g.current
           q0 == g.players[p]
           q == Reshuffled(q0)
           discarded(t) ==
             [g EXCEPT !.players[p] = [t.rest EXCEPT !.discard = AddOne(@, t.card)]]
<1>1. p \in Players /\ q0 \in PlayerState /\ g \in GameStates
  BY PlayersFact DEF Ready
<1>2. q \in Rearranged(q0) /\ q \in PlayerState
  BY <1>1, ReshuffledKeeps DEF Rearranged
<1>3. ASSUME NEW t \in Pop(q)
      PROVE  discarded(t) \in LocalTo(g, p) /\ t.card \in Cards
  <2> DEFINE r == [t.rest EXCEPT !.discard = AddOne(@, t.card)]
  <2>1. r \in Rearranged(q0) /\ t.card \in Cards
    <3> HIDE DEF q
    <3>1. r \in Rearranged(q) /\ t.card \in Cards
      BY <1>2, PopAndKeep, PopKeeps
    <3> HIDE DEF r
    <3> QED
      BY <1>2, <3>1, RearrangedTwice
  <2> HIDE DEF r
  <2>2. [g EXCEPT !.players[p] = r] \in LocalTo(g, p)
    BY <1>1, <2>1, LocalPlayer
  <2> QED
    BY <2>1, <2>2 DEF r
<1> HIDE DEF discarded
<1>4. ASSUME NEW t \in Pop(q)
      PROVE  /\ RequestDecision(discarded(t), p, "vassal", 0, ShownPrompt(<<t.card>>))
                  \in Quiet(g)
             /\ discarded(t) \in Quiet(g)
  <2>1. <<t.card>> \in Seq(Cards)
    BY <1>3
  <2>2. ShownPrompt(<<t.card>>) \in Prompts
    BY <2>1, PromptTypes
  <2>3. "vassal" \in Askers \ {"library"} /\ 0 \in 0..2
    BY DEF Askers
  <2> QED
    BY <1>3, <2>2, <2>3, LocalAsked, LocalQuiet
<1>5. g \in Quiet(g)
  BY <1>1, LocalSelf, LocalQuiet
<1>6. VassalOnPlay(g, p) =
        IF DeckEmpty(q) THEN {g}
        ELSE {IF HasType(t.card, "action")
              THEN RequestDecision(discarded(t), p, "vassal", 0, ShownPrompt(<<t.card>>))
              ELSE discarded(t) : t \in Pop(q)}
  BY DEF VassalOnPlay, discarded
<1> HIDE DEF q
<1> QED
  BY <1>4, <1>5, <1>6

\* States a Library passes through: whenever it asks, it shows the last of the
\* cards set aside.
Browsed(g) ==
  {h \in Outcome(g) :
     /\ h.err = g.err /\ h.pendingPlays = g.pendingPlays
     /\ h.players[Opponent(g.current)] = g.players[Opponent(g.current)]
     /\ h.decision # NoDecision =>
          h.decision.player = g.current /\ AsideShown(h, g.current)}

LEMMA BesideBrowsed ==
  ASSUME NEW g, Ready(g), NEW h \in Beside(g, g.current)
  PROVE  Ready(h) /\ h \in Browsed(g) /\ h.current = g.current
BY MovedReady DEF Ready, Beside, Moved, SameTurn, Browsed

LEMMA BrowsedTwice ==
  ASSUME NEW g, Ready(g), NEW h \in Browsed(g), h.decision = NoDecision,
         NEW k \in Browsed(h)
  PROVE  Ready(h) /\ h.current = g.current /\ k \in Browsed(g)
<1>1. Ready(h) /\ k \in Outcome(g) /\ h.current = g.current
  BY OutcomeTwice, OutcomeTypes DEF Browsed
<1> QED
  BY <1>1 DEF Browsed

LEMMA BrowsedQuiet ==
  ASSUME NEW g, Ready(g), NEW h \in Browsed(g), AsideShown(h, g.current)
  PROVE  h \in Quiet(g)
BY BesideSpares DEF Browsed, Quiet, Gentle, Ready

LEMMA LibraryDrawBrowses ==
  ASSUME NEW g, Ready(g)
  PROVE  LibraryDraw(g, g.current) \subseteq Browsed(g)
<1> DEFINE p == g.current
           q0 == g.players[p]
           q == Reshuffled(q0)
           inHand(t) == [t.rest EXCEPT !.hand = AddOne(@, t.card)]
           aside(t) == [t.rest EXCEPT !.setAside = Append(@, t.card)]
           asked(t) == RequestDecision([g EXCEPT !.players[p] = aside(t)], p, "library", 0,
                                       ShownPrompt(<<t.card>>))
<1>1. p \in Players /\ q0 \in PlayerState /\ g \in GameStates
  BY PlayersFact DEF Ready
<1>2. q \in Rearranged(q0) /\ q \in PlayerState
  BY <1>1, ReshuffledKeeps DEF Rearranged
<1>3. ASSUME NEW t \in Pop(q)
      PROVE  [g EXCEPT !.players[p] = inHand(t)] \in Browsed(g)
  <2>1. inHand(t) \in Rearranged(q)
    <3> HIDE DEF q
    <3> QED
      BY <1>2, PopAndKeep
  <2> HIDE DEF inHand, q
  <2>2. inHand(t) \in Rearranged(q0)
    BY <1>2, <2>1, RearrangedTwice
  <2>3. [g EXCEPT !.players[p] = inHand(t)] \in LocalTo(g, p)
    BY <1>1, <2>2, LocalPlayer
  <2> QED
    BY <2>3, BesideBrowsed DEF LocalTo
<1>4. ASSUME NEW t \in Pop(q), asked(t) \in Outcome(g)
      PROVE  asked(t) \in Browsed(g)
  <2> DEFINE r == aside(t)
             h == [g EXCEPT !.players[p] = r]
             prompt == ShownPrompt(<<t.card>>)
             k == RequestDecision(h, p, "library", 0, prompt)
  <2>1. /\ r \in PlayerState /\ SameOwned(q, r) /\ r.inPlay = q.inPlay
        /\ r.setAside = Append(q.setAside, t.card) /\ t.card \in Cards
        /\ q.setAside \in Seq(Cards)
    <3> HIDE DEF q
    <3> QED
      BY <1>2, PopAndKeep, PopKeeps DEF PlayerState
  <2> HIDE DEF aside, q
  <2>2. SameOwned(q0, r) /\ r.inPlay = q0.inPlay
    BY <1>2, <2>1 DEF Rearranged, SameOwned, SameMeans
  <2>3. h \in Beside(g, p) /\ h.players[p] = r
    <3>1. SameOwned(g.players[p], r) /\ r.inPlay = g.players[p].inPlay /\ r \in PlayerState
      BY <2>1, <2>2
    <3> HIDE DEF r, prompt, k, q0
    <3> QED
      BY <1>1, <3>1, BesidePlayer
  <2>4. h \in GameStates /\ h.err = g.err /\ h.pendingPlays = g.pendingPlays
        /\ h.players[Opponent(p)] = g.players[Opponent(p)]
    BY <2>3 DEF Beside, Moved
  <2>5. prompt \in Prompts /\ prompt.shown = <<t.card>>
    <3>1. <<t.card>> \in Seq(Cards)
      BY <2>1
    <3> QED
      BY <3>1, PromptTypes DEF ShownPrompt, NoPrompt
  <2>6. r.setAside[Len(r.setAside)] = t.card
    BY <2>1
  <2>7. "library" \in Askers /\ 0 \in 0..2
    BY DEF Askers
  <2>8. asked(t) = k
    OBVIOUS
  <2> HIDE DEF h, prompt, r
  <2>9. /\ k.players = h.players /\ k.pendingPlays = h.pendingPlays
        /\ k.decision # NoDecision /\ k.decision.card = "library"
        /\ k.decision.player = p /\ k.decision.shown = prompt.shown
    BY <1>1, <2>4, <2>5, <2>7, AskedShape
  <2>10. k.err = h.err
    BY <2>4 DEF RequestDecision, GameStates
  <2>11. k \in Outcome(g)
    BY <1>4, <2>8
  <2> HIDE DEF k
  <2>12. AsideShown(k, p)
    BY <2>3, <2>5, <2>6, <2>9 DEF AsideShown
  <2>13. k \in Browsed(g)
    BY <2>4, <2>9, <2>10, <2>11, <2>12 DEF Browsed
  <2> QED
    BY <2>8, <2>13
<1>5. g \in Browsed(g)
  BY <1>1, LocalSelf, BesideBrowsed DEF LocalTo
<1>6. LibraryDraw(g, p) =
        IF LibraryStops(g, p) THEN {g}
        ELSE {IF HasType(t.card, "action") THEN asked(t)
              ELSE [g EXCEPT !.players[p] = inHand(t)] : t \in Pop(q)}
  BY DEF LibraryDraw
<1>7. LibraryDraw(g, p) \subseteq Outcome(g)
  BY LibraryDrawOutcome
<1> HIDE DEF q, inHand, aside, asked
<1>8. CASE LibraryStops(g, p)
  BY <1>5, <1>6, <1>8
<1>9. CASE ~LibraryStops(g, p)
  <2>1. ASSUME NEW k \in LibraryDraw(g, p) PROVE k \in Browsed(g)
    <3>1. PICK t \in Pop(q) :
            k = IF HasType(t.card, "action") THEN asked(t)
                ELSE [g EXCEPT !.players[p] = inHand(t)]
      BY <1>6, <1>9
    <3> QED
      BY <1>3, <1>4, <1>7, <3>1
  <2> QED
    BY <2>1
<1> QED
  BY <1>8, <1>9

LEMMA FlushBeside ==
  ASSUME NEW g \in GameStates
  PROVE  /\ FlushSetAside(g, g.current) \in Beside(g, g.current)
         /\ FlushSetAside(g, g.current).players[g.current].setAside = <<>>
<1> DEFINE p == g.current
           q == g.players[p]
           b == BagOfSeq(q.setAside)
           r == [q EXCEPT !.discard = BagPlus(@, b), !.setAside = <<>>]
<1>1. /\ FlushSetAside(g, p) \in Moved(g) /\ p \in Players /\ q \in PlayerState
      /\ Opponent(p) \in Players /\ Opponent(p) # p
  BY FlushMoves, PlayersFact
<1>2. FlushSetAside(g, p) = [g EXCEPT !.players[p] = r]
  BY <1>1 DEF FlushSetAside, GameStates
<1>3. r.setAside = <<>>
  <2> HIDE DEF q, b
  <2> QED
    BY <1>1 DEF PlayerState
<1> HIDE DEF q, r
<1>4. /\ FlushSetAside(g, p).players[p] = r /\ FlushSetAside(g, p).err = g.err
      /\ FlushSetAside(g, p).players[Opponent(p)] = g.players[Opponent(p)]
  BY <1>1, <1>2 DEF GameStates
<1> QED
  BY <1>1, <1>3, <1>4 DEF Beside

\* However many cards a Library sets aside, when it stops there is none left.
LEMMA LibraryBrowses ==
  ASSUME NEW g, Ready(g), NEW k \in LibraryStep(g, g.current)
  PROVE  k \in Browsed(g) /\ AsideShown(k, g.current)
<1> DEFINE p == g.current
           S == Browsed(g)
<1>1. g \in S
  BY LocalSelf, BesideBrowsed DEF LocalTo, Ready
<1>2. ASSUME NEW h \in S
      PROVE  LibraryDraw(h, p) \subseteq S
  <2>1. CASE h.decision # NoDecision
    BY <2>1 DEF LibraryDraw, LibraryStops
  <2>2. CASE h.decision = NoDecision
    <3>1. Ready(h) /\ h.current = p /\ Browsed(h) \subseteq S
      <4>1. h \in Outcome(g)
        BY DEF Browsed
      <4>2. Ready(h) /\ h.current = p
        BY <2>2, <4>1 DEF Ready, Outcome, SameTurn
      <4> QED
        BY <2>2, <4>2, BrowsedTwice
    <3> QED
      BY <3>1, LibraryDrawBrowses
  <2> QED
    BY <2>1, <2>2
<1>3. ASSUME NEW h \in S, h.decision = NoDecision
      PROVE  FlushSetAside(h, p) \in S /\ AsideShown(FlushSetAside(h, p), p)
  <2>1. h \in Outcome(g)
    BY DEF Browsed
  <2>2. Ready(h) /\ h.current = p /\ h \in GameStates
    BY <1>3, <2>1 DEF Ready, Outcome, SameTurn
  <2>3. FlushSetAside(h, p) \in Browsed(h)
        /\ FlushSetAside(h, p).players[p].setAside = <<>>
    BY <2>2, FlushBeside, BesideBrowsed
  <2> QED
    BY <1>3, <2>3, BrowsedTwice DEF AsideShown
<1>4. \A h \in S : h.decision # NoDecision => AsideShown(h, p)
  BY DEF Browsed
<1> HIDE DEF S
<1>5. \E h \in S : k = IF h.decision # NoDecision THEN h ELSE FlushSetAside(h, p)
  BY <1>1, <1>2, LibraryStepStays
<1>6. k \in S /\ AsideShown(k, p)
  BY <1>3, <1>4, <1>5
<1> QED
  BY <1>6 DEF S

LEMMA LibraryQuiet ==
  ASSUME NEW g, Ready(g)
  PROVE  LibraryOnPlay(g, g.current) \subseteq Quiet(g)
BY LibraryBrowses, BrowsedQuiet DEF LibraryOnPlay

\* A Sentry shows all it has set aside, when nothing was before.
LEMMA SentryQuiet ==
  ASSUME NEW g, Ready(g)
  PROVE  SentryOnPlay(g, g.current) \subseteq Quiet(g)
<1> DEFINE p == g.current
           before(h) == Len(h.players[p].setAside)
           revealed(h, q) == SubSeq(q.setAside, before(h) + 1, Len(q.setAside))
           after(h, q) == [h EXCEPT !.players[p] = q]
           asked(h, q) ==
             IF revealed(h, q) = <<>> THEN after(h, q)
             ELSE RequestDecision(after(h, q), p, "sentry", 0, ShownPrompt(revealed(h, q)))
<1>1. p \in Players /\ g \in GameStates
  BY PlayersFact DEF Ready
<1>2. SentryOnPlay(g, p) =
        UNION {{asked(h, q) : q \in PeelToSetAside(h.players[p])} :
                 h \in Plus(g, p, 1, 1, 0, 0)}
  BY DEF SentryOnPlay
<1>3. ASSUME NEW h \in Plus(g, p, 1, 1, 0, 0), NEW q \in PeelToSetAside(h.players[p])
      PROVE  asked(h, q) \in Quiet(g)
  <2>1. h \in LocalTo(g, p) /\ h \in GameStates /\ h.current = p
    BY <1>1, PlusLocal, LocalTypes
  <2>2. h.players[p] \in PlayerState
    BY <2>1, PlayersFact
  <2>3. q \in PlayerState /\ SameOwned(h.players[p], q)
        /\ q.inPlay = h.players[p].inPlay
    BY <2>2, PeelToSetAsideKeeps
  <2> DEFINE a == after(h, q)
             shown == revealed(h, q)
             prompt == ShownPrompt(shown)
             k == RequestDecision(a, p, "sentry", 0, prompt)
  <2>4. a \in Beside(h, p) /\ a.players[p] = q
    BY <1>1, <2>1, <2>3, BesidePlayer
  <2>5. a \in Beside(g, p)
    BY <2>1, <2>4, BesideTwice DEF LocalTo
  <2>6. asked(h, q) \in Outcome(g)
    <3>1. asked(h, q) \in SentryOnPlay(g, p)
      <4> HIDE DEF asked
      <4> QED
        BY <1>2
    <3> QED
      BY <3>1, SentryOutcome
  <2>7. shown \in Seq(Cards) /\ (g.players[p].setAside = <<>> => shown = q.setAside)
    <3>1. q.setAside \in Seq(Cards) /\ h.players[p].setAside \in Seq(Cards)
          /\ h.players[p].setAside = g.players[p].setAside
      BY <2>1, <2>2, <2>3 DEF PlayerState, LocalTo
    <3>2. before(h) \in Nat /\ Len(q.setAside) \in Nat
          /\ (g.players[p].setAside = <<>> => before(h) = 0)
      BY <3>1
    <3>3. \A i \in (before(h) + 1)..Len(q.setAside) : q.setAside[i] \in Cards
      BY <3>1, <3>2
    <3> HIDE DEF before
    <3>4. shown \in Seq(Cards)
      BY <3>1, <3>2, <3>3
    <3>5. g.players[p].setAside = <<>> => shown = SubSeq(q.setAside, 1, Len(q.setAside))
      BY <3>2
    <3>6. SubSeq(q.setAside, 1, Len(q.setAside)) = q.setAside
      BY <3>1
    <3> QED
      BY <3>4, <3>5, <3>6
  <2>8. asked(h, q) = IF shown = <<>> THEN a ELSE k
    OBVIOUS
  <2> HIDE DEF a, shown, asked
  <2>9. prompt \in Prompts /\ prompt.shown = shown
    <3>1. prompt \in Prompts
      BY <2>7, PromptTypes
    <3> QED
      BY <3>1 DEF ShownPrompt, NoPrompt
  <2>10. "sentry" \in Askers /\ 0 \in 0..2
    BY DEF Askers
  <2>11. /\ a \in GameStates /\ a.err = g.err /\ a.pendingPlays = g.pendingPlays
         /\ a.decision = NoDecision
         /\ a.players[Opponent(p)] = g.players[Opponent(p)]
    BY <2>5 DEF Beside, Moved, Ready
  <2> HIDE DEF prompt
  <2>12. CASE shown = <<>>
    <3>1. a \in Outcome(g)
      BY <2>6, <2>8, <2>12
    <3>2. Spares(g, a)
      BY <1>1, <2>11, BesideSpares
    <3>3. g.players[p].setAside = <<>> => AsideShown(a, p)
      BY <2>4, <2>7, <2>12 DEF AsideShown
    <3> QED
      BY <2>8, <2>11, <2>12, <3>1, <3>2, <3>3 DEF Quiet, Gentle
  <2>13. CASE shown # <<>>
    <3>1. k \in Outcome(g)
      BY <2>6, <2>8, <2>13
    <3>2. /\ k.players = a.players /\ k.pendingPlays = a.pendingPlays
          /\ k.decision # NoDecision /\ k.decision.card = "sentry"
          /\ k.decision.player = p /\ k.decision.shown = prompt.shown
      BY <1>1, <2>9, <2>10, <2>11, AskedShape
    <3>3. k.err = a.err
      BY <2>11 DEF RequestDecision, GameStates
    <3> HIDE DEF k
    <3>4. Spares(g, k)
      BY <1>1, <2>11, <3>2, BesideSpares
    <3>5. g.players[p].setAside = <<>> => AsideShown(k, p)
      BY <2>4, <2>7, <2>9, <3>2 DEF AsideShown
    <3> QED
      BY <2>8, <2>11, <2>13, <3>1, <3>2, <3>3, <3>4, <3>5 DEF Quiet, Gentle
  <2> QED
    BY <2>12, <2>13
<1> HIDE DEF asked
<1> QED
  BY <1>2, <1>3

LEMMA PlainQuiet ==
  ASSUME NEW g, Ready(g), NEW c \in Plain \ {"council_room", "witch"}
  PROVE  OnPlay(g, g.current, c) \subseteq LocalTo(g, g.current)
<1> DEFINE p == g.current
<1>1. CASE c = "silver"
  BY <1>1, SilverLocal DEF OnPlay
<1>2. CASE c = "merchant"
  BY <1>2, MerchantLocal DEF OnPlay
<1>3. /\ Plus(g, p, 0, 0, 0, 1) \subseteq LocalTo(g, p)
      /\ Plus(g, p, 0, 0, 0, 3) \subseteq LocalTo(g, p)
      /\ Plus(g, p, 1, 2, 0, 0) \subseteq LocalTo(g, p)
      /\ Plus(g, p, 3, 0, 0, 0) \subseteq LocalTo(g, p)
      /\ Plus(g, p, 0, 2, 1, 2) \subseteq LocalTo(g, p)
      /\ Plus(g, p, 2, 1, 0, 0) \subseteq LocalTo(g, p)
      /\ Plus(g, p, 1, 1, 1, 1) \subseteq LocalTo(g, p)
      /\ Plus(g, p, 2, 0, 0, 0) \subseteq LocalTo(g, p)
  BY PlusLocal
<1>4. CASE c \notin {"silver", "merchant"}
  BY <1>3, <1>4 DEF OnPlay, Plain, CopperOnPlay, GoldOnPlay, VillageOnPlay, SmithyOnPlay,
     FestivalOnPlay, LaboratoryOnPlay, MarketOnPlay, MoatOnPlay
<1> QED
  BY <1>1, <1>2, <1>4

LEMMA OnPlayQuiet ==
  ASSUME NEW g, Ready(g), NEW c
  PROVE  OnPlay(g, g.current, c) \subseteq Quiet(g)
<1> DEFINE InHandOf ==
             {"cellar", "chapel", "moneylender", "poacher", "workshop", "artisan",
              "remodel", "mine", "harbinger", "throne_room"}
           Asking == {"council_room", "witch", "militia", "bureaucrat", "bandit",
                      "vassal", "library", "sentry"}
<1>1. CASE c \in Plain \ {"council_room", "witch"}
  BY <1>1, PlainQuiet, LocalQuiet
<1>2. CASE c = "council_room"
  BY <1>2, CouncilRoomQuiet DEF OnPlay
<1>3. CASE c = "witch"
  BY <1>3, WitchQuiet DEF OnPlay
<1>4. CASE c = "militia"
  BY <1>4, MilitiaQuiet DEF OnPlay
<1>5. CASE c = "bureaucrat"
  BY <1>5, BureaucratQuiet DEF OnPlay
<1>6. CASE c = "bandit"
  BY <1>6, BanditQuiet DEF OnPlay
<1>7. CASE c \in InHandOf
  BY <1>7, HandQuiet DEF OnPlay
<1>8. CASE c = "vassal"
  BY <1>8, VassalQuiet DEF OnPlay
<1>9. CASE c = "library"
  BY <1>9, LibraryQuiet DEF OnPlay
<1>10. CASE c = "sentry"
  BY <1>10, SentryQuiet DEF OnPlay
<1>11. CASE c \notin Plain /\ c \notin InHandOf /\ c \notin Asking
  <2>1. OnPlay(g, g.current, c) = {g}
    BY <1>11 DEF OnPlay, Plain
  <2> QED
    BY <2>1, LocalSelf, LocalQuiet DEF Ready
<1> QED
  BY <1>1, <1>2, <1>3, <1>4, <1>5, <1>6, <1>7, <1>8, <1>9, <1>10, <1>11

-----------------------------------------------------------------------------
(* Cards that other cards play.                                            *)

LEMMA InPlayTouches ==
  ASSUME NEW g \in GameStates, NEW c, NEW zone
  PROVE  LET h == InPlayFrom(g, c, zone)
         IN  /\ h.err = g.err /\ h.pendingPlays = g.pendingPlays
             /\ h.decision = g.decision
             /\ h.players[Opponent(g.current)] = g.players[Opponent(g.current)]
             /\ h.players[g.current].setAside = g.players[g.current].setAside
<1> DEFINE p == g.current
           q == g.players[p]
           r == IF zone = "hand"
                THEN [q EXCEPT !.hand = DropOne(@, c), !.inPlay = AddOne(@, c)]
                ELSE [q EXCEPT !.discard = DropOne(@, c), !.inPlay = AddOne(@, c)]
           h == InPlayFrom(g, c, zone)
<1>1. /\ p \in Players /\ q \in PlayerState
      /\ Opponent(p) \in Players /\ Opponent(p) # p
  BY PlayersFact
<1>2. h = [g EXCEPT !.players[p] = r]
  BY DEF InPlayFrom
<1>3. r.setAside = q.setAside
  <2> HIDE DEF q
  <2> QED
    BY <1>1 DEF PlayerState
<1> HIDE DEF q, r, h
<1>4. /\ h.players[p] = r /\ h.players[Opponent(p)] = g.players[Opponent(p)]
      /\ h.err = g.err /\ h.pendingPlays = g.pendingPlays /\ h.decision = g.decision
  BY <1>1, <1>2 DEF GameStates
<1> QED
  BY <1>3, <1>4 DEF h, q

LEMMA InPlayQuiet ==
  ASSUME NEW g, Ready(g), NEW c, NEW zone, Holds(g, c, zone)
  PROVE  LET h == InPlayFrom(g, c, zone)
         IN  Ready(h) /\ h \in Quiet(g) /\ h.current = g.current
<1> DEFINE p == g.current
           h == InPlayFrom(g, c, zone)
<1>1. Ready(h) /\ h \in Outcome(g) /\ h.current = p
  BY InPlayReady
<1>2. /\ h.err = g.err /\ h.pendingPlays = g.pendingPlays /\ h.decision = g.decision
      /\ h.players[Opponent(p)] = g.players[Opponent(p)]
      /\ h.players[p].setAside = g.players[p].setAside
  BY InPlayTouches DEF Ready
<1> HIDE DEF h
<1>3. Spares(g, h)
  BY <1>2, BesideSpares DEF Ready
<1>4. g.players[p].setAside = <<>> => AsideShown(h, p)
  BY <1>2 DEF AsideShown
<1> QED
  BY <1>1, <1>2, <1>3, <1>4 DEF Quiet, Gentle, h

LEMMA FailQuiet ==
  ASSUME NEW g, Ready(g)
  PROVE  /\ Fail(g) \in Outcome(g) /\ Spares(g, Fail(g)) /\ Fail(g).err
         /\ Fail(g).players = g.players /\ Fail(g).pendingPlays = g.pendingPlays
         /\ Fail(g).decision = NoDecision
<1>1. Fail(g) \in Outcome(g)
  BY FailMoves, MovedReady DEF Ready
<1>2. /\ Fail(g).players = g.players /\ Fail(g).pendingPlays = g.pendingPlays
      /\ Fail(g).decision = NoDecision /\ Fail(g).err
  BY DEF Ready, GameStates, Fail
<1> HIDE DEF Fail
<1>3. Spares(g, Fail(g))
  BY <1>2, BesideSpares DEF Ready
<1> QED
  BY <1>1, <1>2, <1>3

\* A card played from the hand or the discard pile, where it may not be.
LEMMA FromZoneQuiet ==
  ASSUME NEW g, Ready(g), NEW c, NEW zone
  PROVE  PlayCardFromZone(g, g.current, c, zone) \subseteq Quiet(g) \cup {Fail(g)}
<1> DEFINE h == InPlayFrom(g, c, zone)
<1>1. CASE Holds(g, c, zone)
  <2>1. PlayCardFromZone(g, g.current, c, zone) = OnPlay(h, g.current, c)
    BY <1>1 DEF PlayCardFromZone, PlayCardInPlace, InPlayFrom, Holds
  <2>2. Ready(h) /\ h \in Quiet(g) /\ h.current = g.current
    BY <1>1, InPlayQuiet
  <2> HIDE DEF h
  <2>3. h.decision = NoDecision
    BY <2>2 DEF Ready
  <2>4. OnPlay(h, g.current, c) \subseteq Quiet(h)
    BY <2>2, OnPlayQuiet
  <2> QED
    BY <2>1, <2>2, <2>3, <2>4, QuietTwice
<1>2. CASE ~Holds(g, c, zone)
  BY <1>2 DEF PlayCardFromZone, Holds
<1> QED
  BY <1>1, <1>2

-----------------------------------------------------------------------------
(***************************************************************************)
(* Answers.  Settled(g, d): what may come of an answer to decision d when  *)
(* it has just been cleared, in g.  The answer to a Library or a Sentry    *)
(* leaves no card set aside unseen, any other one as long as there was     *)
(* none.                                                                   *)
(***************************************************************************)
Sifts(d) == d.card \in {"library", "sentry"}

Settled(g, d) ==
  {h \in Outcome(g) :
     /\ h.err => h.decision = NoDecision
     /\ (Sifts(d) \/ g.players[g.current].setAside = <<>>) /\ ~h.err =>
          AsideShown(h, g.current)
     /\ MoatHeld(g) /\ d.player = g.current => Spares(g, h)}

LEMMA FailSettles ==
  ASSUME NEW g, Ready(g), NEW d
  PROVE  Fail(g) \in Settled(g, d)
BY FailQuiet DEF Settled

LEMMA GentleSettles ==
  ASSUME NEW g, Ready(g), ~g.err, NEW d, ~Sifts(d), NEW h \in Gentle(g)
  PROVE  h \in Settled(g, d)
BY DEF Gentle, Settled

\* Whether the player who answers is the current one or the victim.
LEMMA LocalSettles ==
  ASSUME NEW g, Ready(g), ~g.err, NEW d, ~Sifts(d), d.player \in Players,
         NEW h \in LocalTo(g, d.player)
  PROVE  h \in Settled(g, d)
<1> DEFINE p == d.player
<1>1. CASE p = g.current
  BY <1>1, LocalQuiet, GentleSettles DEF Quiet
<1>2. CASE p # g.current
  <2>1. Opponent(p) = g.current
    BY <1>2, PlayersFact DEF Ready
  <2>2. h \in Moved(g) /\ h.err = g.err /\ h.players[g.current] = g.players[g.current]
    BY <2>1 DEF LocalTo, Beside
  <2>3. h \in Outcome(g)
    BY <2>2, MovedReady
  <2> QED
    BY <1>2, <2>2, <2>3 DEF Settled, AsideShown
<1> QED
  BY <1>1, <1>2

LEMMA AskedSettles ==
  ASSUME NEW g, Ready(g), ~g.err, NEW d, ~Sifts(d), NEW h \in LocalTo(g, g.current),
         NEW c \in Askers \ {"library"}, NEW s \in 0..2, NEW prompt \in Prompts
  PROVE  RequestDecision(h, g.current, c, s, prompt) \in Settled(g, d)
BY LocalAsked, GentleSettles DEF Quiet

\* The cards a player discards, trashes, puts on the deck or gains.
LEMMA HandSettles ==
  ASSUME NEW g, Ready(g), ~g.err, NEW d, ~Sifts(d), NEW p \in Players, p = d.player,
         NEW answer
  PROVE  /\ answer.list \in Bag =>
              /\ MilitiaOnResolve(g, p, answer) \subseteq Settled(g, d)
              /\ CellarOnResolve(g, p, answer) \subseteq Settled(g, d)
              /\ ChapelOnResolve(g, p, answer) \subseteq Settled(g, d)
              /\ PoacherOnResolve(g, p, answer) \subseteq Settled(g, d)
              /\ p = g.current =>
                   MoneylenderOnResolve(g, p, answer) \subseteq Settled(g, d)
         /\ BureaucratOnResolve(g, p, answer) \subseteq Settled(g, d)
<1>1. g \in GameStates /\ Fail(g) \in Settled(g, d) /\ g \in Settled(g, d)
  BY FailSettles, LocalSelf, LocalSettles DEF Ready
<1>2. ASSUME NEW list \in Bag
      PROVE  /\ DiscardFromHand(g, p, list) \in Settled(g, d)
             /\ TrashFromHand(g, p, list) \in Settled(g, d)
  BY <1>1, DiscardFromHandLocal, TrashFromHandLocal, LocalSettles
<1>3. \A c : PutOnDeck(g, p, c) \in Settled(g, d)
  BY <1>1, PutOnDeckLocal, LocalSettles
<1>4. ASSUME answer.list \in Bag
      PROVE  CellarOnResolve(g, p, answer) \subseteq Settled(g, d)
  <2> DEFINE h == DiscardFromHand(g, p, answer.list)
  <2>1. h \in LocalTo(g, p) /\ h \in GameStates /\ Size(answer.list) \in Nat
    BY <1>1, <1>4, DiscardFromHandLocal, LocalTypes, SizeIsNat
  <2>2. CellarOnResolve(g, p, answer)
          = WithPlayer(h, p, DrawCards(h.players[p], Size(answer.list)))
    BY DEF CellarOnResolve
  <2> HIDE DEF h
  <2> QED
    BY <2>1, <2>2, DrawLocal, LocalTwice, LocalSettles
<1>5. ASSUME answer.list \in Bag, p = g.current
      PROVE  MoneylenderOnResolve(g, p, answer) \subseteq Settled(g, d)
  <2> DEFINE h == TrashFromHand(g, p, answer.list)
  <2>1. h \in LocalTo(g, p) /\ h \in GameStates /\ h.current = p
    BY <1>1, <1>5, TrashFromHandLocal, LocalTypes
  <2>2. MoneylenderOnResolve(g, p, answer)
          = {IF answer.list = EmptyBag THEN g ELSE AddResources(h, p, 0, 0, 3)}
    BY DEF MoneylenderOnResolve
  <2> HIDE DEF h
  <2>3. AddResources(h, p, 0, 0, 3) \in LocalTo(h, p)
    BY <2>1, AddResourcesLocal
  <2>4. AddResources(h, p, 0, 0, 3) \in Settled(g, d)
    BY <2>1, <2>3, LocalTwice, LocalSettles
  <2> QED
    BY <1>1, <2>2, <2>4
<1>6. BureaucratOnResolve(g, p, answer) \subseteq Settled(g, d)
  BY <1>1, <1>3 DEF BureaucratOnResolve
<1> QED
  BY <1>1, <1>2, <1>4, <1>5, <1>6
     DEF MilitiaOnResolve, ChapelOnResolve, PoacherOnResolve

LEMMA BanditSettles ==
  ASSUME NEW g, Ready(g), ~g.err, NEW d \in Decision, ~Sifts(d), NEW p \in Players,
         p = d.player, NEW answer
  PROVE  BanditOnResolve(g, p, d, answer) \subseteq Settled(g, d)
<1>1. d.shown \in Seq(Cards)
  BY DEF Decision
<1>2. CASE InSeq(answer.choice, d.shown) /\ IsNonCopperTreasure(answer.choice)
  <2>1. answer.choice \in Cards
    BY <1>1, <1>2, IndexOfFinds
  <2>2. BanditTake(g, p, answer.choice, d.shown) \in Settled(g, d)
    BY <1>1, <2>1, BanditTakeLocal, LocalSettles DEF Ready
  <2> QED
    BY <1>2, <2>2 DEF BanditOnResolve
<1>3. CASE ~(InSeq(answer.choice, d.shown) /\ IsNonCopperTreasure(answer.choice))
  BY <1>3, FailSettles DEF BanditOnResolve
<1> QED
  BY <1>2, <1>3

LEMMA TrashAndAsk ==
  ASSUME NEW g, Ready(g), ~g.err, NEW d, ~Sifts(d), NEW list \in Bag,
         NEW c \in Cards, NEW n \in Nat, NEW x \in {"remodel", "mine"}
  PROVE  RequestDecision(TrashFromHand(g, g.current, list), g.current, x, 1,
                         GainPrompt(Cost[c] + n)) \in Settled(g, d)
<1>1. TrashFromHand(g, g.current, list) \in LocalTo(g, g.current)
  BY TrashFromHandLocal, PlayersFact DEF Ready
<1>2. Cost[c] + n \in Nat
  <2>1. Cost[c] \in Nat
    BY CostIsNat, CardsAssumption
  <2> QED
    BY <2>1
<1>3. GainPrompt(Cost[c] + n) \in Prompts
  BY <1>2, PromptTypes
<1>4. x \in Askers \ {"library"} /\ 1 \in 0..2
  BY DEF Askers
<1> QED
  BY <1>1, <1>3, <1>4, AskedSettles

\* Answers that gain a card, at once or after a second question.
LEMMA GainSettles ==
  ASSUME NEW g, Ready(g), ~g.err, NEW d, ~Sifts(d), d.player = g.current, NEW answer
  PROVE  LET p == g.current
         IN  /\ WorkshopOnResolve(g, p, d, answer) \subseteq Settled(g, d)
             /\ ArtisanOnResolve(g, p, d, answer) \subseteq Settled(g, d)
             /\ (d.step = 0 => answer.list \in Bag) =>
                  /\ RemodelOnResolve(g, p, d, answer) \subseteq Settled(g, d)
                  /\ MineOnResolve(g, p, d, answer) \subseteq Settled(g, d)
<1> DEFINE p == g.current
<1>1. /\ p \in Players /\ g \in GameStates /\ Fail(g) \in Settled(g, d)
      /\ g \in Settled(g, d)
  BY FailSettles, LocalSelf, LocalSettles, PlayersFact DEF Ready
<1>2. \A c : /\ GainCard(g, p, c, "hand") \in LocalTo(g, p)
             /\ GainCard(g, p, c, "hand") \in Settled(g, d)
             /\ GainCard(g, p, c, "discard") \in Settled(g, d)
             /\ PutOnDeck(g, p, c) \in Settled(g, d)
  BY <1>1, GainCardLocal, PutOnDeckLocal, LocalSettles
<1>3. RequestDecision(GainCard(g, p, answer.choice, "hand"), p, "artisan", 1,
                      HandPrompt(1, 1)) \in Settled(g, d)
  <2>1. "artisan" \in Askers \ {"library"} /\ 1 \in 0..2 /\ HandPrompt(1, 1) \in Prompts
    BY PromptTypes DEF Askers
  <2> QED
    BY <1>2, <2>1, AskedSettles
<1>4. ASSUME NEW list \in Bag, NEW c \in Cards
      PROVE  /\ RequestDecision(TrashFromHand(g, p, list), p, "remodel", 1,
                                GainPrompt(Cost[c] + 2)) \in Settled(g, d)
             /\ RequestDecision(TrashFromHand(g, p, list), p, "mine", 1,
                                GainPrompt(Cost[c] + 3)) \in Settled(g, d)
  BY TrashAndAsk
<1> HIDE DEF p
<1>5. ArtisanOnResolve(g, p, d, answer) \subseteq Settled(g, d)
  BY <1>1, <1>2, <1>3 DEF ArtisanOnResolve
<1>6. ASSUME d.step = 0 => answer.list \in Bag
      PROVE  RemodelOnResolve(g, p, d, answer) \subseteq Settled(g, d)
  BY <1>1, <1>2, <1>4, <1>6 DEF RemodelOnResolve
<1>7. ASSUME d.step = 0 => answer.list \in Bag
      PROVE  MineOnResolve(g, p, d, answer) \subseteq Settled(g, d)
  BY <1>1, <1>2, <1>4, <1>7 DEF MineOnResolve
<1>8. WorkshopOnResolve(g, p, d, answer) \subseteq Settled(g, d)
  BY <1>1, <1>2 DEF WorkshopOnResolve
<1> QED
  BY <1>5, <1>6, <1>7, <1>8 DEF p

LEMMA HarbingerSettles ==
  ASSUME NEW g, Ready(g), ~g.err, NEW d, ~Sifts(d), d.player = g.current, NEW answer
  PROVE  HarbingerOnResolve(g, g.current, answer) \subseteq Settled(g, d)
<1> DEFINE p == g.current
           q == g.players[p]
           x == answer.choice
           k == [g EXCEPT !.players[p].discard = DropOne(@, x),
                          !.players[p].top = Append(@, x)]
<1>1. /\ p \in Players /\ q \in PlayerState /\ g \in GameStates
      /\ Opponent(p) \in Players /\ Opponent(p) # p
  BY PlayersFact DEF Ready
<1>2. /\ k.err = g.err /\ k.decision = g.decision
      /\ k.players[Opponent(p)] = g.players[Opponent(p)]
      /\ k.players[p].setAside = q.setAside
  <2> HIDE DEF x
  <2> QED
    BY <1>1 DEF GameStates, PlayerState
<1>3. g \in Settled(g, d)
  BY <1>1, LocalSelf, LocalSettles
<1> HIDE DEF k, x
<1>4. HarbingerOnResolve(g, p, answer)
        = {IF x \in Cards /\ q.discard[x] > 0 THEN k ELSE g}
  BY DEF HarbingerOnResolve, k, x
<1>5. CASE x \in Cards /\ q.discard[x] > 0
  <2>1. k \in Outcome(g)
    BY <1>4, <1>5, HarbingerResolved
  <2>2. Spares(g, k)
    BY <1>1, <1>2, BesideSpares DEF Ready
  <2>3. k \in Settled(g, d)
    BY <1>2, <2>1, <2>2 DEF Settled, AsideShown
  <2> QED
    BY <1>4, <1>5, <2>3
<1>6. CASE ~(x \in Cards /\ q.discard[x] > 0)
  BY <1>3, <1>4, <1>6
<1> QED
  BY <1>5, <1>6

LEMMA VassalSettles ==
  ASSUME NEW g, Ready(g), ~g.err, NEW d, ~Sifts(d), d.player = g.current, NEW answer
  PROVE  VassalOnResolve(g, g.current, d, answer) \subseteq Settled(g, d)
<1>1. g \in Settled(g, d)
  BY LocalSelf, LocalSettles, PlayersFact DEF Ready
<1>2. PlayCardFromZone(g, g.current, d.shown[1], "discard")
        \subseteq Settled(g, d)
  BY FromZoneQuiet, FailSettles, GentleSettles DEF Quiet
<1> QED
  BY <1>1, <1>2 DEF VassalOnResolve

\* The card a Throne Room doubles is played as any other.
LEMMA ThroneRoomSettles ==
  ASSUME NEW g, Ready(g), ~g.err, NEW d, ~Sifts(d), d.player = g.current, NEW answer
  PROVE  ThroneRoomOnResolve(g, g.current, answer) \subseteq Settled(g, d)
<1> DEFINE p == g.current
           c == answer.choice
           queued == [g EXCEPT !.pendingPlays = Append(@, [player |-> p, card |-> c])]
           h == Doubled(g, c)
<1>1. CASE ~InHand(g, p, c)
  BY <1>1, FromZoneQuiet, FailSettles, GentleSettles DEF ThroneRoomOnResolve, Quiet
<1>2. CASE InHand(g, p, c)
  <2>1. /\ Ready(h) /\ h \in Outcome(g) /\ h.current = p
        /\ ThroneRoomOnResolve(g, p, answer) = OnPlay(h, p, c)
    BY <1>2, DoubledReady
  <2>2. g \in GameStates /\ p \in Players /\ c \in Cards
        /\ [player |-> p, card |-> c] \in PendingPlay
    BY <1>2, PlayersFact DEF Ready, InHand, PendingPlay
  <2>3. /\ queued \in GameStates /\ queued.players = g.players /\ queued.current = p
        /\ queued.err = g.err
    <3>1. Append(g.pendingPlays, [player |-> p, card |-> c]) \in Seq(PendingPlay)
      BY <2>2 DEF GameStates
    <3> QED
      BY <2>2, <3>1 DEF GameStates
  <2>4. h = InPlayFrom(queued, c, "hand")
    BY DEF Doubled
  <2> HIDE DEF queued, h
  <2>5. /\ h.err = g.err /\ h.players[Opponent(p)] = g.players[Opponent(p)]
        /\ h.players[p].setAside = g.players[p].setAside
    BY <2>3, <2>4, InPlayTouches
  <2>6. h.decision = NoDecision
    BY <2>1 DEF Ready
  <2>7. Spares(g, h)
    BY <2>2, <2>5, <2>6, BesideSpares
  <2>8. h \in Gentle(g)
    BY <2>1, <2>5, <2>7 DEF Gentle, AsideShown
  <2>9. OnPlay(h, p, c) \subseteq Gentle(g)
    BY <2>1, <2>6, <2>8, OnPlayQuiet, GentleTwice DEF Quiet
  <2> QED
    BY <2>1, <2>9, GentleSettles
<1> QED
  BY <1>1, <1>2

LEMMA KeptBeside ==
  ASSUME NEW g \in GameStates, NEW x, InSeq(x, g.players[g.current].setAside)
  PROVE  Kept(g, x) \in Beside(g, g.current)
<1>1. Kept(g, x) \in Moved(g)
  BY KeptMoves
<1>2. /\ Kept(g, x).err = g.err
      /\ Kept(g, x).players[Opponent(g.current)] = g.players[Opponent(g.current)]
  BY PlayersFact DEF Kept, GameStates
<1> QED
  BY <1>1, <1>2 DEF Beside

\* Whatever was set aside before, a Library shows the last card of it or has
\* none left.
LEMMA LibrarySettles ==
  ASSUME NEW g, Ready(g), ~g.err, NEW d, d.player = g.current, NEW answer,
         InSeq(d.shown[1], g.players[g.current].setAside)
  PROVE  LibraryOnResolve(g, g.current, d, answer) \subseteq Settled(g, d)
<1> DEFINE p == g.current
           kept == Kept(g, d.shown[1])
           from == IF answer.yes THEN g ELSE kept
<1>1. g \in Beside(g, p) /\ kept \in Beside(g, p)
  BY KeptBeside, LocalSelf DEF LocalTo, Ready
<1>2. LibraryOnResolve(g, p, d, answer) = LibraryStep(from, p)
  BY DEF LibraryOnResolve, Kept
<1>3. from \in Beside(g, p)
  BY <1>1
<1> HIDE DEF from
<1>4. /\ Ready(from) /\ from.current = p /\ from.err = g.err
      /\ from.players[Opponent(p)] = g.players[Opponent(p)]
  BY <1>3, BesideBrowsed DEF Beside
<1>5. ASSUME NEW k \in LibraryStep(from, p)
      PROVE  k \in Settled(g, d)
  <2>1. k \in Browsed(from) /\ AsideShown(k, p)
    BY <1>4, LibraryBrowses
  <2>2. k \in Outcome(g)
    BY <1>2, LibraryResolved
  <2>3. /\ ~k.err /\ k.players[Opponent(p)] = g.players[Opponent(p)]
        /\ k.decision # NoDecision => k.decision.player = p
    BY <1>4, <2>1 DEF Browsed
  <2>4. Spares(g, k)
    BY <2>3, BesideSpares DEF Ready
  <2> QED
    BY <2>1, <2>2, <2>3, <2>4 DEF Settled
<1> QED
  BY <1>2, <1>5

LEMMA SentryMoveWaits ==
  ASSUME NEW g \in GameStates, NEW x, NEW step \in 0..2
  PROVE  SentryMove(g, g.current, x, step).players[Opponent(g.current)]
           = g.players[Opponent(g.current)]
<1> DEFINE p == g.current
           out == [g EXCEPT !.players[p].setAside = WithoutCard(@, x)]
<1>1. /\ p \in Players /\ Opponent(p) \in Players /\ Opponent(p) # p
      /\ DOMAIN g.players = Players
  BY PlayersFact DEF GameStates
<1>2. /\ out.players[Opponent(p)] = g.players[Opponent(p)]
      /\ DOMAIN out.players = Players /\ "players" \in DOMAIN out
      /\ DOMAIN out = DOMAIN g
  BY <1>1 DEF GameStates
<1>3. Fail(g).players = g.players
  BY DEF Fail, GameStates
<1>4. SentryMove(g, p, x, step) \in
        {g, Fail(g), [out EXCEPT !.trash = AddOne(@, x)],
         [out EXCEPT !.players[p].discard = AddOne(@, x)],
         [out EXCEPT !.players[p].top = Append(@, x)]}
  BY DEF SentryMove
<1> HIDE DEF out
<1>5. /\ [out EXCEPT !.trash = AddOne(@, x)].players[Opponent(p)]
           = g.players[Opponent(p)]
      /\ [out EXCEPT !.players[p].discard = AddOne(@, x)].players[Opponent(p)]
           = g.players[Opponent(p)]
      /\ [out EXCEPT !.players[p].top = Append(@, x)].players[Opponent(p)]
           = g.players[Opponent(p)]
  BY <1>1, <1>2
<1> QED
  BY <1>3, <1>4, <1>5

LEMMA SentryMovesWait ==
  ASSUME NEW g \in GameStates, NEW names \in Seq(Cards \cup {NoCard}),
         NEW step \in 0..2
  PROVE  SentryMoves(g, g.current, names, step).players[Opponent(g.current)]
           = g.players[Opponent(g.current)]
<1> DEFINE v == Opponent(g.current)
           S == {h \in Moved(g) : h.players[v] = g.players[v]}
<1>1. g \in S
  BY MovedSelf
<1>2. ASSUME NEW h \in S, NEW x PROVE SentryMove(h, g.current, x, step) \in S
  <2>1. h \in GameStates /\ h.current = g.current
    BY DEF Moved, SameTurn
  <2>2. SentryMove(h, g.current, x, step) \in Moved(g)
    BY <2>1, SentryMoveMoves, MovedTwice
  <2>3. SentryMove(h, g.current, x, step).players[v] = h.players[v]
    BY <2>1, SentryMoveWaits
  <2> QED
    BY <2>2, <2>3
<1> HIDE DEF S
<1>3. SentryMoves(g, g.current, names, step) \in S
  BY <1>1, <1>2, SentryMovesStay
<1> QED
  BY <1>3 DEF S

LEMMA SetAsideToDeckBeside ==
  ASSUME NEW g \in GameStates
  PROVE  /\ SetAsideToDeck(g, g.current) \in Beside(g, g.current)
         /\ SetAsideToDeck(g, g.current).players[g.current].setAside = <<>>
<1> DEFINE p == g.current
           q == g.players[p]
           t == q.top \o q.setAside
           r == [q EXCEPT !.top = t, !.setAside = <<>>]
<1>1. /\ SetAsideToDeck(g, p) \in Moved(g) /\ p \in Players /\ q \in PlayerState
      /\ Opponent(p) \in Players /\ Opponent(p) # p
  BY SetAsideToDeckMoves, PlayersFact
<1>2. SetAsideToDeck(g, p) = [g EXCEPT !.players[p] = r]
  BY <1>1 DEF SetAsideToDeck, GameStates
<1>3. r.setAside = <<>>
  <2> HIDE DEF q, t
  <2> QED
    BY <1>1 DEF PlayerState
<1> HIDE DEF q, r
<1>4. /\ SetAsideToDeck(g, p).players[p] = r /\ SetAsideToDeck(g, p).err = g.err
      /\ SetAsideToDeck(g, p).players[Opponent(p)] = g.players[Opponent(p)]
  BY <1>1, <1>2 DEF GameStates
<1> QED
  BY <1>1, <1>3, <1>4 DEF Beside

\* A Sentry goes on showing what it has not moved yet, and puts the rest back.
LEMMA SentrySettles ==
  ASSUME NEW g, Ready(g), NEW d \in Decision, d.player = g.current, NEW answer,
         answer.order \in Seq(Cards \cup {NoCard})
  PROVE  SentryOnResolve(g, g.current, d, answer) \subseteq Settled(g, d)
<1> DEFINE p == g.current
           v == Opponent(p)
           h == SentryMoves(g, p, answer.order, d.step)
           left == h.players[p].setAside
           back == SetAsideToDeck(h, p)
           asked == RequestDecision(h, p, "sentry", d.step + 1, ShownPrompt(left))
           k == IF h.err THEN h
                ELSE IF d.step = 2 THEN back
                ELSE SentryAdvance(h, p, d.step)
<1>1. d.step \in 0..2 /\ g \in GameStates /\ p \in Players
  BY PlayersFact DEF Decision, Ready
<1>2. h \in Moved(g) /\ h.players[v] = g.players[v]
  BY <1>1, SentryMovesMoves, SentryMovesWait
<1>3. h \in GameStates /\ h.current = p /\ h.decision = NoDecision
  BY <1>2 DEF Moved, SameTurn, Ready
<1>4. SentryOnResolve(g, p, d, answer) = {k}
  BY DEF SentryOnResolve
<1>5. k \in Outcome(g)
  BY <1>4, SentryResolved
<1>6. SentryAdvance(h, p, d.step) =
        IF left = <<>> THEN h
        ELSE IF d.step = 1 /\ Len(left) = 1 THEN back ELSE asked
  BY DEF SentryAdvance
<1>7. left \in Seq(Cards)
  BY <1>1, <1>3, PlayersFact DEF PlayerState
<1> HIDE DEF h
<1>8. back \in Beside(h, p) /\ back.players[p].setAside = <<>>
  BY <1>3, SetAsideToDeckBeside
<1> HIDE DEF back
<1>9. CASE k = h /\ (h.err \/ left = <<>>)
  <2>1. Spares(g, h)
    BY <1>1, <1>2, <1>3, BesideSpares
  <2> QED
    BY <1>3, <1>4, <1>5, <1>9, <2>1 DEF Settled, AsideShown
<1>10. CASE k = back /\ ~h.err
  <2>1. ~back.err /\ back.players[v] = g.players[v] /\ back.decision = NoDecision
    BY <1>2, <1>3, <1>8, <1>10 DEF Beside, Moved
  <2>2. Spares(g, back)
    BY <1>1, <2>1, BesideSpares
  <2> QED
    BY <1>4, <1>5, <1>8, <1>10, <2>1, <2>2 DEF Settled, AsideShown
<1>11. CASE k = asked /\ ~h.err /\ d.step # 2
  <2> HIDE DEF left, k
  <2>1. ShownPrompt(left) \in Prompts /\ ShownPrompt(left).shown = left
    <3>1. ShownPrompt(left) \in Prompts
      BY <1>7, PromptTypes
    <3> QED
      BY <3>1 DEF ShownPrompt, NoPrompt
  <2>2. d.step + 1 \in 0..2 /\ "sentry" \in Askers
    BY <1>1, <1>11 DEF Askers
  <2> DEFINE prompt == ShownPrompt(left)
             s == d.step + 1
  <2> HIDE DEF prompt, s
  <2>3. /\ asked.players = h.players
        /\ asked.decision # NoDecision /\ asked.decision.card = "sentry"
        /\ asked.decision.player = p /\ asked.decision.shown = prompt.shown
    BY <1>1, <1>3, <2>1, <2>2, AskedShape DEF prompt, s
  <2>4. asked.err = h.err
    BY <1>3 DEF RequestDecision, GameStates
  <2> HIDE DEF asked
  <2>5. Spares(g, asked)
    BY <1>1, <1>2, <2>3, BesideSpares
  <2>6. AsideShown(asked, p)
    BY <2>1, <2>3 DEF AsideShown, left, prompt
  <2>7. asked \in Settled(g, d)
    BY <1>5, <1>11, <2>4, <2>5, <2>6 DEF Settled
  <2> QED
    BY <1>4, <1>11, <2>7
<1> QED
  BY <1>6, <1>9, <1>10, <1>11

\* Any answer to any question: what is set aside is still shown, and a Moat
\* still protects.
LEMMA OnResolveSettles ==
  ASSUME NEW g, Ready(g), ~g.err, NEW d \in Decision, NEW answer,
         d.card \in AttackAskers \/ d.player = g.current,
         d.card = "library" => InSeq(d.shown[1], g.players[d.player].setAside),
         ListPrompt(d) => answer.list \in Bag,
         d.card = "sentry" => answer.order \in Seq(Cards \cup {NoCard})
  PROVE  OnResolve(g, d, answer) \subseteq Settled(g, d)
<1> DEFINE p == d.player
<1>1. p \in Players /\ d.card \in Askers /\ (d.card \notin AttackAskers => p = g.current)
  BY DEF Decision
<1>2. CASE d.card \in {"militia", "bureaucrat"}
  BY <1>2, <1>1, HandSettles DEF OnResolve, Sifts, ListPrompt
<1>3. CASE d.card = "bandit"
  BY <1>3, <1>1, BanditSettles DEF OnResolve, Sifts
<1>4. CASE d.card \in {"cellar", "chapel", "poacher", "moneylender"}
  BY <1>4, <1>1, HandSettles DEF OnResolve, Sifts, ListPrompt, AttackAskers
<1>5. CASE d.card \in {"workshop", "artisan", "remodel", "mine"}
  BY <1>5, <1>1, GainSettles DEF OnResolve, Sifts, ListPrompt, AttackAskers
<1>6. CASE d.card = "harbinger"
  BY <1>6, <1>1, HarbingerSettles DEF OnResolve, Sifts, AttackAskers
<1>7. CASE d.card = "vassal"
  BY <1>7, <1>1, VassalSettles DEF OnResolve, Sifts, AttackAskers
<1>8. CASE d.card = "library"
  BY <1>8, <1>1, LibrarySettles DEF OnResolve, AttackAskers
<1>9. CASE d.card = "sentry"
  BY <1>9, <1>1, SentrySettles DEF OnResolve, AttackAskers
<1>10. CASE d.card = "throne_room"
  BY <1>10, <1>1, ThroneRoomSettles DEF OnResolve, Sifts, AttackAskers
<1> QED
  BY <1>1, <1>2, <1>3, <1>4, <1>5, <1>6, <1>7, <1>8, <1>9, <1>10 DEF Askers

-----------------------------------------------------------------------------
(* The replays made after an answer.                                       *)

LEMMA UnwindOneGentle ==
  ASSUME NEW g, Ready(g), NEW k \in UnwindOne(g)
  PROVE  /\ k \in Gentle(g)
         /\ Len(g.pendingPlays) # 0 =>
              Len(k.pendingPlays) = Len(g.pendingPlays) - 1
<1> DEFINE h == [g EXCEPT !.pendingPlays = Front(@)]
<1>1. CASE Len(g.pendingPlays) = 0
  <2>1. k = g
    BY <1>1 DEF UnwindOne
  <2>2. g \in Gentle(g)
    BY LocalSelf, LocalQuiet DEF Quiet, Ready
  <2> QED
    BY <1>1, <2>1, <2>2
<1>2. CASE Len(g.pendingPlays) # 0
  <2>1. /\ Ready(h) /\ h.current = g.current /\ h \in Outcome(g)
        /\ h.players = g.players /\ h.err = g.err
        /\ Len(h.pendingPlays) = Len(g.pendingPlays) - 1
        /\ \E c : UnwindOne(g) = OnPlay(h, g.current, c)
    BY <1>2, UnwindOnePlays
  <2> HIDE DEF h
  <2>2. PICK c : UnwindOne(g) = OnPlay(h, g.current, c)
    BY <2>1
  <2>3. h.decision = NoDecision /\ k \in Quiet(h)
    BY <2>1, <2>2, OnPlayQuiet DEF Ready
  <2>4. Spares(g, h)
    BY <2>1, <2>3, BesideSpares DEF Ready
  <2>5. h \in Gentle(g)
    BY <2>1, <2>4 DEF Gentle, AsideShown
  <2> QED
    BY <2>1, <2>3, <2>5, GentleTwice DEF Quiet
<1> QED
  BY <1>1, <1>2

LEMMA SettledTwice ==
  ASSUME NEW g, Ready(g), NEW d, NEW h \in Settled(g, d), ~h.err,
         h.decision = NoDecision, NEW k \in Gentle(h)
  PROVE  Ready(h) /\ k \in Settled(g, d) /\ ~k.err
<1>1. Ready(h) /\ k \in Outcome(g) /\ k.err = h.err
  BY OutcomeTwice DEF Gentle, Settled
<1>2. g \in GameStates /\ h \in GameStates /\ k \in GameStates /\ h.current = g.current
  BY <1>1, OutcomeTypes DEF Ready, Settled
<1>3. MoatHeld(g) /\ d.player = g.current => Spares(g, k)
  BY <1>2, MoatStays, SparesTwice DEF Gentle, Settled
<1>4. Sifts(d) \/ g.players[g.current].setAside = <<>> =>
        h.players[g.current].setAside = <<>>
  BY DEF Settled, AsideShown
<1>5. Sifts(d) \/ g.players[g.current].setAside = <<>> => AsideShown(k, g.current)
  BY <1>2, <1>4 DEF Gentle
<1> QED
  BY <1>1, <1>3, <1>5 DEF Settled

\* The unwinding leaves a replay owed only behind a decision.
LEMMA UnwindSettles ==
  ASSUME NEW g, Ready(g), NEW d, NEW a \in Settled(g, d), ~a.err, NEW k \in Unwind(a)
  PROVE  /\ k \in Settled(g, d) /\ ~k.err
         /\ k.decision # NoDecision \/ k.pendingPlays = <<>>
<1> DEFINE n == Len(a.pendingPlays)
           U == {h \in Settled(g, d) : ~h.err}
           S == [i \in 0..n |-> {h \in U : \/ h.decision # NoDecision
                                           \/ Len(h.pendingPlays) = n - i}]
<1>1. a.pendingPlays \in Seq(PendingPlay) /\ n \in Nat /\ a \in U
  BY OutcomeTypes DEF Settled, GameStates
<1>2. ASSUME NEW h \in U, NEW x \in UnwindOne(h)
      PROVE  /\ x \in U
             /\ h.decision # NoDecision => x = h
             /\ h.decision = NoDecision /\ Len(h.pendingPlays) # 0 =>
                  Len(x.pendingPlays) = Len(h.pendingPlays) - 1
  <2>1. CASE h.decision # NoDecision
    BY <1>2, <2>1 DEF UnwindOne
  <2>2. CASE h.decision = NoDecision
    <3>1. Ready(h)
      <4>1. g \in Gentle(g)
        BY LocalSelf, LocalQuiet DEF Quiet, Ready
      <4>2. h \in Outcome(g)
        BY DEF Settled
      <4> QED
        BY <2>2, <4>2 DEF Ready, Outcome
    <3>2. x \in Gentle(h)
          /\ (Len(h.pendingPlays) # 0 => Len(x.pendingPlays) = Len(h.pendingPlays) - 1)
      BY <1>2, <3>1, UnwindOneGentle
    <3> QED
      BY <2>2, <3>2, SettledTwice
  <2> QED
    BY <2>1, <2>2
<1> HIDE DEF U, n
<1>3. S \in [0..n -> SUBSET U] /\ a \in S[0]
  BY <1>1 DEF n
<1>4. ASSUME NEW i \in 0..(n - 1), NEW h \in S[i], NEW x \in UnwindOne(h)
      PROVE  x \in S[i + 1]
  <2>1. i \in 0..n /\ i + 1 \in 0..n /\ n - i \in Nat \ {0} /\ (n - i) - 1 = n - (i + 1)
    BY <1>1
  <2>2. h \in U /\ (h.decision # NoDecision \/ Len(h.pendingPlays) = n - i)
    BY <2>1
  <2>3. x \in U /\ (x.decision # NoDecision \/ Len(x.pendingPlays) = n - (i + 1))
    BY <1>2, <1>4, <2>1, <2>2
  <2> QED
    BY <2>1, <2>3
<1>5. n \in 0..n /\ n - n = 0
  BY <1>1
<1>6. S[n] = {h \in U : h.decision # NoDecision \/ Len(h.pendingPlays) = 0}
  BY <1>5
<1> HIDE DEF S
<1>7. Unwind(a) \subseteq S[Len(a.pendingPlays)]
  <2>1. S \in [0..Len(a.pendingPlays) -> SUBSET U]
    BY <1>3 DEF n
  <2>2. \A i \in 0..(Len(a.pendingPlays) - 1) :
          \A h \in S[i] : UnwindOne(h) \subseteq S[i + 1]
    BY <1>4 DEF n
  <2>3. \A h \in U : UnwindOne(h) \subseteq U
    BY <1>2
  <2> QED
    BY <1>1, <1>3, <2>1, <2>2, <2>3, UnwindRounds
<1>8. k \in U /\ (k.decision # NoDecision \/ Len(k.pendingPlays) = 0)
  BY <1>6, <1>7 DEF n
<1>9. Len(k.pendingPlays) = 0 => k.pendingPlays = <<>>
  BY <1>8, OutcomeTypes DEF U, Settled, GameStates
<1> QED
  BY <1>8, <1>9 DEF U

-----------------------------------------------------------------------------
(***************************************************************************)
(* One call of Apply.                                                      *)
(***************************************************************************)

\* The player who waits with a Moat, and is not being asked, is spared.
Protected(g, h) ==
  /\ MoatHeld(g) /\ h.current = g.current
  /\ g.decision # NoDecision => g.decision.player # Opponent(g.current)
  => Spares(g, h)

\* Replays owed and cards set aside wait for an answer.
Orderly(g) ==
  /\ g.pendingPlays # <<>> => g.decision # NoDecision
  /\ AsideShown(g, g.current)

\* No answer was taken that was then rejected.
KeptItsDecision(g, h) == h.err => h.decision = g.decision

Guarded(g, h) ==
  /\ Protected(g, h)
  /\ Orderly(g) /\ KeptItsDecision(g, h) => Orderly(h)

LEMMA FailGuarded ==
  ASSUME NEW g \in GameStates
  PROVE  Guarded(g, Fail(g))
<1>1. /\ Fail(g).players = g.players /\ Fail(g).pendingPlays = g.pendingPlays
      /\ Fail(g).decision = g.decision /\ Fail(g).current = g.current
  BY DEF Fail, GameStates
<1> HIDE DEF Fail
<1>2. ASSUME g.decision # NoDecision => g.decision.player # Opponent(g.current)
      PROVE  Spares(g, Fail(g))
  <2>1. g.decision # NoDecision => g.decision.player = g.current
    BY <1>2, PlayersFact DEF GameStates, Decision, Players
  <2> QED
    BY <1>1, <2>1, BesideSpares
<1> QED
  BY <1>1, <1>2 DEF Guarded, Protected, Orderly, AsideShown

\* A call that only does what an effect may do.
LEMMA QuietGuarded ==
  ASSUME NEW g, Ready(g), NEW h, h.current = g.current, MoatHeld(g) => Spares(g, h),
         h.pendingPlays = g.pendingPlays,
         g.players[g.current].setAside = <<>> => AsideShown(h, g.current)
  PROVE  Guarded(g, h)
<1>1. Orderly(g) => g.pendingPlays = <<>> /\ g.players[g.current].setAside = <<>>
  BY DEF Orderly, AsideShown, Ready
<1> QED
  BY <1>1 DEF Guarded, Protected, Orderly

LEMMA LocalGuarded ==
  ASSUME NEW g, Ready(g), NEW h \in LocalTo(g, g.current),
         NEW k \in Quiet(h) \cup {Fail(h)}
  PROVE  Guarded(g, k)
<1>1. Ready(h) /\ h \in Quiet(g) /\ h.current = g.current /\ h.decision = NoDecision
  BY LocalQuiet
<1>2. CASE k \in Quiet(h)
  <2>1. k \in Quiet(g)
    BY <1>1, <1>2, QuietTwice
  <2> QED
    BY <2>1, OutcomeTypes, QuietGuarded DEF Quiet, Gentle
<1>3. CASE k = Fail(h)
  <2>1. /\ k \in Outcome(h) /\ k.players = h.players
        /\ k.pendingPlays = h.pendingPlays /\ k.decision = NoDecision
    BY <1>1, <1>3, FailQuiet
  <2>2. k.current = g.current
    BY <1>1, <2>1, OutcomeTypes
  <2>3. Spares(g, k)
    BY <1>1, <2>1, BesideSpares DEF LocalTo, Beside, Ready
  <2>4. h.players[g.current].setAside = g.players[g.current].setAside
        /\ h.pendingPlays = g.pendingPlays
    BY <1>1 DEF LocalTo, Quiet
  <2> QED
    BY <2>1, <2>2, <2>3, <2>4, QuietGuarded DEF AsideShown
<1> QED
  BY <1>2, <1>3

LEMMA PlayGuarded ==
  ASSUME NEW g, Ready(g), NEW c, NEW h \in ApplyPlayCard(g, g.current, c)
  PROVE  Guarded(g, h)
<1> DEFINE p == g.current
           q == g.players[p]
           r == [q EXCEPT !.actions = @ - 1]
           spent == [g EXCEPT !.players[p].actions = @ - 1]
<1>1. p \in Players /\ q \in PlayerState /\ g \in GameStates /\ g \in LocalTo(g, p)
  BY LocalSelf, PlayersFact DEF Ready
<1>2. ASSUME HasType(c, "action"), q.actions > 0
      PROVE  spent \in LocalTo(g, p)
  <2>1. r \in PlayerState /\ SameOwned(q, r) /\ r.inPlay = q.inPlay
        /\ r.setAside = q.setAside
    <3>1. q.actions - 1 \in Nat
      BY <1>1, <1>2 DEF PlayerState
    <3> HIDE DEF q
    <3> QED
      BY <1>1, <3>1 DEF PlayerState, SameOwned, Owned
  <2>2. spent = [g EXCEPT !.players[p] = r]
    BY <1>1 DEF GameStates
  <2> HIDE DEF r, spent
  <2> QED
    BY <1>1, <2>1, <2>2, LocalChange
<1> HIDE DEF spent
<1>3. \/ h \in PlayCardFromZone(g, p, c, "hand") \/ h = Fail(g)
      \/ /\ HasType(c, "action") /\ q.actions > 0
         /\ h \in PlayCardFromZone(spent, p, c, "hand")
  BY DEF ApplyPlayCard, spent
<1>4. CASE h = Fail(g)
  BY <1>1, <1>4, FailGuarded
<1>5. CASE h \in PlayCardFromZone(g, p, c, "hand")
  BY <1>1, <1>5, FromZoneQuiet, LocalGuarded
<1>6. CASE /\ HasType(c, "action") /\ q.actions > 0
           /\ h \in PlayCardFromZone(spent, p, c, "hand")
  <2>1. spent \in LocalTo(g, p)
    BY <1>2, <1>6
  <2>2. Ready(spent) /\ spent.current = p
    BY <2>1, LocalQuiet
  <2> QED
    BY <1>6, <2>1, <2>2, FromZoneQuiet, LocalGuarded
<1> QED
  BY <1>3, <1>4, <1>5, <1>6

LEMMA BuyGuarded ==
  ASSUME NEW g, Ready(g), NEW c \in Cards, NEW h \in ApplyBuyCard(g, g.current, c)
  PROVE  Guarded(g, h)
<1> DEFINE p == g.current
           q == g.players[p]
           r == [q EXCEPT !.coins = @ - Cost[c], !.buys = @ - 1]
           paid == [g EXCEPT !.players[p].coins = @ - Cost[c], !.players[p].buys = @ - 1]
           can == /\ g.phase = "buy" /\ g.supply[c] > 0
                  /\ q.buys > 0 /\ q.coins >= Cost[c]
<1>1. p \in Players /\ q \in PlayerState /\ g \in GameStates /\ Cost[c] \in Nat
  BY PlayersFact, CostIsNat, CardsAssumption DEF Ready
<1>2. CASE can
  <2>1. r \in PlayerState /\ SameOwned(q, r) /\ r.inPlay = q.inPlay
        /\ r.setAside = q.setAside
    <3>1. q.coins - Cost[c] \in Nat /\ q.buys - 1 \in Nat
      <4>1. q.coins \in Nat /\ q.buys \in Nat /\ q.buys > 0 /\ q.coins >= Cost[c]
        BY <1>1, <1>2 DEF PlayerState
      <4> QED
        BY <1>1, <4>1
    <3> HIDE DEF q
    <3> QED
      BY <1>1, <3>1 DEF PlayerState, SameOwned, Owned
  <2>2. paid = [g EXCEPT !.players[p] = r]
    BY <1>1 DEF GameStates
  <2>3. h = GainCard(paid, p, c, "discard")
    BY <1>2 DEF ApplyBuyCard
  <2> HIDE DEF r, paid
  <2>4. paid \in LocalTo(g, p)
    <3> HIDE DEF p
    <3> QED
      BY <2>1, <2>2, LocalChange, <1>1 DEF p
  <2>5. Ready(paid) /\ paid.current = p
    BY <2>4, LocalQuiet
  <2>6. h \in LocalTo(paid, p)
    BY <1>1, <2>3, <2>5, GainCardLocal DEF Ready
  <2>7. h \in Quiet(paid)
    BY <2>5, <2>6, LocalQuiet
  <2> QED
    BY <2>4, <2>7, LocalGuarded
<1>3. CASE ~can
  BY <1>1, <1>3, FailGuarded DEF ApplyBuyCard
<1> QED
  BY <1>2, <1>3

\* The end of a phase; the player whose turn begins had nothing set aside.
LEMMA EndGuarded ==
  ASSUME NEW g, Ready(g), WaitingIsClean(g), NEW h \in ApplyEndPhase(g)
  PROVE  Guarded(g, h)
<1>1. CASE g.phase = "action"
  <2>1. h = [g EXCEPT !.phase = "buy"]
    BY <1>1 DEF ApplyEndPhase
  <2>2. /\ h.players = g.players /\ h.current = g.current
        /\ h.decision = g.decision /\ h.pendingPlays = g.pendingPlays
    BY <2>1 DEF Ready, GameStates
  <2>3. Spares(g, h)
    BY <2>2, BesideSpares DEF Ready
  <2> QED
    BY <2>2, <2>3, QuietGuarded DEF AsideShown
<1>2. CASE g.phase # "action"
  <2>1. PICK k \in CleanupAndEndTurn(g) : h = (IF IsGameOver(k) THEN EndGame(k) ELSE k)
    BY <1>2 DEF ApplyEndPhase
  <2>2. /\ Passed(g, k)
        /\ k.players[k.current] = StartTurn(g.players[k.current])
    BY CleanupPasses
  <2>3. h.players = k.players /\ h.current = k.current /\ h.pendingPlays = k.pendingPlays
    BY <2>1, <2>2 DEF EndGame, Passed, GameStates
  <2>4. k.current \in Players /\ k.current # g.current /\ k.current = Opponent(g.current)
        /\ k.pendingPlays = <<>>
    BY <2>2, PlayersFact DEF Passed, Ready
  <2>5. StartTurn(g.players[k.current]).setAside = <<>>
    <3>1. g.players[k.current] \in PlayerState /\ g.players[k.current].setAside = <<>>
      BY <2>4, PlayersFact DEF Ready, WaitingIsClean, CleanPlayer
    <3> QED
      BY <3>1 DEF StartTurn, PlayerState
  <2> QED
    BY <2>2, <2>3, <2>4, <2>5 DEF Guarded, Protected, Orderly, AsideShown
<1> QED
  BY <1>1, <1>2

LEMMA ResolveGuarded ==
  ASSUME NEW g, Sound(g), ~g.err, g.decision # NoDecision, NEW p, NEW id, NEW answer,
         ListPrompt(g.decision) => answer.list \in Bag,
         g.decision.card = "sentry" => answer.order \in Seq(Cards \cup {NoCard}),
         NEW h \in ApplyResolveDecision(g, p, id, answer)
  PROVE  Guarded(g, h)
<1> DEFINE d == g.decision
           k == [g EXCEPT !.decision = NoDecision]
<1>1. CASE d.id # id \/ d.player # p
  BY <1>1, FailGuarded DEF ApplyResolveDecision, Sound
<1>2. CASE ~(d.id # id \/ d.player # p)
  <2>1. d \in Decision /\ g \in GameStates
    BY DEF Sound, GameStates
  <2>2. /\ k \in GameStates /\ k.players = g.players /\ k.current = g.current
        /\ k.decision = NoDecision /\ k.pendingPlays = g.pendingPlays /\ ~k.err
    BY DEF Sound, GameStates
  <2>3. PICK a \in OnResolve(k, d, answer) : h \in (IF a.err THEN {a} ELSE Unwind(a))
    BY <1>2 DEF ApplyResolveDecision
  <2> HIDE DEF k
  <2>4. Ready(k)
    <3>1. \A x : Replays(k, x) = Replays(g, x)
      BY <2>2 DEF Replays
    <3> QED
      BY <2>2, <3>1 DEF Ready, Sound, ReplaysInPlay
  <2>5. a \in Settled(k, d)
    <3>1. d.card \in AttackAskers \/ d.player = k.current
      BY <2>2 DEF Sound, CurrentAsks
    <3>2. d.card = "library" => InSeq(d.shown[1], k.players[d.player].setAside)
      BY <2>2 DEF Sound, LibraryShown
    <3> HIDE DEF d
    <3>3. OnResolve(k, d, answer) \subseteq Settled(k, d)
      BY <2>1, <2>2, <2>4, <3>1, <3>2, OnResolveSettles DEF d
    <3> QED
      BY <2>3, <3>3
  <2>6. /\ h \in Settled(k, d)
        /\ h.err => h.decision = NoDecision
        /\ ~h.err => h.decision # NoDecision \/ h.pendingPlays = <<>>
    <3>1. CASE a.err
      BY <2>3, <2>5, <3>1 DEF Settled
    <3>2. CASE ~a.err
      BY <2>3, <2>4, <2>5, <3>2, UnwindSettles
    <3> QED
      BY <3>1, <3>2
  <2>7. h.current = g.current
    BY <2>2, <2>6, OutcomeTypes DEF Settled
  <2>8. Protected(g, h)
    <3>1. SUFFICES ASSUME MoatHeld(g), d.player # Opponent(g.current)
                   PROVE  Spares(g, h)
      BY DEF Protected
    <3>2. MoatHeld(k) /\ d.player = k.current
      BY <2>1, <2>2, <3>1, PlayersFact DEF MoatHeld, InHand, Decision, Players
    <3>3. Spares(k, h)
      BY <2>6, <3>2 DEF Settled
    <3> QED
      BY <2>2, <3>3 DEF Spares
  <2>9. ASSUME Orderly(g), KeptItsDecision(g, h)
        PROVE  Orderly(h)
    <3>1. ~h.err
      BY <2>6, <2>9 DEF KeptItsDecision
    <3>2. Sifts(d) \/ k.players[k.current].setAside = <<>>
      BY <2>2, <2>9 DEF Orderly, AsideShown, Sifts
    <3> QED
      BY <2>2, <2>6, <2>7, <3>1, <3>2 DEF Orderly, Settled
  <2> QED
    BY <2>8, <2>9 DEF Guarded
<1> QED
  BY <1>1, <1>2

\* No call, accepted or rejected, breaks through a Moat; and none but a rejected
\* answer leaves a replay or a card set aside without a question about it.
LEMMA ApplyGuarded ==
  ASSUME NEW g0, Sound(g0), WaitingIsClean(g0), NEW act, WellFormed(g0, act),
         NEW h \in Apply(g0, act)
  PROVE  Guarded(g0, h)
<1> DEFINE g == [g0 EXCEPT !.err = FALSE]
<1>1. Keeps(g0, g) /\ SameTurn(g0, g) /\ g.decision = g0.decision
  BY ErrKeeps
<1>2. /\ g.players = g0.players /\ g.pendingPlays = g0.pendingPlays
      /\ g.current = g0.current /\ ~g.err
  BY DEF Sound, GameStates
<1>3. WellFormed(g, act)
  BY <1>1 DEF WellFormed
<1>4. h \in IF g.ended THEN {Fail(g)}
            ELSE IF g.decision # NoDecision
            THEN IF act.kind = "resolve"
                 THEN ApplyResolveDecision(g, act.player, act.id, act.answer)
                 ELSE {Fail(g)}
            ELSE IF act.player # g.current \/ act.kind = "resolve" THEN {Fail(g)}
            ELSE CASE act.kind = "play" -> ApplyPlayCard(g, act.player, act.card)
                   [] act.kind = "buy" -> ApplyBuyCard(g, act.player, act.card)
                   [] act.kind = "end" -> ApplyEndPhase(g)
  BY DEF Apply
<1> HIDE DEF g
<1>5. Sound(g) /\ g \in GameStates /\ WaitingIsClean(g)
  BY <1>1 DEF Keeps, Sound
<1>6. SUFFICES Guarded(g, h)
  BY <1>1, <1>2 DEF Guarded, Protected, Orderly, KeptItsDecision, AsideShown,
     MoatHeld, InHand, Spares
<1>7. CASE h = Fail(g)
  BY <1>5, <1>7, FailGuarded
<1>8. CASE ~g.ended /\ g.decision # NoDecision /\ act.kind = "resolve"
  <2>1. h \in ApplyResolveDecision(g, act.player, act.id, act.answer)
    BY <1>4, <1>8
  <2>2. /\ ListPrompt(g.decision) => act.answer.list \in Bag
        /\ g.decision.card = "sentry" => act.answer.order \in Seq(Cards \cup {NoCard})
    BY <1>3, <1>8 DEF WellFormed
  <2> QED
    BY <1>2, <1>5, <1>8, <2>1, <2>2, ResolveGuarded
<1>9. CASE ~g.ended /\ g.decision = NoDecision /\ act.player = g.current
           /\ act.kind # "resolve"
  <2>1. Ready(g)
    BY <1>5, <1>9, SoundReady
  <2>2. CASE act.kind = "play"
    BY <1>4, <1>9, <2>1, <2>2, PlayGuarded
  <2>3. CASE act.kind = "buy"
    <3>1. h \in ApplyBuyCard(g, g.current, act.card) /\ act.card \in Cards
      BY <1>3, <1>4, <1>9, <2>3 DEF WellFormed
    <3> QED
      BY <2>1, <3>1, BuyGuarded
  <2>4. CASE act.kind = "end"
    BY <1>4, <1>5, <1>9, <2>1, <2>4, EndGuarded
  <2> QED
    BY <1>3, <1>9, <2>2, <2>3, <2>4 DEF WellFormed
<1>10. \/ h = Fail(g)
       \/ ~g.ended /\ g.decision # NoDecision /\ act.kind = "resolve"
       \/ ~g.ended /\ g.decision = NoDecision /\ act.player = g.current
          /\ act.kind # "resolve"
  BY <1>4
<1> QED
  BY <1>7, <1>8, <1>9, <1>10

LEMMA StepGuarded ==
  ASSUME IInv, Next
  PROVE  Guarded(gs, gs') /\ (gs'.err => Rejections)
<1>1. PICK act : /\ WellFormed(gs, act) /\ gs' \in Apply(gs, act)
                 /\ gs'.err => Rejections
  BY StepIsCall
<1>2. Sound(gs) /\ WaitingIsClean(gs)
  BY DEF IInv, IdlePlayerIsClean, WaitingIsClean, CleanPlayer
<1> QED
  BY <1>1, <1>2, ApplyGuarded

-----------------------------------------------------------------------------
(***************************************************************************)
(* Theorems.                                                               *)
(***************************************************************************)

\* Whatever the other player plays, directly or through a Vassal or a Throne
\* Room, and whether his calls are accepted or not: while a player waits with a
\* Moat in hand and is not being asked, no call asks or costs him anything.
THEOREM AMoatProtects == Spec => MoatProtects
<1> DEFINE v == Opponent(gs.current)
           asked(g) == g.decision # NoDecision /\ g.decision.player = v
           A == ("moat" \in Cards /\ InHand(gs, v, "moat") /\ ~asked(gs)
                   /\ gs'.current = gs.current)
                => /\ ~asked(gs')
                   /\ \A c \in Cards :
                        /\ Owned(gs'.players[v], c) = Owned(gs.players[v], c)
                        /\ gs'.players[v].hand[c] >= gs.players[v].hand[c]
                        /\ gs'.players[v].discard[c] <= gs.players[v].discard[c]
<1>1. IInv /\ [Next]_gs => [A]_gs
  <2> SUFFICES ASSUME IInv, Next PROVE A
    OBVIOUS
  <2>1. Protected(gs, gs')
    BY StepGuarded DEF Guarded
  <2> QED
    BY <2>1 DEF Protected, MoatHeld, Spares
<1> QED
  BY <1>1, Invariant, PTL DEF Spec, MoatProtects

\* The strengthening of the two invariants below.
RInv == IInv /\ Orderly(gs)

LEMMA InitRInv == Init => RInv
<1> SUFFICES ASSUME Init PROVE Orderly(gs)
  BY InitIInv DEF RInv
<1>1. PICK first \in Players, h0 \in DrawCards(Undealt(0), 5), h1 \in DrawCards(Undealt(1), 5) :
        gs = NewGame(first, [p \in Players |-> IF p = 0 THEN h0 ELSE h1])
  BY DEF Init
<1> DEFINE dealt == [p \in Players |-> IF p = 0 THEN h0 ELSE h1]
<1>2. ASSUME NEW p \in Players
      PROVE  dealt[p] \in PlayerState /\ dealt[p].setAside = <<>>
  <2>1. StartDeck[p] \in Bag /\ EmptyBag \in Bag /\ <<>> \in Seq(Cards)
    BY EngineAssumption, BagTypes DEF EmptyBag
  <2>2. Undealt(p) \in PlayerState /\ Undealt(p).setAside = <<>>
    BY <2>1 DEF Undealt, PlayerState
  <2>3. DrawCards(Undealt(p), 5) \subseteq Rearranged(Undealt(p))
    BY <2>2, DrawCardsKeeps
  <2>4. dealt[p] \in DrawCards(Undealt(p), 5)
    BY DEF Players
  <2> QED
    BY <2>2, <2>3, <2>4 DEF Rearranged, SameMeans
<1> HIDE DEF dealt
<1>3. /\ gs.current = first /\ gs.pendingPlays = <<>>
      /\ gs.players[first] = StartTurn(dealt[first])
  BY <1>1 DEF NewGame, dealt
<1>4. gs.players[first].setAside = <<>>
  BY <1>2, <1>3 DEF StartTurn, PlayerState
<1> QED
  BY <1>3, <1>4 DEF Orderly, AsideShown

LEMMA StepRInv ==
  RInv /\ [Next]_gs /\ [gs'.err => gs'.decision = gs.decision]_gs => RInv'
<1> SUFFICES ASSUME RInv, [Next]_gs, [gs'.err => gs'.decision = gs.decision]_gs
             PROVE  Orderly(gs')
  BY NextIInv DEF RInv
<1>1. CASE UNCHANGED gs
  BY <1>1 DEF RInv
<1>2. CASE Next /\ (gs'.err => gs'.decision = gs.decision)
  BY <1>2, StepGuarded DEF RInv, Guarded, KeptItsDecision
<1> QED
  BY <1>1, <1>2

\* As long as no answer is rejected after its decision has been cleared, the
\* loop of applyResolveDecision leaves a replay owed only behind a question.
THEOREM ReplaysAreMade == Spec /\ RejectionKeepsDecision => []ReplayAwaitsDecision
<1>1. RInv => ReplayAwaitsDecision
  BY DEF RInv, Orderly, ReplayAwaitsDecision
<1> QED
  BY <1>1, InitRInv, StepRInv, PTL DEF Spec, RejectionKeepsDecision

\* Under the same condition a card is set aside only while its owner is asked
\* about it, by a Sentry that shows all of them or a Library that shows the last.
THEOREM SetAsideCardsAreShown == Spec /\ RejectionKeepsDecision => []SetAsideIsShown
<1>1. RInv => SetAsideIsShown
  BY PlayersFact DEF RInv, IInv, Sound, Orderly, AsideShown, IdlePlayerIsClean,
     SetAsideIsShown, Players
<1> QED
  BY <1>1, InitRInv, StepRInv, PTL DEF Spec, RejectionKeepsDecision

\* The condition holds where the calls that are rejected are not made.
THEOREM AcceptedCallsKeepDecisions ==
  ASSUME ~Rejections
  PROVE  Spec => RejectionKeepsDecision
<1>1. IInv /\ [Next]_gs => [gs'.err => gs'.decision = gs.decision]_gs
  BY StepGuarded
<1> QED
  BY <1>1, Invariant, PTL DEF Spec, RejectionKeepsDecision
=============================================================================
