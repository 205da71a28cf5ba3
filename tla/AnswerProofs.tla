---------------------------- MODULE AnswerProofs ----------------------------
(***************************************************************************)
(* What the engine asks can be answered, and whoever answers as asked is   *)
(* not turned away: the prompts of all cards, and the answers of the bots. *)
(***************************************************************************)
EXTENDS EffectProofs, BotAnswers

-----------------------------------------------------------------------------
(***************************************************************************)
(* Parts of a bag, as answers name them.                                   *)
(***************************************************************************)

\* The bag of a set of copies.
Counted(copies) == [c \in Cards |-> Cardinality({x \in copies : x[1] = c})]

\* A set of copies makes a bag of as many cards, a part of the bag it is from.
LEMMA CountedSize ==
  ASSUME NEW b \in Bag, NEW copies \in SUBSET Copies(b)
  PROVE  /\ Counted(copies) \in Bag /\ Size(Counted(copies)) = Cardinality(copies)
         /\ \A c \in Cards : Counted(copies)[c] <= b[c]
<1> DEFINE Of(c) == {x \in copies : x[1] = c}
           n(c) == Cardinality(Of(c))
           a == Counted(copies)
<1>1. IsFiniteSet(Copies(b)) /\ IsFiniteSet(copies)
  BY SizeIsNat, FS_Subset
<1>2. ASSUME NEW c \in Cards
      PROVE  /\ IsFiniteSet(Of(c)) /\ n(c) \in Nat /\ n(c) <= b[c]
             /\ ExistsBijection(1..n(c), Of(c))
  <2>1. Of(c) \subseteq {c} \X (1..b[c]) /\ b[c] \in Nat
    BY DEF Copies, Bag
  <2>2. IsFiniteSet({c} \X (1..b[c])) /\ Cardinality({c} \X (1..b[c])) = b[c]
    <3>1. IsFiniteSet({c}) /\ Cardinality({c}) = 1
      BY FS_Singleton
    <3>2. IsFiniteSet(1..b[c]) /\ Cardinality(1..b[c]) = b[c]
      <4>1. 1 \in Int /\ b[c] \in Int /\ (1 > b[c] => b[c] = 0) /\ b[c] - 1 + 1 = b[c]
        BY <2>1
      <4>2. IsFiniteSet(1..b[c])
            /\ Cardinality(1..b[c]) = IF 1 > b[c] THEN 0 ELSE b[c] - 1 + 1
        BY <4>1, FS_Interval
      <4> QED
        BY <4>1, <4>2
    <3>3. IsFiniteSet({c} \X (1..b[c]))
          /\ Cardinality({c} \X (1..b[c])) = Cardinality({c}) * Cardinality(1..b[c])
      BY <3>1, <3>2, FS_Product
    <3> QED
      BY <2>1, <3>1, <3>2, <3>3
  <2>3. IsFiniteSet(Of(c)) /\ Cardinality(Of(c)) <= b[c]
    BY <2>1, <2>2, FS_Subset
  <2> QED
    BY <2>3, FS_CardinalityType
<1>3. a \in Bag /\ \A c \in Cards : a[c] = n(c)
  BY <1>2 DEF Counted, Bag
<1> DEFINE f == [c \in Cards |-> CHOOSE g \in Bijection(1..n(c), Of(c)) : TRUE]
           F == [x \in Copies(a) |-> f[x[1]][x[2]]]
<1>4. ASSUME NEW c \in Cards PROVE f[c] \in Bijection(1..n(c), Of(c))
  BY <1>2 DEF ExistsBijection
<1> HIDE DEF f, n, Of, a
<1>5. ASSUME NEW x \in Copies(a)
      PROVE  /\ x[1] \in Cards /\ x[2] \in 1..n(x[1]) /\ x = <<x[1], x[2]>>
             /\ F[x] \in Of(x[1])
  <2>1. PICK c \in Cards : x \in {c} \X (1..a[c])
    BY DEF Copies
  <2>2. x[1] = c /\ x[2] \in 1..n(c) /\ x = <<x[1], x[2]>>
    BY <1>3, <2>1
  <2>3. f[c] \in [1..n(c) -> Of(c)]
    BY <1>4 DEF Bijection, Injection, IsInjective
  <2>4. F[x] = f[c][x[2]]
    BY <2>2
  <2> HIDE DEF F
  <2> QED
    BY <2>2, <2>3, <2>4
<1>6. F \in Bijection(Copies(a), copies)
  <2>1. F \in [Copies(a) -> copies]
    BY <1>5 DEF Of
  <2>2. ASSUME NEW x \in Copies(a), NEW y \in Copies(a), F[x] = F[y] PROVE x = y
    <3>1. x[1] = y[1]
      BY <1>5, <2>2 DEF Of
    <3>2. f[x[1]] \in Bijection(1..n(x[1]), Of(x[1]))
      BY <1>4, <1>5
    <3>3. x[2] = y[2]
      BY <1>5, <2>2, <3>1, <3>2 DEF Bijection, Injection, IsInjective
    <3> QED
      BY <1>5, <3>1, <3>3
  <2>3. ASSUME NEW y \in copies PROVE \E x \in Copies(a) : F[x] = y
    <3>1. y \in Copies(b)
      OBVIOUS
    <3>2. PICK c \in Cards : y \in Of(c)
      BY <3>1 DEF Copies, Of
    <3>3. PICK i \in 1..n(c) : f[c][i] = y
      BY <1>4, <3>2 DEF Bijection, Surjection
    <3>4. <<c, i>> \in Copies(a)
      BY <1>3, <3>3 DEF Copies
    <3> QED
      BY <3>3, <3>4
  <2> QED
    BY <2>1, <2>2, <2>3 DEF Bijection, Injection, IsInjective, Surjection
<1>7. Cardinality(copies) = Cardinality(Copies(a))
  <2>1. IsFiniteSet(Copies(a))
    BY <1>3, SizeIsNat
  <2> QED
    BY <1>6, <2>1, FS_Bijection DEF ExistsBijection
<1> QED
  BY <1>2, <1>3, <1>7 DEF Size, a

LEMMA PartsOfBag ==
  ASSUME NEW b \in Bag, NEW part \in SubBags(b)
  PROVE  part \in Bag /\ \A c \in Cards : part[c] <= b[c]
<1>1. PICK copies \in SUBSET Copies(b) : part = Counted(copies)
  BY DEF SubBags, Counted
<1> QED
  BY <1>1, CountedSize

\* The copies of one card.
LEMMA CopiesOfOne ==
  ASSUME NEW b \in Bag, NEW c \in Cards
  PROVE  Cardinality({x \in Copies(b) : x[1] = c}) = b[c]
<1> DEFINE n == b[c]
           f == [i \in 1..n |-> <<c, i>>]
           S == {x \in Copies(b) : x[1] = c}
<1>1. n \in Nat
  BY DEF Bag
<1>2. \A x : x \in S <=> x \in {c} \X (1..n)
  BY DEF Copies
<1>3. f \in Bijection(1..n, S)
  <2>1. f \in [1..n -> S]
    BY <1>2
  <2>2. \A i, j \in 1..n : f[i] = f[j] => i = j
    OBVIOUS
  <2>3. ASSUME NEW x \in S PROVE \E i \in 1..n : f[i] = x
    <3>1. x = <<c, x[2]>> /\ x[2] \in 1..n
      BY <1>2
    <3> QED
      BY <3>1
  <2> HIDE DEF f, S
  <2> QED
    BY <2>1, <2>2, <2>3 DEF Bijection, Injection, IsInjective, Surjection
<1> HIDE DEF f, n, S
<1>4. Cardinality(S) = n
  BY <1>1, <1>3, FS_CountingElements DEF ExistsBijection
<1> QED
  BY <1>4 DEF S, n

\* A bag is a part of itself, and has a part of every smaller size.
LEMMA WholeIsPart ==
  ASSUME NEW b \in Bag
  PROVE  b \in SubBags(b)
<1>1. Counted(Copies(b)) = b
  BY CopiesOfOne DEF Counted, Bag
<1> QED
  BY <1>1 DEF SubBags, Counted

LEMMA SomeOf ==
  ASSUME NEW S, IsFiniteSet(S), NEW k \in Nat, k <= Cardinality(S)
  PROVE  \E T \in SUBSET S : Cardinality(T) = k
<1> DEFINE n == Cardinality(S)
<1>1. n \in Nat
  BY FS_CardinalityType
<1>2. PICK f : f \in Bijection(1..n, S)
  BY <1>1, FS_CardinalityType DEF ExistsBijection
<1> DEFINE T == {f[i] : i \in 1..k}
           h == [i \in 1..k |-> f[i]]
<1> HIDE DEF n
<1>3. 1..k \subseteq 1..n
  BY <1>1 DEF n
<1>4. T \subseteq S
  BY <1>2, <1>3 DEF Bijection, Injection
<1>5. h \in Bijection(1..k, T)
  BY <1>2, <1>3 DEF Bijection, Injection, IsInjective, Surjection
<1> HIDE DEF T, h
<1>6. Cardinality(T) = k
  BY <1>5, FS_CountingElements DEF ExistsBijection
<1> QED
  BY <1>4, <1>6

LEMMA PartOfSize ==
  ASSUME NEW b \in Bag, NEW k \in Nat, k <= Size(b)
  PROVE  \E part \in SubBags(b) : Size(part) = k
<1>1. IsFiniteSet(Copies(b)) /\ k <= Cardinality(Copies(b))
  BY SizeIsNat DEF Size
<1>2. PICK T \in SUBSET Copies(b) : Cardinality(T) = k
  BY <1>1, SomeOf
<1>3. Size(Counted(T)) = k
  BY <1>2, CountedSize
<1> QED
  BY <1>2, <1>3 DEF SubBags, Counted

\* Bags without a card, with one, and with some.
LEMMA SizeSome ==
  ASSUME NEW b \in Bag
  PROVE  Size(b) > 0 <=> \E c \in Cards : b[c] > 0
<1>1. IsFiniteSet(Copies(b)) /\ Size(b) \in Nat
  BY SizeIsNat
<1>2. Size(b) > 0 <=> Copies(b) # {}
  BY <1>1, FS_EmptySet DEF Size
<1>3. ASSUME NEW c \in Cards, b[c] > 0 PROVE <<c, 1>> \in Copies(b)
  BY <1>3 DEF Copies, Bag
<1>4. ASSUME NEW x \in Copies(b) PROVE \E c \in Cards : b[c] > 0
  <2>1. PICK c \in Cards : x \in {c} \X (1..b[c])
    BY DEF Copies
  <2>2. x[2] \in 1..b[c] /\ b[c] \in Nat
    BY <2>1 DEF Bag
  <2> QED
    BY <2>2
<1> QED
  BY <1>2, <1>3, <1>4

LEMMA SizeOne ==
  ASSUME NEW b \in Bag, Size(b) = 1
  PROVE  \E c \in Cards : b = OneOf(c) /\ b[c] = 1
<1>1. PICK x : Copies(b) = {x}
  BY SizeIsNat, FS_Singleton DEF Size
<1>2. PICK c \in Cards : b[c] > 0
  BY SizeSome
<1>3. <<c, 1>> \in Copies(b)
  BY <1>2 DEF Copies, Bag
<1>4. ASSUME NEW d \in Cards, b[d] > IF d = c THEN 1 ELSE 0 PROVE FALSE
  <2>1. CASE d = c
    <3>1. <<c, 2>> \in Copies(b)
      BY <1>4, <2>1 DEF Copies, Bag
    <3> QED
      BY <1>1, <1>3, <3>1
  <2>2. CASE d # c
    <3>1. <<d, 1>> \in Copies(b)
      BY <1>4, <2>2 DEF Copies, Bag
    <3> QED
      BY <1>1, <1>3, <2>2, <3>1
  <2> QED
    BY <2>1, <2>2
<1>5. \A d \in Cards : b[d] = IF d = c THEN 1 ELSE 0
  BY <1>2, <1>4 DEF Bag
<1> QED
  BY <1>5 DEF OneOf, Bag

-----------------------------------------------------------------------------
(***************************************************************************)
(* Answerable(q, d): what decision d relies on when player q is asked.     *)
(* With disobedient clients an Artisan may ask for a card of an empty hand *)
(* (the gain before came to nothing): its handler puts up with that.  The  *)
(* last question of a Sentry rejects an answer that names other cards than *)
(* are set aside, so it has to show just these.                            *)
(***************************************************************************)
HasCard(q) == \E c \in Cards : q.hand[c] > 0
HasCardOf(q, t) == \E c \in Cards : q.hand[c] > 0 /\ HasType(c, t)

Answerable(q, d) ==
  /\ d.card = "militia" => d.max = d.min /\ Size(q.hand) = d.min + 3
  /\ d.card = "bureaucrat" => d.min = 1 /\ d.max = 1 /\ HasCardOf(q, "victory")
  /\ d.card = "bandit" =>
       d.shown # <<>> /\ \A i \in DOMAIN d.shown : IsNonCopperTreasure(d.shown[i])
  /\ d.card \in {"cellar", "chapel", "moneylender"} => d.min = 0
  /\ d.card = "mine" /\ d.step = 0 => d.min = 0
  /\ d.card = "poacher" => d.max = d.min
  /\ d.card = "remodel" /\ d.step = 0 => d.min = 1 /\ d.max = 1 /\ HasCard(q)
  /\ d.card = "artisan" /\ d.step = 0 => d.limit = 5
  /\ d.card = "artisan" /\ d.step = 1 /\ Obedient => HasCard(q)
  /\ d.card = "sentry" /\ d.step = 2 => d.shown = q.setAside
  /\ d.card = "vassal" => d.shown # <<>> /\ q.discard[d.shown[1]] > 0
  /\ d.card = "throne_room" => HasCardOf(q, "action")

Truthful(g) ==
  g.decision # NoDecision => Answerable(g.players[g.decision.player], g.decision)

LEMMA AskedTruthful ==
  ASSUME NEW g \in GameStates, NEW p, NEW c, NEW s, NEW prompt,
         Answerable(g.players[p],
                    [card |-> c, id |-> g.decisionSeq + 1, player |-> p, step |-> s,
                     min |-> prompt.min, max |-> prompt.max,
                     limit |-> prompt.limit, shown |-> prompt.shown])
  PROVE  Truthful(RequestDecision(g, p, c, s, prompt))
<1> DEFINE d == [card |-> c, id |-> g.decisionSeq + 1, player |-> p, step |-> s,
                 min |-> prompt.min, max |-> prompt.max,
                 limit |-> prompt.limit, shown |-> prompt.shown]
           h == RequestDecision(g, p, c, s, prompt)
<1>1. h.decision = d /\ h.players = g.players /\ d.player = p
  BY DEF RequestDecision, GameStates
<1> QED
  BY <1>1 DEF Truthful

LEMMA MovedTruthful ==
  ASSUME NEW g, Ready(g), NEW h \in Moved(g)
  PROVE  Truthful(h)
BY DEF Ready, Moved, Truthful

-----------------------------------------------------------------------------
(***************************************************************************)
(* The cards that ask when they are played.                                *)
(***************************************************************************)
LEMMA PlusTypes ==
  ASSUME NEW g, Ready(g), NEW n \in Nat, NEW a \in Nat, NEW b \in Nat, NEW m \in Nat,
         NEW h \in Plus(g, g.current, n, a, b, m)
  PROVE  h \in Moved(g) /\ h \in GameStates /\ h.current = g.current /\ Truthful(h)
BY PlusMoves, MovedTruthful DEF Moved, SameTurn

LEMMA MilitiaTruthful ==
  ASSUME NEW g, Ready(g), NEW k \in MilitiaOnPlay(g, g.current)
  PROVE  Truthful(k)
<1>1. PICK h \in Plus(g, g.current, 0, 0, 0, 2) :
        k = MilitiaQueue(h, AttackVictims(h, g.current))
  BY DEF MilitiaOnPlay
<1>2. h \in GameStates /\ Truthful(h)
  BY <1>1, PlusTypes
<1> DEFINE toAsk == {v \in AttackVictims(h, g.current) : Size(h.players[v].hand) > 3}
           v == CHOOSE w \in toAsk : TRUE
           n == Size(h.players[v].hand) - 3
<1>3. CASE toAsk = {}
  BY SMTT(30), <1>1, <1>2, <1>3 DEF MilitiaQueue
<1>4. CASE toAsk # {}
  <2>1. v \in toAsk
    BY <1>4
  <2>2. v \in Players /\ Size(h.players[v].hand) > 3
    BY <2>1, VictimsFact, PlayersFact DEF Ready
  <2> HIDE DEF v
  <2>3. n \in Nat /\ n + 3 = Size(h.players[v].hand)
    BY <1>2, <2>2, HandSizeIsNat
  <2> HIDE DEF n
  <2>4. Truthful(RequestDecision(h, v, "militia", 0, HandPrompt(n, n)))
    BY <1>2, <2>3, AskedTruthful DEF Answerable, HandPrompt, NoPrompt
  <2> QED
    BY <1>1, <1>4, <2>4 DEF MilitiaQueue, n, v
<1> QED
  BY <1>3, <1>4

LEMMA BureaucratTruthful ==
  ASSUME NEW g, Ready(g), NEW k \in BureaucratOnPlay(g, g.current)
  PROVE  Truthful(k)
<1> DEFINE h == GainCard(g, g.current, "silver", "deck")
           V == AttackVictims(h, g.current)
           v == CHOOSE w \in V : TRUE
           n == Size(VictoriesInHand(h, v))
           only == CHOOSE c \in Cards : VictoriesInHand(h, v)[c] > 0
<1>1. k = BureaucratQueue(h, V)
  BY DEF BureaucratOnPlay
<1>2. h \in Moved(g) /\ h \in GameStates /\ Truthful(h)
  BY GainCardMoves, MovedTruthful, PlayersFact DEF Ready, Moved
<1> HIDE DEF h
<1>3. k = IF V = {} \/ n = 0 THEN h
          ELSE IF n = 1 THEN PutOnDeck(h, v, only)
          ELSE RequestDecision(h, v, "bureaucrat", 0, HandPrompt(1, 1))
  BY <1>1 DEF BureaucratQueue
<1>4. CASE V = {} \/ n = 0
  BY <1>2, <1>3, <1>4
<1>5. CASE ~(V = {} \/ n = 0)
  <2>1. v \in V
    BY <1>5
  <2>2. v \in Players
    BY <2>1, VictimsFact, PlayersFact DEF Ready
  <2> HIDE DEF v
  <2>3. CASE n = 1
    <3>1. k = PutOnDeck(h, v, only)
      BY <1>3, <1>5, <2>3
    <3>2. k \in Moved(h)
      BY <1>2, <2>2, <3>1, PutOnDeckMoves
    <3> QED
      BY <1>2, <3>2, MovedTwice, MovedTruthful
  <2>4. CASE n # 1
    <3>1. VictoriesInHand(h, v) \in Bag
      BY <1>2, <2>2, PlayersFact DEF VictoriesInHand, PlayerState, Bag
    <3>2. PICK c \in Cards : VictoriesInHand(h, v)[c] > 0
      BY <1>5, <3>1, SizeSome, SizeIsNat
    <3>3. HasCardOf(h.players[v], "victory")
      BY <3>2 DEF VictoriesInHand, HasCardOf
    <3>4. Truthful(RequestDecision(h, v, "bureaucrat", 0, HandPrompt(1, 1)))
      BY <1>2, <3>3, AskedTruthful DEF Answerable, HandPrompt, NoPrompt
    <3> QED
      BY <1>3, <1>5, <2>4, <3>4
  <2> QED
    BY <2>3, <2>4
<1> QED
  BY <1>4, <1>5

LEMMA BanditRaidTruthful ==
  ASSUME NEW g, Ready(g), NEW h \in Moved(g), NEW v \in Players
  PROVE  Truthful(BanditRaid(h, v))
<1> DEFINE revealed == Revealed(h.players[v])
           treasures == {i \in DOMAIN revealed : IsNonCopperTreasure(revealed[i])}
           i0 == CHOOSE i \in treasures : TRUE
<1>1. h \in GameStates /\ h.players[v] \in PlayerState /\ Truthful(h)
  BY PlayersFact, MovedTruthful DEF Moved
<1>2. revealed \in Seq(Cards)
  BY <1>1, RevealedIsSeq
<1>3. CASE treasures = {}
  <2>1. BanditRaid(h, v) = DiscardOthers(h, v, revealed, NoCard)
    BY <1>3 DEF BanditRaid
  <2> HIDE DEF revealed
  <2> QED
    BY <1>1, <1>2, <2>1, DiscardOthersMoves, MovedTwice, MovedTruthful
<1>4. CASE treasures # {} /\ Cardinality(treasures) = 1
  <2>1. BanditRaid(h, v) = BanditTake(h, v, revealed[i0], revealed)
    BY <1>4 DEF BanditRaid
  <2>2. i0 \in DOMAIN revealed
    BY <1>4
  <2> HIDE DEF revealed, i0
  <2>3. revealed[i0] \in Cards
    BY <1>2, <2>2, LenProperties, ElementOfSeq
  <2> QED
    BY <1>1, <1>2, <2>1, <2>3, BanditTakeMoves, MovedTwice, MovedTruthful
<1>5. CASE treasures # {} /\ Cardinality(treasures) # 1
  <2>1. BanditRaid(h, v) = RequestDecision(h, v, "bandit", 0, ShownPrompt(revealed))
    BY <1>5 DEF BanditRaid
  <2>2. DOMAIN revealed \subseteq {1, 2} /\ revealed # <<>>
    <3>1. DOMAIN revealed \subseteq {1, 2}
      BY <1>1 DEF Revealed, PlayerState
    <3> QED
      BY <1>5, <3>1
  <2> HIDE DEF revealed
  <2>3. treasures = {1, 2}
    <3>1. treasures # {1} /\ treasures # {2}
      BY <1>5, FS_Singleton
    <3> QED
      BY <1>5, <2>2, <3>1
  <2>4. \A i \in DOMAIN revealed : IsNonCopperTreasure(revealed[i])
    BY <2>2, <2>3
  <2>5. Truthful(RequestDecision(h, v, "bandit", 0, ShownPrompt(revealed)))
    BY <1>1, <2>2, <2>4, AskedTruthful DEF Answerable, ShownPrompt, NoPrompt
  <2> QED
    BY <2>1, <2>5
<1> QED
  BY <1>3, <1>4, <1>5

LEMMA BanditTruthful ==
  ASSUME NEW g, Ready(g), NEW k \in BanditOnPlay(g, g.current)
  PROVE  Truthful(k)
<1> DEFINE h == GainCard(g, g.current, "gold", "discard")
           V == AttackVictims(h, g.current)
           v == CHOOSE w \in V : TRUE
<1>1. h \in Moved(g) /\ h \in GameStates /\ Truthful(h)
  BY GainCardMoves, MovedTruthful, PlayersFact DEF Ready, Moved
<1>2. k \in BanditQueue(h, V)
  BY DEF BanditOnPlay
<1> HIDE DEF h
<1>3. CASE V = {}
  BY <1>1, <1>2, <1>3 DEF BanditQueue
<1>4. CASE V # {}
  <2>1. v \in V
    BY <1>4
  <2>2. v \in Players
    BY <2>1, VictimsFact, PlayersFact DEF Ready
  <2>3. PICK r \in RevealFromDeck(h.players[v]) :
          k = BanditRaid([h EXCEPT !.players[v] = r], v)
    BY <1>2, <1>4 DEF BanditQueue, WithPlayer
  <2> HIDE DEF v
  <2>4. r \in Rearranged(h.players[v])
    BY <1>1, <2>2, PlayersFact, RevealFromDeckKeeps
  <2>5. [h EXCEPT !.players[v] = r] \in Moved(h)
    BY <1>1, <2>2, <2>4, LocalPlayer DEF LocalTo, Beside
  <2> QED
    BY <1>1, <2>2, <2>3, <2>5, MovedTwice, BanditRaidTruthful
<1> QED
  BY <1>3, <1>4

\* Cards that ask about the hand, the supply or the discard pile.
LEMMA HandTruthful ==
  ASSUME NEW g, Ready(g), NEW k,
         \/ k \in CellarOnPlay(g, g.current) \/ k \in ChapelOnPlay(g, g.current)
         \/ k \in MoneylenderOnPlay(g, g.current) \/ k \in PoacherOnPlay(g, g.current)
         \/ k \in WorkshopOnPlay(g, g.current) \/ k \in ArtisanOnPlay(g, g.current)
         \/ k \in RemodelOnPlay(g, g.current) \/ k \in MineOnPlay(g, g.current)
         \/ k \in HarbingerOnPlay(g, g.current)
         \/ k \in ThroneRoomOnPlay(g, g.current)
  PROVE  Truthful(k)
<1> DEFINE p == g.current
<1>1. g \in GameStates /\ Truthful(g) /\ p \in Players /\ g.players[p].hand \in Bag
  BY PlayersFact DEF Ready, Truthful, PlayerState
<1>2. \A m \in Nat : \A h \in Plus(g, p, m, 1, 0, 0) \cup Plus(g, p, m, 1, 0, 1) :
        h \in GameStates /\ Truthful(h)
  BY PlusTypes
<1>3. CASE k \in CellarOnPlay(g, p)
  <2>1. PICK h \in Plus(g, p, 0, 1, 0, 0) :
          k = RequestDecision(h, p, "cellar", 0, HandPrompt(0, Size(h.players[p].hand)))
    BY <1>3 DEF CellarOnPlay
  <2> QED
    BY <1>2, <2>1, AskedTruthful DEF Answerable, HandPrompt, NoPrompt
<1>4. CASE k \in ChapelOnPlay(g, p)
  BY <1>1, <1>4, AskedTruthful DEF Answerable, HandPrompt, NoPrompt, ChapelOnPlay
<1>5. CASE k \in MoneylenderOnPlay(g, p)
  BY <1>1, <1>5, AskedTruthful DEF Answerable, HandPrompt, NoPrompt, MoneylenderOnPlay
<1>6. CASE k \in PoacherOnPlay(g, p)
  <2> DEFINE n == Cardinality(EmptyPiles(g))
  <2>1. PICK h \in Plus(g, p, 1, 1, 0, 1) :
          k = IF n = 0 THEN h ELSE RequestDecision(h, p, "poacher", 0, HandPrompt(n, n))
    BY <1>6 DEF PoacherOnPlay
  <2> QED
    BY <1>2, <2>1, AskedTruthful DEF Answerable, HandPrompt, NoPrompt
<1>7. CASE k \in WorkshopOnPlay(g, p) \/ k \in ArtisanOnPlay(g, p)
  BY <1>1, <1>7, AskedTruthful
     DEF Answerable, GainPrompt, NoPrompt, WorkshopOnPlay, ArtisanOnPlay
<1>8. CASE k \in RemodelOnPlay(g, p)
  <2>1. CASE g.players[p].hand = EmptyBag
    BY <1>1, <1>8, <2>1 DEF RemodelOnPlay
  <2>2. CASE g.players[p].hand # EmptyBag
    <3>1. HasCard(g.players[p])
      BY <1>1, <2>2 DEF HasCard, EmptyBag, Bag
    <3>2. k = RequestDecision(g, p, "remodel", 0, HandPrompt(1, 1))
      BY <1>8, <2>2 DEF RemodelOnPlay
    <3> QED
      BY <1>1, <3>1, <3>2, AskedTruthful DEF Answerable, HandPrompt, NoPrompt
  <2> QED
    BY <2>1, <2>2
<1>9. CASE k \in MineOnPlay(g, p)
  BY <1>1, <1>9, AskedTruthful DEF Answerable, HandPrompt, NoPrompt, MineOnPlay
<1>10. CASE k \in HarbingerOnPlay(g, p)
  <2>1. PICK h \in Plus(g, p, 1, 1, 0, 0) :
          \/ k = h \/ k = RequestDecision(h, p, "harbinger", 0, HandPrompt(0, 1))
    BY <1>10 DEF HarbingerOnPlay
  <2> QED
    BY <1>2, <2>1, AskedTruthful DEF Answerable, HandPrompt, NoPrompt
<1>11. CASE k \in ThroneRoomOnPlay(g, p)
  <2>1. CASE HandHasType(g, p, "action")
    <3>1. HasCardOf(g.players[p], "action")
      BY <2>1 DEF HandHasType, InHand, HasCardOf
    <3>2. k = RequestDecision(g, p, "throne_room", 0, HandPrompt(1, 1))
      BY <1>11, <2>1 DEF ThroneRoomOnPlay
    <3> QED
      BY <1>1, <3>1, <3>2, AskedTruthful DEF Answerable, HandPrompt, NoPrompt
  <2>2. CASE ~HandHasType(g, p, "action")
    BY <1>1, <1>11, <2>2 DEF ThroneRoomOnPlay
  <2> QED
    BY <2>1, <2>2
<1> QED
  BY <1>3, <1>4, <1>5, <1>6, <1>7, <1>8, <1>9, <1>10, <1>11

LEMMA VassalTruthful ==
  ASSUME NEW g, Ready(g), NEW k \in VassalOnPlay(g, g.current)
  PROVE  Truthful(k)
<1> DEFINE p == g.current
           q == Reshuffled(g.players[p])
           r(t) == [t.rest EXCEPT !.discard = AddOne(@, t.card)]
           h(t) == [g EXCEPT !.players[p] = r(t)]
<1>1. /\ g \in GameStates /\ Truthful(g) /\ p \in Players /\ g.decision = NoDecision
      /\ g.players \in [Players -> PlayerState]
  BY PlayersFact DEF Ready, Truthful
<1>2. q \in PlayerState
  BY <1>1, ReshuffledKeeps DEF Rearranged
<1>3. \/ k = g
      \/ \E t \in Pop(q) :
           \/ k = h(t)
           \/ k = RequestDecision(h(t), p, "vassal", 0, ShownPrompt(<<t.card>>))
  BY DEF VassalOnPlay
<1> HIDE DEF q
<1>4. ASSUME NEW t \in Pop(q)
      PROVE  /\ Truthful(h(t))
             /\ Truthful(RequestDecision(h(t), p, "vassal", 0, ShownPrompt(<<t.card>>)))
  <2>1. t.card \in Cards /\ t.rest \in PlayerState /\ r(t) \in Rearranged(q)
    BY <1>2, PopKeeps, PopAndKeep
  <2>2. r(t) \in PlayerState
    BY <2>1 DEF Rearranged
  <2>3. r(t).discard[t.card] > 0
    BY <2>1 DEF PlayerState, Bag, AddOne, BagPlus, OneOf
  <2> HIDE DEF r
  <2>4. /\ h(t) \in GameStates /\ h(t).players[p] = r(t)
        /\ h(t).decision = NoDecision
    BY <1>1, <2>2 DEF GameStates
  <2> HIDE DEF h
  <2>5. <<t.card>> # <<>> /\ <<t.card>>[1] = t.card
    OBVIOUS
  <2> DEFINE prompt == ShownPrompt(<<t.card>>)
  <2>6. prompt.shown = <<t.card>>
    BY DEF ShownPrompt, NoPrompt
  <2> HIDE DEF prompt
  <2>7. Truthful(RequestDecision(h(t), p, "vassal", 0, prompt))
    BY <2>3, <2>4, <2>5, <2>6, AskedTruthful DEF Answerable
  <2>8. Truthful(h(t))
    BY <2>4 DEF Truthful
  <2> QED
    BY <2>7, <2>8 DEF prompt
<1> QED
  BY <1>1, <1>3, <1>4

\* A Library asks only whether to keep a card, and that can be answered.
LEMMA LibraryTruthful ==
  ASSUME NEW g, Ready(g), NEW k \in LibraryStep(g, g.current)
  PROVE  Truthful(k)
<1> DEFINE p == g.current
           S == {h \in Outcome(g) : h.decision = NoDecision \/ h.decision.card = "library"}
<1>1. g \in S
  BY MovedSelf, MovedReady DEF Ready
<1>2. ASSUME NEW h \in S PROVE LibraryDraw(h, p) \subseteq S
  <2>1. CASE h.decision # NoDecision
    BY <2>1 DEF LibraryDraw, LibraryStops
  <2>2. CASE h.decision = NoDecision
    <3>1. Ready(h) /\ h.current = p
      BY <2>2, OutcomeTypes DEF Ready, Outcome
    <3>2. LibraryDraw(h, p) \subseteq Outcome(g)
      BY <2>2, <3>1, LibraryDrawOutcome, OutcomeTwice
    <3>3. ASSUME NEW a \in LibraryDraw(h, p)
          PROVE  a.decision = NoDecision \/ a.decision.card = "library"
      <4> DEFINE aside(t) == [h EXCEPT !.players[p] =
                                [t.rest EXCEPT !.setAside = Append(@, t.card)]]
                 drawn(t) == [h EXCEPT !.players[p] =
                                [t.rest EXCEPT !.hand = AddOne(@, t.card)]]
      <4>1. \/ a = h
            \/ \E t \in Pop(Reshuffled(h.players[p])) :
                 \/ a = RequestDecision(aside(t), p, "library", 0, ShownPrompt(<<t.card>>))
                 \/ a = drawn(t)
        BY <3>3 DEF LibraryDraw
      <4>2. h \in GameStates
        BY <3>1 DEF Ready
      <4>3. \A q : /\ [h EXCEPT !.players[p] = q].decision = h.decision
                   /\ RequestDecision([h EXCEPT !.players[p] = q], p, "library", 0,
                                      ShownPrompt(<<>>)).decision # NoDecision
        BY <4>2 DEF GameStates, RequestDecision, NoDecision
      <4>4. \A q, prompt :
              RequestDecision([h EXCEPT !.players[p] = q], p, "library", 0,
                              prompt).decision.card = "library"
        BY <4>2 DEF GameStates, RequestDecision
      <4> QED
        BY <2>2, <4>1, <4>3, <4>4
    <3> QED
      BY <3>2, <3>3
  <2> QED
    BY <2>1, <2>2
<1>3. PICK h \in S : k = IF h.decision # NoDecision THEN h ELSE FlushSetAside(h, p)
  <2> HIDE DEF S
  <2> QED
    BY <1>1, <1>2, LibraryStepStays
<1>4. CASE h.decision # NoDecision
  BY <1>3, <1>4 DEF Truthful, Answerable
<1>5. CASE h.decision = NoDecision
  <2>1. Ready(h) /\ h.current = p
    BY <1>5, OutcomeTypes DEF Ready, Outcome
  <2> QED
    BY <1>3, <1>5, <2>1, FlushMoves, MovedTruthful DEF Ready
<1> QED
  BY <1>4, <1>5

LEMMA SentryTruthful ==
  ASSUME NEW g, Ready(g), NEW k \in SentryOnPlay(g, g.current)
  PROVE  Truthful(k)
<1> DEFINE p == g.current
<1> DEFINE revealed(h, q) == SubSeq(q.setAside, Len(h.players[p].setAside) + 1, Len(q.setAside))
           after(h, q) == [h EXCEPT !.players[p] = q]
           asked(h, q) ==
             IF revealed(h, q) = <<>> THEN after(h, q)
             ELSE RequestDecision(after(h, q), p, "sentry", 0, ShownPrompt(revealed(h, q)))
<1>0. SentryOnPlay(g, p) =
        UNION {{asked(h, q) : q \in PeelToSetAside(h.players[p])} :
                 h \in Plus(g, p, 1, 1, 0, 0)}
  BY DEF SentryOnPlay
<1> HIDE DEF asked
<1>a. PICK h \in Plus(g, p, 1, 1, 0, 0) :
        \E q \in PeelToSetAside(h.players[p]) : k = asked(h, q)
  BY <1>0
<1>1. PICK q \in PeelToSetAside(h.players[p]) : k = asked(h, q)
  BY <1>a
<1> DEFINE a == after(h, q)
<1>2. h \in GameStates /\ h.current = p /\ h.decision = NoDecision /\ p \in Players
  BY PlusTypes, PlayersFact DEF Moved, Ready
<1>3. q \in PlayerState
  BY <1>2, PlayersFact, PeelToSetAsideKeeps
<1>4. a \in GameStates /\ a.decision = NoDecision
  BY <1>2, <1>3 DEF GameStates
<1> HIDE DEF a
<1>5. PICK shown : k = a \/ k = RequestDecision(a, p, "sentry", 0, ShownPrompt(shown))
  BY <1>1 DEF a, asked
<1> QED
  BY <1>4, <1>5, AskedTruthful DEF Answerable, Truthful

\* Whatever is played asks only what can be answered.
LEMMA OnPlayTruthful ==
  ASSUME NEW g, Ready(g), NEW c, NEW k \in OnPlay(g, g.current, c)
  PROVE  Truthful(k)
<1> DEFINE OfHand ==
             {"cellar", "chapel", "moneylender", "poacher", "workshop", "artisan",
              "remodel", "mine", "harbinger", "throne_room"}
           Others == {"militia", "bureaucrat", "bandit", "vassal", "library", "sentry"}
<1>1. CASE c \in Plain
  BY <1>1, PlainMoves, MovedTruthful
<1>2. CASE c \in OfHand
  BY <1>2, HandTruthful DEF OnPlay
<1>3. CASE c = "militia"
  BY <1>3, MilitiaTruthful DEF OnPlay
<1>4. CASE c = "bureaucrat"
  BY <1>4, BureaucratTruthful DEF OnPlay
<1>5. CASE c = "bandit"
  BY <1>5, BanditTruthful DEF OnPlay
<1>6. CASE c = "vassal"
  BY <1>6, VassalTruthful DEF OnPlay
<1>7. CASE c = "library"
  BY <1>7, LibraryTruthful DEF OnPlay, LibraryOnPlay
<1>8. CASE c = "sentry"
  BY <1>8, SentryTruthful DEF OnPlay
<1>9. CASE c \notin Plain /\ c \notin OfHand /\ c \notin Others
  <2>1. OnPlay(g, g.current, c) = {g}
    BY <1>9 DEF OnPlay, Plain
  <2> QED
    BY <2>1 DEF Ready, Truthful
<1> QED
  BY <1>1, <1>2, <1>3, <1>4, <1>5, <1>6, <1>7, <1>8, <1>9

-----------------------------------------------------------------------------
(***************************************************************************)
(* Answers.  Obeys(g, d, answer): the answer does what prompt d asks, in a *)
(* state with the hands and the supply of g.                               *)
(***************************************************************************)
SameNames(s, t) == \A c \in Cards : BagOfSeq(s)[c] <= BagOfSeq(t)[c]

Obeys(g, d, answer) ==
  IF AsksForList(d) THEN answer.list \in ObedientLists(g, d)
  ELSE IF d.card = "sentry"
  THEN /\ answer.order \in Seq(Cards)
       /\ d.step = 2 => /\ Len(answer.order) = Len(d.shown)
                        /\ SameNames(answer.order, d.shown)
  ELSE d.card \notin YesNoCards => answer.choice \in ObedientChoices(g, d)

\* What may come of an answer: a question that can be answered, if any, and no
\* error when the answer obeyed.
Sincere(g, d, answer, h) == Truthful(h) /\ (Obeys(g, d, answer) => ~h.err)

LEMMA FailSincere ==
  ASSUME NEW g, Ready(g), NEW d, NEW answer, ~Obeys(g, d, answer)
  PROVE  Sincere(g, d, answer, Fail(g))
<1>1. Fail(g).decision = NoDecision
  BY DEF Fail, Ready, GameStates
<1> QED
  BY <1>1 DEF Sincere, Truthful

LEMMA LocalSincere ==
  ASSUME NEW g, Ready(g), ~g.err, NEW p, NEW h \in LocalTo(g, p), NEW d, NEW answer
  PROVE  Sincere(g, d, answer, h)
<1>1. h \in Moved(g) /\ h.err = g.err
  BY DEF LocalTo, Beside
<1> QED
  BY <1>1, MovedTruthful DEF Sincere

\* The size and the cards of an obedient list.
LEMMA ListObeys ==
  ASSUME NEW g \in GameStates, NEW d \in Decision, AsksForList(d), NEW answer,
         Obeys(g, d, answer)
  PROVE  LET hand == g.players[d.player].hand
             list == answer.list
         IN  /\ list \in Bag /\ Size(list) \in Nat
             /\ \A c \in Cards : list[c] <= Offered(g, d)[c]
             /\ \/ d.min <= Size(list) /\ Size(list) <= d.max
                \/ Size(Offered(g, d)) < d.min /\ list = Offered(g, d)
<1> DEFINE hand == g.players[d.player].hand
           b == [c \in Cards |-> IF Passes(d, c) THEN hand[c] ELSE 0]
<1>1. hand \in Bag
  BY DEF GameStates, Decision, PlayerState
<1>2. b \in Bag /\ b = Offered(g, d)
  <2>1. b = Offered(g, d)
    BY DEF Offered
  <2> HIDE DEF hand
  <2>2. b \in Bag
    BY <1>1 DEF Bag
  <2> QED
    BY <2>1, <2>2
<1>3. answer.list \in ObedientLists(g, d)
  BY DEF Obeys
<1>4. answer.list \in SubBags(Offered(g, d))
      /\ \/ d.min <= Size(answer.list) /\ Size(answer.list) <= d.max
         \/ Size(Offered(g, d)) < d.min /\ answer.list = Offered(g, d)
  BY <1>3 DEF ObedientLists
<1> HIDE DEF b
<1>5. answer.list \in Bag /\ \A c \in Cards : answer.list[c] <= Offered(g, d)[c]
  BY <1>2, <1>4, PartsOfBag
<1> QED
  BY <1>4, <1>5, SizeIsNat

LEMMA WholeHandOffered ==
  ASSUME NEW g \in GameStates, NEW d \in Decision,
         d.card \notin {"bureaucrat", "moneylender", "mine"}
  PROVE  Offered(g, d) = g.players[d.player].hand
<1>1. g.players[d.player].hand \in Bag
  BY DEF GameStates, Decision, PlayerState
<1>2. \A c \in Cards : Passes(d, c)
  BY DEF Passes
<1> QED
  BY <1>1, <1>2 DEF Offered, Bag

\* The cards a player discards, trashes or puts on the deck.
LEMMA HandSincere ==
  ASSUME NEW g, Ready(g), ~g.err, NEW d \in Decision,
         Answerable(g.players[d.player], d),
         d.card \in {"militia", "bureaucrat", "cellar", "chapel", "poacher", "moneylender"},
         d.card \in AttackAskers \/ d.player = g.current,
         NEW answer, answer.list \in Bag
  PROVE  \A k \in OnResolve(g, d, answer) : Sincere(g, d, answer, k)
<1> DEFINE p == d.player
           list == answer.list
           q == g.players[p]
<1>1. /\ g \in GameStates /\ p \in Players /\ q \in PlayerState /\ AsksForList(d)
      /\ q.hand \in Bag
  BY DEF Ready, GameStates, Decision, AsksForList, ListCards, PlayerState
<1>2. \A h \in LocalTo(g, p) : Sincere(g, d, answer, h)
  BY LocalSincere
<1>3. /\ DiscardFromHand(g, p, list) \in LocalTo(g, p)
      /\ TrashFromHand(g, p, list) \in LocalTo(g, p)
      /\ \A c : PutOnDeck(g, p, c) \in LocalTo(g, p)
      /\ g \in LocalTo(g, p)
  BY <1>1, DiscardFromHandLocal, TrashFromHandLocal, PutOnDeckLocal, LocalSelf
<1>4. ~Obeys(g, d, answer) => Sincere(g, d, answer, Fail(g))
  BY FailSincere
<1>5. CASE d.card = "militia"
  <2>1. ASSUME Obeys(g, d, answer)
        PROVE  Size(list) = IF Size(q.hand) - 3 < 0 THEN 0 ELSE Size(q.hand) - 3
    <3>1. d.max = d.min /\ Size(q.hand) = d.min + 3 /\ d.min \in Nat
      BY <1>5 DEF Answerable, Decision
    <3>2. Offered(g, d) = q.hand
      BY <1>1, <1>5, WholeHandOffered
    <3>3. /\ Size(list) \in Nat
          /\ \/ d.min <= Size(list) /\ Size(list) <= d.max
             \/ Size(Offered(g, d)) < d.min /\ list = Offered(g, d)
      BY <1>1, <2>1, ListObeys
    <3> QED
      BY <3>1, <3>2, <3>3
  <2>2. OnResolve(g, d, answer) = MilitiaOnResolve(g, p, answer)
    BY <1>5 DEF OnResolve
  <2> QED
    BY <1>2, <1>3, <1>4, <2>1, <2>2 DEF MilitiaOnResolve
<1>6. CASE d.card = "bureaucrat"
  <2> DEFINE legal == {c \in Cards : /\ list = OneOf(c)
                                     /\ HasType(c, "victory") /\ InHand(g, p, c)}
  <2>1. ASSUME Obeys(g, d, answer) PROVE legal # {}
    <3>1. d.min = 1 /\ d.max = 1 /\ HasCardOf(q, "victory")
      BY <1>6 DEF Answerable
    <3>2. PICK x \in Cards : q.hand[x] > 0 /\ HasType(x, "victory")
      BY <3>1 DEF HasCardOf
    <3>3. \A c \in Cards : Offered(g, d)[c] = IF HasType(c, "victory") THEN q.hand[c] ELSE 0
      BY <1>6 DEF Offered, Passes
    <3>4. Offered(g, d) \in Bag
      BY <1>1, <3>3 DEF Offered, Bag
    <3>5. Size(Offered(g, d)) > 0 /\ Size(Offered(g, d)) \in Nat
      BY <3>2, <3>3, <3>4, SizeSome, SizeIsNat
    <3>6. /\ list \in Bag /\ Size(list) \in Nat
          /\ \A c \in Cards : list[c] <= Offered(g, d)[c]
          /\ \/ d.min <= Size(list) /\ Size(list) <= d.max
             \/ Size(Offered(g, d)) < d.min /\ list = Offered(g, d)
      BY <1>1, <2>1, ListObeys
    <3>7. Size(list) = 1
      BY <3>1, <3>5, <3>6
    <3>8. PICK c \in Cards : list = OneOf(c) /\ list[c] = 1
      BY <3>7, SizeOne
    <3>9. HasType(c, "victory") /\ q.hand[c] > 0
      <4>1. 1 <= Offered(g, d)[c]
        BY <3>6, <3>8
      <4>2. Offered(g, d)[c] = IF HasType(c, "victory") THEN q.hand[c] ELSE 0
        BY <3>3
      <4>3. q.hand[c] \in Nat
        BY <1>1 DEF Bag
      <4> HIDE DEF q
      <4> QED
        BY <4>1, <4>2, <4>3
    <3> QED
      BY <3>8, <3>9 DEF InHand
  <2>2. OnResolve(g, d, answer)
          = IF legal = {} THEN {Fail(g)} ELSE {PutOnDeck(g, p, c) : c \in legal}
    BY <1>6 DEF OnResolve, BureaucratOnResolve
  <2> HIDE DEF legal
  <2> QED
    BY <1>2, <1>3, <1>4, <2>1, <2>2
<1>7. CASE d.card = "cellar"
  <2> DEFINE h == DiscardFromHand(g, p, list)
  <2>1. h \in LocalTo(g, p) /\ h \in GameStates /\ Size(list) \in Nat
    BY <1>1, <1>3, LocalTypes, SizeIsNat
  <2>2. OnResolve(g, d, answer) = WithPlayer(h, p, DrawCards(h.players[p], Size(list)))
    BY <1>7 DEF OnResolve, CellarOnResolve
  <2> HIDE DEF h
  <2> QED
    BY <1>1, <1>2, <2>1, <2>2, DrawLocal, LocalTwice
<1>8. CASE d.card = "chapel" \/ d.card = "poacher"
  BY <1>2, <1>3, <1>8 DEF OnResolve, ChapelOnResolve, PoacherOnResolve
<1>9. CASE d.card = "moneylender"
  <2> DEFINE h == TrashFromHand(g, p, list)
  <2>1. p = g.current
    BY <1>9 DEF AttackAskers
  <2>2. h \in LocalTo(g, p) /\ h \in GameStates /\ h.current = p
    BY <1>1, <1>3, <2>1, LocalTypes
  <2>3. OnResolve(g, d, answer)
          = {IF list = EmptyBag THEN g ELSE AddResources(h, p, 0, 0, 3)}
    BY <1>9 DEF OnResolve, MoneylenderOnResolve
  <2> HIDE DEF h
  <2>4. AddResources(h, p, 0, 0, 3) \in LocalTo(g, p)
    BY <2>1, <2>2, AddResourcesLocal, LocalTwice
  <2> QED
    BY <1>2, <1>3, <2>3, <2>4
<1> QED
  BY <1>5, <1>6, <1>7, <1>8, <1>9

LEMMA BanditSincere ==
  ASSUME NEW g, Ready(g), ~g.err, NEW d \in Decision, d.card = "bandit", NEW answer
  PROVE  \A k \in OnResolve(g, d, answer) : Sincere(g, d, answer, k)
<1> DEFINE p == d.player
           c == answer.choice
<1>1. g \in GameStates /\ p \in Players /\ d.shown \in Seq(Cards)
  BY DEF Ready, Decision
<1>2. OnResolve(g, d, answer)
        = IF InSeq(c, d.shown) /\ IsNonCopperTreasure(c)
          THEN {BanditTake(g, p, c, d.shown)} ELSE {Fail(g)}
  BY DEF OnResolve, BanditOnResolve
<1>3. CASE InSeq(c, d.shown) /\ IsNonCopperTreasure(c)
  <2>1. c \in Cards
    BY <1>1, <1>3, IndexOfFinds
  <2> QED
    BY <1>1, <1>2, <1>3, <2>1, BanditTakeLocal, LocalSincere
<1>4. CASE ~(InSeq(c, d.shown) /\ IsNonCopperTreasure(c))
  <2>1. ~Obeys(g, d, answer)
    BY <1>4 DEF Obeys, ObedientChoices, AsksForList, ListCards, YesNoCards
  <2> QED
    BY <1>2, <1>4, <2>1, FailSincere
<1> QED
  BY <1>3, <1>4

-----------------------------------------------------------------------------
(* Gains, plays and cards set aside.                                       *)

LEMMA AskedSincere ==
  ASSUME NEW g, Ready(g), ~g.err, NEW p, NEW h \in LocalTo(g, p),
         NEW c, NEW s, NEW prompt, NEW d, NEW answer,
         Answerable(h.players[p],
                    [card |-> c, id |-> h.decisionSeq + 1, player |-> p, step |-> s,
                     min |-> prompt.min, max |-> prompt.max,
                     limit |-> prompt.limit, shown |-> prompt.shown])
  PROVE  Sincere(g, d, answer, RequestDecision(h, p, c, s, prompt))
<1>1. h \in GameStates /\ h.err = g.err
  BY LocalTypes DEF Ready
<1>2. RequestDecision(h, p, c, s, prompt).err = g.err
  BY <1>1 DEF RequestDecision, GameStates
<1> QED
  BY <1>1, <1>2, AskedTruthful DEF Sincere

Gains(d) == d.card \in {"workshop", "artisan", "remodel", "mine"} /\ ~AsksForList(d)

\* An obedient choice of a gain is a card there is, within the limit.
LEMMA GainObeys ==
  ASSUME NEW g, NEW d, Gains(d), d.card = "artisan" => d.step = 0, NEW answer,
         Obeys(g, d, answer)
  PROVE  /\ answer.choice \in Cards /\ g.supply[answer.choice] > 0
         /\ Gainable(answer.choice, d.limit)
         /\ d.card = "mine" => HasType(answer.choice, "treasure")
<1>1. answer.choice \in ObedientChoices(g, d)
  BY DEF Obeys, Gains, YesNoCards
<1> DEFINE within(c) == /\ g.supply[c] > 0 /\ Cost[c] <= d.limit
                        /\ d.card = "mine" => HasType(c, "treasure")
<1>2. /\ d.card # "bandit" /\ d.card # "harbinger" /\ d.card # "throne_room"
      /\ ~(d.card = "artisan" /\ d.step = 1)
  BY DEF Gains
<1>3. ObedientChoices(g, d) = {c \in Cards : within(c)}
  BY <1>2 DEF ObedientChoices
<1>4. answer.choice \in Cards /\ within(answer.choice)
  <2> HIDE DEF within
  <2> QED
    BY <1>1, <1>3
<1>5. answer.choice \in Registered
  BY <1>4, CardsAssumption
<1> QED
  BY <1>4, <1>5 DEF Gainable

LEMMA GainSincere ==
  ASSUME NEW g, Ready(g), ~g.err, NEW d \in Decision,
         Answerable(g.players[d.player], d), Gains(d), NEW answer,
         Obedient => Obeys(g, d, answer)
  PROVE  \A k \in OnResolve(g, d, answer) : Sincere(g, d, answer, k)
<1> DEFINE p == d.player
           c == answer.choice
<1>1. g \in GameStates /\ p \in Players /\ g.players[p] \in PlayerState
  BY PlayersFact DEF Ready, Decision
<1>2. \A dest \in {"hand", "deck", "discard"} :
        /\ GainCard(g, p, c, dest) \in LocalTo(g, p)
        /\ Sincere(g, d, answer, GainCard(g, p, c, dest))
  BY <1>1, GainCardLocal, LocalSincere
<1>3. ~Obeys(g, d, answer) => Sincere(g, d, answer, Fail(g))
  BY FailSincere
<1>4. Obeys(g, d, answer) /\ (d.card = "artisan" => d.step = 0)
        => /\ c \in Cards /\ g.supply[c] > 0 /\ Gainable(c, d.limit)
           /\ d.card = "mine" => HasType(c, "treasure")
  BY GainObeys
<1>5. CASE d.card = "workshop"
  <2>1. OnResolve(g, d, answer) = {IF Gainable(c, d.limit)
                                   THEN GainCard(g, p, c, "discard") ELSE Fail(g)}
    BY <1>5 DEF OnResolve, WorkshopOnResolve
  <2> QED
    BY <1>2, <1>3, <1>4, <1>5, <2>1
<1>6. CASE d.card = "remodel"
  <2>1. d.step # 0
    BY <1>6 DEF Gains, AsksForList
  <2>2. OnResolve(g, d, answer) = {IF Gainable(c, d.limit)
                                   THEN GainCard(g, p, c, "discard") ELSE Fail(g)}
    BY <1>6, <2>1 DEF OnResolve, RemodelOnResolve
  <2> QED
    BY <1>2, <1>3, <1>4, <1>6, <2>2
<1>7. CASE d.card = "mine"
  <2>1. d.step # 0
    BY <1>7 DEF Gains, AsksForList
  <2>2. OnResolve(g, d, answer) = {IF Gainable(c, d.limit) /\ HasType(c, "treasure")
                                   THEN GainCard(g, p, c, "hand") ELSE Fail(g)}
    BY <1>7, <2>1 DEF OnResolve, MineOnResolve
  <2> QED
    BY <1>2, <1>3, <1>4, <1>7, <2>2
<1>8. CASE d.card = "artisan" /\ d.step = 0
  <2> DEFINE h == GainCard(g, p, c, "hand")
  <2>1. OnResolve(g, d, answer)
          = {IF Gainable(c, 5) THEN RequestDecision(h, p, "artisan", 1, HandPrompt(1, 1))
             ELSE Fail(g)}
    BY <1>8 DEF OnResolve, ArtisanOnResolve
  <2>2. d.limit = 5
    BY <1>8 DEF Answerable
  <2>3. h \in LocalTo(g, p)
    BY <1>2
  <2>4. ASSUME Obedient PROVE HasCard(h.players[p])
    <3>1. c \in Cards /\ g.supply[c] > 0
      BY <1>4, <1>8, <2>4
    <3>2. h.players[p].hand = AddOne(g.players[p].hand, c)
      BY <1>1, <3>1 DEF GainCard, GameStates, PlayerState
    <3>3. g.players[p].hand[c] \in Nat
      BY <1>1, <3>1 DEF PlayerState, Bag
    <3>4. AddOne(g.players[p].hand, c)[c] = g.players[p].hand[c] + 1
      BY <3>1 DEF AddOne, BagPlus, OneOf
    <3> QED
      BY <3>1, <3>2, <3>3, <3>4 DEF HasCard
  <2> HIDE DEF h
  <2>5. Sincere(g, d, answer, RequestDecision(h, p, "artisan", 1, HandPrompt(1, 1)))
    BY <2>3, <2>4, AskedSincere DEF Answerable, HandPrompt, NoPrompt
  <2> QED
    BY <1>3, <1>4, <1>8, <2>1, <2>2, <2>5
<1>9. CASE d.card = "artisan" /\ d.step # 0
  <2>1. OnResolve(g, d, answer) = {PutOnDeck(g, p, c)}
    BY <1>9 DEF OnResolve, ArtisanOnResolve
  <2> QED
    BY <1>1, <2>1, PutOnDeckLocal, LocalSincere
<1> QED
  BY <1>5, <1>6, <1>7, <1>8, <1>9 DEF Gains

\* Remodel and Mine, first question.
LEMMA TrashSincere ==
  ASSUME NEW g, Ready(g), ~g.err, NEW d \in Decision,
         Answerable(g.players[d.player], d),
         d.card \in {"remodel", "mine"}, d.step = 0, NEW answer, answer.list \in Bag
  PROVE  \A k \in OnResolve(g, d, answer) : Sincere(g, d, answer, k)
<1> DEFINE p == d.player
           list == answer.list
           h == TrashFromHand(g, p, list)
<1>1. /\ g \in GameStates /\ p \in Players /\ h \in LocalTo(g, p)
      /\ g \in LocalTo(g, p) /\ g.players[p].hand \in Bag
  BY PlayersFact, TrashFromHandLocal, LocalSelf DEF Ready, Decision, PlayerState
<1> HIDE DEF h
<1>2. \A n : \A x \in {"remodel", "mine"} :
        Sincere(g, d, answer, RequestDecision(h, p, x, 1, GainPrompt(n)))
  BY <1>1, AskedSincere DEF Answerable, GainPrompt, NoPrompt
<1>3. CASE d.card = "remodel"
  <2>1. ASSUME Obeys(g, d, answer) PROVE Size(list) = 1
    <3>1. d.min = 1 /\ d.max = 1 /\ HasCard(g.players[p])
      BY <1>3 DEF Answerable
    <3>2. Offered(g, d) = g.players[p].hand
      BY <1>1, <1>3, WholeHandOffered
    <3>3. Size(Offered(g, d)) > 0 /\ Size(Offered(g, d)) \in Nat
      BY <1>1, <3>1, <3>2, SizeSome, SizeIsNat DEF HasCard
    <3>4. AsksForList(d)
      BY <1>3 DEF AsksForList
    <3>5. /\ Size(list) \in Nat
          /\ \/ d.min <= Size(list) /\ Size(list) <= d.max
             \/ Size(Offered(g, d)) < d.min /\ list = Offered(g, d)
      BY <1>1, <2>1, <3>4, ListObeys
    <3> QED
      BY <3>1, <3>3, <3>5
  <2>2. OnResolve(g, d, answer)
          = IF Size(list) # 1 THEN {Fail(g)}
            ELSE {RequestDecision(h, p, "remodel", 1, GainPrompt(Cost[c] + 2)) :
                    c \in {d1 \in Cards : list = OneOf(d1)}}
    BY <1>3 DEF OnResolve, RemodelOnResolve, h
  <2> QED
    BY <1>2, <2>1, <2>2, FailSincere
<1>4. CASE d.card = "mine"
  <2>1. OnResolve(g, d, answer)
          = IF list = EmptyBag THEN {g}
            ELSE {RequestDecision(h, p, "mine", 1, GainPrompt(Cost[c] + 3)) :
                    c \in {d1 \in Cards : list[d1] > 0}}
    BY <1>4 DEF OnResolve, MineOnResolve, h
  <2> QED
    BY <1>1, <1>2, <2>1, LocalSincere
<1> QED
  BY <1>3, <1>4

LEMMA HarbingerSincere ==
  ASSUME NEW g, Ready(g), ~g.err, NEW d, d.card = "harbinger", NEW answer
  PROVE  \A k \in OnResolve(g, d, answer) : Sincere(g, d, answer, k)
<1> DEFINE p == d.player
           c == answer.choice
           taken == [g EXCEPT !.players[p].discard = DropOne(@, c),
                              !.players[p].top = Append(@, c)]
<1>1. \A k \in OnResolve(g, d, answer) : k = g \/ k = taken
  BY DEF OnResolve, HarbingerOnResolve
<1>2. taken.decision = NoDecision /\ taken.err = g.err /\ g.decision = NoDecision
  BY DEF Ready, GameStates
<1> HIDE DEF taken
<1> QED
  BY <1>1, <1>2 DEF Sincere, Truthful

\* A card played from where it is.
LEMMA PlayedTruthful ==
  ASSUME NEW g, Ready(g), NEW c, NEW zone, Holds(g, c, zone),
         NEW k \in PlayCardFromZone(g, g.current, c, zone)
  PROVE  Truthful(k) /\ k.err = g.err
<1> DEFINE h == InPlayFrom(g, c, zone)
<1>1. PlayCardFromZone(g, g.current, c, zone) = OnPlay(h, g.current, c)
  BY DEF PlayCardFromZone, PlayCardInPlace, InPlayFrom, Holds
<1>2. Ready(h) /\ h \in Quiet(g) /\ h.current = g.current
  BY InPlayQuiet
<1> HIDE DEF h
<1>3. k \in Quiet(h) /\ Truthful(k)
  BY <1>1, <1>2, OnPlayQuiet, OnPlayTruthful
<1> QED
  BY <1>2, <1>3 DEF Quiet, Gentle

LEMMA VassalSincere ==
  ASSUME NEW g, Ready(g), ~g.err, NEW d \in Decision, d.card = "vassal",
         Answerable(g.players[d.player], d), d.player = g.current, NEW answer
  PROVE  \A k \in OnResolve(g, d, answer) : Sincere(g, d, answer, k)
<1>1. d.shown # <<>> /\ d.shown \in Seq(Cards)
      /\ g.players[g.current].discard[d.shown[1]] > 0
  BY DEF Answerable, Decision
<1>2. d.shown[1] \in Cards
  BY <1>1
<1>3. Holds(g, d.shown[1], "discard")
  BY <1>1, <1>2 DEF Holds
<1>4. OnResolve(g, d, answer)
        = IF answer.yes THEN PlayCardFromZone(g, g.current, d.shown[1], "discard") ELSE {g}
  BY DEF OnResolve, VassalOnResolve
<1>5. Sincere(g, d, answer, g)
  BY LocalSelf, LocalSincere DEF Ready
<1> QED
  BY <1>3, <1>4, <1>5, PlayedTruthful DEF Sincere

LEMMA ThroneRoomSincere ==
  ASSUME NEW g, Ready(g), ~g.err, NEW d \in Decision, d.card = "throne_room",
         d.player = g.current, NEW answer
  PROVE  \A k \in OnResolve(g, d, answer) : Sincere(g, d, answer, k)
<1> DEFINE p == g.current
           c == answer.choice
           queued == [g EXCEPT !.pendingPlays = Append(@, [player |-> p, card |-> c])]
           h == Doubled(g, c)
<1>1. OnResolve(g, d, answer) = ThroneRoomOnResolve(g, p, answer)
  BY DEF OnResolve
<1>2. CASE ~InHand(g, p, c)
  <2>1. ThroneRoomOnResolve(g, p, answer) = {Fail(g)}
    BY <1>2 DEF ThroneRoomOnResolve, PlayCardFromZone, InHand
  <2>2. ~Obeys(g, d, answer)
    BY <1>2 DEF Obeys, ObedientChoices, AsksForList, ListCards, YesNoCards, InHand
  <2> QED
    BY <1>1, <2>1, <2>2, FailSincere
<1>3. CASE InHand(g, p, c)
  <2>1. /\ Ready(h) /\ h.current = p
        /\ ThroneRoomOnResolve(g, p, answer) = OnPlay(h, p, c)
    BY <1>3, DoubledReady
  <2>2. queued \in GameStates /\ queued.err = g.err
    <3>1. g \in GameStates /\ [player |-> p, card |-> c] \in PendingPlay
      BY <1>3, PlayersFact DEF Ready, InHand, PendingPlay
    <3>2. Append(g.pendingPlays, [player |-> p, card |-> c]) \in Seq(PendingPlay)
      BY <3>1 DEF GameStates
    <3> QED
      BY <3>1, <3>2 DEF GameStates
  <2>3. h = InPlayFrom(queued, c, "hand")
    BY DEF Doubled
  <2> HIDE DEF queued, h
  <2>4. ~h.err
    BY <2>2, <2>3, InPlayTouches
  <2>5. \A k \in OnPlay(h, p, c) : k \in Quiet(h) /\ Truthful(k)
    BY <2>1, OnPlayQuiet, OnPlayTruthful
  <2> QED
    BY <1>1, <2>1, <2>4, <2>5 DEF Quiet, Gentle, Sincere
<1> QED
  BY <1>2, <1>3

LEMMA LibrarySincere ==
  ASSUME NEW g, Ready(g), ~g.err, NEW d, d.card = "library", d.player = g.current,
         InSeq(d.shown[1], g.players[g.current].setAside), NEW answer
  PROVE  \A k \in OnResolve(g, d, answer) : Sincere(g, d, answer, k)
<1> DEFINE p == g.current
           kept == Kept(g, d.shown[1])
           from == IF answer.yes THEN g ELSE kept
<1>1. from \in Beside(g, p)
  BY KeptBeside, LocalSelf DEF LocalTo, Ready
<1>2. OnResolve(g, d, answer) = LibraryStep(from, p)
  BY DEF OnResolve, LibraryOnResolve, Kept
<1> HIDE DEF from
<1>3. Ready(from) /\ from.current = p /\ from.err = g.err
  BY <1>1, BesideBrowsed DEF Beside
<1>4. \A k \in LibraryStep(from, p) : Truthful(k) /\ k \in Browsed(from)
  BY <1>3, LibraryTruthful, LibraryBrowses
<1> QED
  BY <1>2, <1>3, <1>4 DEF Browsed, Sincere

\* How often card c is among the first k names of s.
CountUpTo(s, c, k) == Cardinality({i \in 1..k : s[i] = c})

LEMMA CountsUpTo ==
  ASSUME NEW s \in Seq(Cards), NEW c \in Cards
  PROVE  /\ CountUpTo(s, c, 0) = 0
         /\ \A k \in 0..Len(s) : CountUpTo(s, c, k) \in Nat
                                 /\ CountUpTo(s, c, k) <= BagOfSeq(s)[c]
         /\ \A k \in 0..(Len(s) - 1) :
              CountUpTo(s, c, k + 1) = CountUpTo(s, c, k) + OneOf(s[k + 1])[c]
<1> DEFINE In(k) == {i \in 1..k : s[i] = c}
<1>1. BagOfSeq(s)[c] = Cardinality(Places(s, c))
  BY DEF BagOfSeq, Places
<1>2. IsFiniteSet(Places(s, c)) /\ Cardinality(Places(s, c)) \in Nat
  BY PlacesFinite
<1>3. ASSUME NEW k \in 0..Len(s)
      PROVE  IsFiniteSet(In(k)) /\ Cardinality(In(k)) <= Cardinality(Places(s, c))
  <2>1. In(k) \subseteq Places(s, c)
    <3>1. DOMAIN s = 1..Len(s) /\ Len(s) \in Nat
      BY LenProperties
    <3> QED
      BY <3>1 DEF Places
  <2> QED
    BY <1>2, <2>1, FS_Subset
<1>4. In(0) = {}
  OBVIOUS
<1>5. ASSUME NEW k \in 0..(Len(s) - 1)
      PROVE  Cardinality(In(k + 1)) = Cardinality(In(k)) + OneOf(s[k + 1])[c]
  <2>1. k \in 0..Len(s) /\ k + 1 \in 1..Len(s)
    BY LenProperties
  <2>2. CASE s[k + 1] = c
    <3>1. In(k + 1) = In(k) \cup {k + 1} /\ k + 1 \notin In(k)
      BY <2>1, <2>2
    <3>2. OneOf(s[k + 1])[c] = 1
      BY <2>2 DEF OneOf
    <3> HIDE DEF In
    <3> QED
      BY <1>3, <2>1, <3>1, <3>2, FS_AddElement
  <2>3. CASE s[k + 1] # c
    <3>1. In(k + 1) = In(k)
      BY <2>1, <2>3
    <3>2. OneOf(s[k + 1])[c] = 0
      BY <2>3 DEF OneOf
    <3> HIDE DEF In
    <3>3. Cardinality(In(k)) \in Nat
      BY <1>3, <2>1, FS_CardinalityType
    <3> QED
      BY <3>1, <3>2, <3>3
  <2> QED
    BY <2>2, <2>3
<1> HIDE DEF In
<1>6. \A k \in 0..Len(s) : Cardinality(In(k)) \in Nat
  BY <1>3, FS_CardinalityType
<1>7. \A k : CountUpTo(s, c, k) = Cardinality(In(k))
  BY DEF CountUpTo, In
<1>8. Cardinality(In(0)) = 0
  BY <1>4, FS_EmptySet
<1> QED
  BY <1>1, <1>3, <1>5, <1>6, <1>7, <1>8

LEMMA CountedIsIn ==
  ASSUME NEW s \in Seq(Cards), NEW c \in Cards, BagOfSeq(s)[c] > 0
  PROVE  InSeq(c, s)
<1>1. BagOfSeq(s)[c] = Cardinality(Places(s, c))
  BY DEF BagOfSeq, Places
<1>2. Places(s, c) # {}
  <2>1. Cardinality(Places(s, c)) # 0
    BY <1>1
  <2>2. Cardinality({}) = 0
    BY FS_EmptySet
  <2> QED
    BY <2>1, <2>2
<1> QED
  BY <1>2 DEF Places, InSeq

\* A move of a Sentry raises no error before the last question, nor for a card
\* that is set aside, and takes that card away.
LEMMA SentryMoveTakes ==
  ASSUME NEW g \in GameStates, ~g.err, NEW p, p = g.current, NEW x, NEW step \in 0..2
  PROVE  LET k == SentryMove(g, p, x, step)
         IN  /\ step # 2 => ~k.err
             /\ InSeq(x, g.players[p].setAside) =>
                  /\ ~k.err
                  /\ k.players[p].setAside = WithoutCard(g.players[p].setAside, x)
<1> DEFINE w == WithoutCard(g.players[p].setAside, x)
           out == [g EXCEPT !.players[p].setAside = WithoutCard(@, x)]
           k == SentryMove(g, p, x, step)
<1>1. p \in Players /\ g.players \in [Players -> PlayerState]
  BY PlayersFact
<1>2. CASE ~InSeq(x, g.players[p].setAside)
  BY <1>2 DEF SentryMove
<1>3. CASE InSeq(x, g.players[p].setAside)
  <2>1. k \in {[out EXCEPT !.trash = AddOne(@, x)],
               [out EXCEPT !.players[p].discard = AddOne(@, x)],
               [out EXCEPT !.players[p].top = Append(@, x)]}
    BY <1>3 DEF SentryMove
  <2>2. /\ out.err = g.err /\ DOMAIN out = DOMAIN g /\ DOMAIN out.players = Players
        /\ out.players[p] = [g.players[p] EXCEPT !.setAside = w]
    BY <1>1 DEF GameStates
  <2>3. /\ out.players[p].setAside = w
        /\ DOMAIN out.players[p] = DOMAIN g.players[p]
    BY <1>1, <2>2 DEF PlayerState
  <2>4. {"err", "players", "trash"} \subseteq DOMAIN g
        /\ {"setAside", "discard", "top"} \subseteq DOMAIN g.players[p]
    BY <1>1 DEF GameStates, PlayerState
  <2> HIDE DEF out, w, k
  <2>5. /\ [out EXCEPT !.trash = AddOne(@, x)].err = g.err
        /\ [out EXCEPT !.trash = AddOne(@, x)].players[p].setAside = w
    BY <2>2, <2>3, <2>4
  <2>6. /\ [out EXCEPT !.players[p].discard = AddOne(@, x)].err = g.err
        /\ [out EXCEPT !.players[p].discard = AddOne(@, x)].players[p].setAside = w
    BY <1>1, <2>2, <2>3, <2>4
  <2>7. /\ [out EXCEPT !.players[p].top = Append(@, x)].err = g.err
        /\ [out EXCEPT !.players[p].top = Append(@, x)].players[p].setAside = w
    BY <1>1, <2>2, <2>3, <2>4
  <2>8. k.err = g.err /\ k.players[p].setAside = w
    BY <2>1, <2>5, <2>6, <2>7
  <2> QED
    BY <2>8 DEF k, w
<1> QED
  BY <1>2, <1>3

\* A last answer that names the cards set aside finds each of them there.
LEMMA SentryOrderAccepted ==
  ASSUME NEW g \in GameStates, ~g.err, NEW p, p = g.current,
         NEW s \in Seq(Cards), NEW shown, shown = g.players[p].setAside,
         SameNames(s, shown)
  PROVE  ~SentryMoves(g, p, s, 2).err
<1> DEFINE left(k) ==
             {h \in Moved(g) :
                /\ ~h.err
                /\ \A c \in Cards : BagOfSeq(h.players[p].setAside)[c]
                                      + CountUpTo(s, c, k) = BagOfSeq(shown)[c]}
           R == [k \in 0..Len(s) |-> left(k)]
<1>1. p \in Players /\ shown \in Seq(Cards) /\ Len(s) \in Nat
      /\ s \in Seq(Cards \cup {NoCard})
  <2>1. p \in Players /\ shown \in Seq(Cards)
    BY PlayersFact DEF PlayerState
  <2>2. s \in Seq(Cards \cup {NoCard})
    BY ElementOfSeq, LenProperties, SeqDef
  <2> QED
    BY <2>1, <2>2, LenProperties
<1>2. \A h \in Moved(g) : \A x : SentryMove(h, p, x, 2) \in Moved(g)
  <2>1. \A h \in Moved(g) : h \in GameStates /\ h.current = p
    BY DEF Moved, SameTurn
  <2> QED
    BY <2>1, SentryMoveMoves, MovedTwice
<1>3. g \in left(0)
  <2>1. \A c \in Cards : BagOfSeq(shown)[c] \in Nat /\ CountUpTo(s, c, 0) = 0
    BY <1>1, SeqIsBag, CountsUpTo DEF Bag
  <2> QED
    BY <2>1, MovedSelf
<1>4. ASSUME NEW k \in 0..(Len(s) - 1), NEW h \in left(k)
      PROVE  SentryMove(h, p, s[k + 1], 2) \in left(k + 1)
  <2> DEFINE x == s[k + 1]
             n == SentryMove(h, p, x, 2)
             aside == h.players[p].setAside
  <2>1. h \in GameStates /\ h.current = p /\ ~h.err /\ aside \in Seq(Cards)
    BY <1>1, PlayersFact DEF Moved, SameTurn, PlayerState
  <2>2. k \in 0..Len(s) /\ k + 1 \in 0..Len(s) /\ k + 1 \in 1..Len(s)
    BY <1>1
  <2>3. x \in Cards
    BY <2>2, ElementOfSeq
  <2>4. ASSUME NEW c \in Cards
        PROVE  /\ BagOfSeq(aside)[c] \in Nat /\ CountUpTo(s, c, k) \in Nat
               /\ BagOfSeq(aside)[c] + CountUpTo(s, c, k) = BagOfSeq(shown)[c]
               /\ CountUpTo(s, c, k + 1) = CountUpTo(s, c, k) + OneOf(x)[c]
               /\ CountUpTo(s, c, k + 1) <= BagOfSeq(s)[c]
               /\ BagOfSeq(s)[c] <= BagOfSeq(shown)[c]
               /\ BagOfSeq(s)[c] \in Nat /\ BagOfSeq(shown)[c] \in Nat
               /\ OneOf(x)[c] \in Nat
    <3>1. BagOfSeq(aside) \in Bag /\ BagOfSeq(s) \in Bag /\ BagOfSeq(shown) \in Bag
      BY <1>1, <2>1, SeqIsBag
    <3>2. OneOf(x) \in Bag
      BY BagTypes
    <3> HIDE DEF x
    <3> QED
      BY <2>2, <3>1, <3>2, CountsUpTo DEF Bag, SameNames, x
  <2>5. InSeq(x, aside)
    <3>1. OneOf(x)[x] = 1
      BY <2>3 DEF OneOf
    <3> HIDE DEF x, aside
    <3>2. BagOfSeq(aside)[x] > 0
      BY SMTT(30), <2>3, <2>4, <3>1
    <3> QED
      BY <2>1, <2>3, <3>2, CountedIsIn
  <2>6. ~n.err /\ n.players[p].setAside = WithoutCard(aside, x)
    BY <2>1, <2>5, SentryMoveTakes
  <2>7. n \in Moved(g)
    BY <1>2
  <2> HIDE DEF n, x, aside
  <2>8. ASSUME NEW c \in Cards
        PROVE  BagOfSeq(n.players[p].setAside)[c] + CountUpTo(s, c, k + 1)
                 = BagOfSeq(shown)[c]
    <3>1. /\ WithoutCard(aside, x) \in Seq(Cards)
          /\ BagOfSeq(WithoutCard(aside, x))[c] + OneOf(x)[c] = BagOfSeq(aside)[c]
      BY <2>1, <2>5, WithoutCardTakes
    <3>2. BagOfSeq(WithoutCard(aside, x))[c] \in Nat
      BY <3>1, SeqIsBag DEF Bag
    <3> QED
      BY <2>4, <2>6, <3>1, <3>2
  <2> QED
    BY <2>6, <2>7, <2>8 DEF n, x
<1> HIDE DEF left
<1>5. R \in [0..Len(s) -> SUBSET Moved(g)]
  BY DEF left
<1>6. g \in R[0] /\ \A k \in 0..(Len(s) - 1) : \A h \in R[k] :
                      SentryMove(h, p, s[k + 1], 2) \in R[k + 1]
  BY <1>1, <1>3, <1>4
<1>7. SentryMoves(g, p, s, 2) \in R[Len(s)]
  <2> HIDE DEF R
  <2> QED
    BY <1>1, <1>2, <1>5, <1>6, SentryMovesRounds
<1> QED
  BY <1>1, <1>7 DEF left

LEMMA SentrySincere ==
  ASSUME NEW g, Ready(g), ~g.err, NEW d \in Decision, d.card = "sentry",
         Answerable(g.players[d.player], d), d.player = g.current, NEW answer,
         answer.order \in Seq(Cards \cup {NoCard})
  PROVE  \A k \in OnResolve(g, d, answer) : Sincere(g, d, answer, k)
<1> DEFINE p == g.current
           h == SentryMoves(g, p, answer.order, d.step)
           left == h.players[p].setAside
           back == SetAsideToDeck(h, p)
           asked == RequestDecision(h, p, "sentry", d.step + 1, ShownPrompt(left))
           k == IF h.err THEN h
                ELSE IF d.step = 2 THEN back
                ELSE SentryAdvance(h, p, d.step)
<1>1. d.step \in 0..2 /\ g \in GameStates /\ p \in Players
  BY PlayersFact DEF Decision, Ready
<1>2. h \in Moved(g)
  BY <1>1, SentryMovesMoves
<1>3. h \in GameStates /\ h.current = p /\ h.decision = NoDecision /\ Truthful(h)
  BY <1>2 DEF Moved, SameTurn, Ready, Truthful
<1>4. OnResolve(g, d, answer) = {k}
  BY DEF OnResolve, SentryOnResolve
<1>5. SentryAdvance(h, p, d.step) =
        IF left = <<>> THEN h
        ELSE IF d.step = 1 /\ Len(left) = 1 THEN back ELSE asked
  BY DEF SentryAdvance
<1>6. Obeys(g, d, answer) => ~h.err
  <2>1. CASE d.step = 2
    <3>1. d.shown = g.players[p].setAside
      BY <2>1 DEF Answerable
    <3>2. ASSUME Obeys(g, d, answer)
          PROVE  answer.order \in Seq(Cards) /\ SameNames(answer.order, d.shown)
      BY <2>1, <3>2 DEF Obeys, AsksForList, ListCards
    <3> QED
      BY <1>1, <2>1, <3>1, <3>2, SentryOrderAccepted
  <2>2. CASE d.step # 2
    <3> DEFINE S == {x \in Moved(g) : ~x.err}
    <3>1. g \in S
      BY <1>1, MovedSelf
    <3>2. ASSUME NEW x \in S, NEW c PROVE SentryMove(x, p, c, d.step) \in S
      <4>1. x \in GameStates /\ x.current = p /\ ~x.err
        BY DEF Moved, SameTurn
      <4>2. SentryMove(x, p, c, d.step) \in Moved(g)
        BY <1>1, <4>1, SentryMoveMoves, MovedTwice
      <4>3. ~SentryMove(x, p, c, d.step).err
        BY <1>1, <2>2, <4>1, SentryMoveTakes
      <4> QED
        BY <4>2, <4>3
    <3> HIDE DEF S
    <3>3. h \in S
      BY <3>1, <3>2, SentryMovesStay
    <3> QED
      BY <3>3 DEF S
  <2> QED
    BY <2>1, <2>2
<1> HIDE DEF h
<1>7. back.decision = NoDecision /\ back.err = h.err
  BY <1>3, SetAsideToDeckBeside DEF Beside, Moved
<1>8. d.step # 2 => Truthful(asked) /\ asked.err = h.err
  <2>1. Truthful(asked)
    BY SMTT(30), <1>3, AskedTruthful DEF Answerable, ShownPrompt, NoPrompt
  <2> QED
    BY <1>3, <2>1 DEF RequestDecision, GameStates
<1>9. Truthful(k) /\ k.err = h.err
  BY <1>3, <1>5, <1>7, <1>8 DEF Truthful
<1> QED
  BY <1>4, <1>6, <1>9 DEF Sincere

\* Whatever asked: an answer leads to a question that can be answered, if to
\* any, and an obedient one to no error.
LEMMA OnResolveSincere ==
  ASSUME NEW g, Ready(g), ~g.err, NEW d \in Decision,
         Answerable(g.players[d.player], d), NEW answer,
         d.card \in AttackAskers \/ d.player = g.current,
         d.card = "library" => InSeq(d.shown[1], g.players[d.player].setAside),
         ListPrompt(d) => answer.list \in Bag,
         d.card = "sentry" => answer.order \in Seq(Cards \cup {NoCard}),
         Obedient => Obeys(g, d, answer)
  PROVE  \A k \in OnResolve(g, d, answer) : Sincere(g, d, answer, k)
<1>1. d.card \in Askers /\ (d.card \notin AttackAskers => d.player = g.current)
  BY DEF Decision
<1>2. AsksForList(d) <=> ListPrompt(d)
  BY DEF AsksForList, ListCards, ListPrompt
<1>3. CASE d.card \in {"militia", "bureaucrat", "cellar", "chapel", "poacher", "moneylender"}
  BY <1>3, HandSincere DEF ListPrompt
<1>4. CASE d.card = "bandit"
  BY <1>4, BanditSincere
<1>5. CASE d.card \in {"workshop", "artisan", "remodel", "mine"} /\ ~AsksForList(d)
  BY <1>5, GainSincere DEF Gains
<1>6. CASE d.card \in {"remodel", "mine"} /\ AsksForList(d)
  <2>1. d.step = 0
    BY <1>6 DEF AsksForList, ListCards
  <2> QED
    BY <1>2, <1>6, <2>1, TrashSincere
<1>7. CASE d.card = "harbinger"
  BY <1>7, HarbingerSincere
<1>8. CASE d.card = "vassal"
  BY <1>1, <1>8, VassalSincere DEF AttackAskers
<1>9. CASE d.card = "library"
  BY <1>1, <1>9, LibrarySincere DEF AttackAskers
<1>10. CASE d.card = "sentry"
  BY <1>1, <1>10, SentrySincere DEF AttackAskers
<1>11. CASE d.card = "throne_room"
  BY <1>1, <1>11, ThroneRoomSincere DEF AttackAskers
<1> QED
  BY <1>1, <1>3, <1>4, <1>5, <1>6, <1>7, <1>8, <1>9, <1>10, <1>11
     DEF Askers, AsksForList, ListCards

-----------------------------------------------------------------------------
(***************************************************************************)
(* Calls.                                                                  *)
(***************************************************************************)

\* Answers of clients that obey.
LEMMA AnswersObey ==
  ASSUME Obedient, NEW g \in GameStates, g.decision # NoDecision,
         NEW answer \in Answers(g, g.decision)
  PROVE  Obeys(g, g.decision, answer)
<1> DEFINE d == g.decision
<1>1. d \in Decision
  BY DEF GameStates
<1> HIDE DEF d
<1>2. CASE AsksForList(d)
  <2>1. d.card # "sentry" /\ d.card \notin YesNoCards
    BY <1>2 DEF AsksForList, ListCards, YesNoCards
  <2>2. Answers(g, d) = {[list |-> b] : b \in ObedientLists(g, d)}
    BY <1>2, <2>1 DEF Answers, Lists
  <2>3. answer.list \in ObedientLists(g, d)
    BY <2>2 DEF d
  <2> QED
    BY <1>2, <2>3 DEF Obeys, d
<1>3. CASE ~AsksForList(d) /\ d.card = "sentry"
  <2> DEFINE names == {d.shown[i] : i \in DOMAIN d.shown}
             from(S) == UNION {[1..n -> S] : n \in 0..Len(d.shown)}
  <2>1. d.card \notin YesNoCards
    BY <1>3 DEF YesNoCards
  <2>2. Answers(g, d) = {[order |-> s] : s \in Orders(d)}
    BY <1>3, <2>1 DEF Answers
  <2>3. answer.order \in Orders(d)
    BY <2>2 DEF d
  <2>4. answer.order \in from(names) /\ SameNames(answer.order, d.shown)
        /\ (d.step = 2 => Len(answer.order) = Len(d.shown))
    BY <2>3 DEF Orders, SameNames
  <2>5. d.shown \in Seq(Cards) /\ Len(d.shown) \in Nat
    BY <1>1, LenProperties DEF Decision
  <2>6. names \subseteq Cards
    BY <2>5
  <2> HIDE DEF names
  <2>7. answer.order \in Seq(Cards)
    <3>1. PICK n \in 0..Len(d.shown) : answer.order \in [1..n -> names]
      BY <2>4
    <3>2. n \in Nat /\ answer.order \in [1..n -> Cards]
      BY <2>5, <2>6, <3>1
    <3> QED
      BY <3>2
  <2> QED
    BY <1>3, <2>4, <2>7 DEF Obeys, d
<1>4. CASE ~AsksForList(d) /\ d.card # "sentry" /\ d.card \in YesNoCards
  BY <1>4 DEF Obeys, d
<1>5. CASE ~AsksForList(d) /\ d.card # "sentry" /\ d.card \notin YesNoCards
  <2>1. Answers(g, d) = {[choice |-> c] : c \in ObedientChoices(g, d)}
    BY <1>5 DEF Answers, CardChoices
  <2>2. answer.choice \in ObedientChoices(g, d)
    BY <2>1 DEF d
  <2> QED
    BY <1>5, <2>2 DEF Obeys, d
<1> QED
  BY <1>2, <1>3, <1>4, <1>5

\* What is asked of an answer depends on the hands and the supply alone.
LEMMA SameObeys ==
  ASSUME NEW g, NEW h, h.players = g.players, h.supply = g.supply, NEW d, NEW answer
  PROVE  Obeys(h, d, answer) <=> Obeys(g, d, answer)
<1>1. Offered(h, d) = Offered(g, d)
  BY DEF Offered
<1>2. ObedientLists(h, d) = ObedientLists(g, d)
  BY <1>1 DEF ObedientLists
<1>3. ObedientChoices(h, d) = ObedientChoices(g, d)
  BY DEF ObedientChoices
<1> QED
  BY <1>2, <1>3 DEF Obeys

LEMMA UnwindTruthful ==
  ASSUME NEW g, Ready(g), NEW a \in Outcome(g), Truthful(a), NEW k \in Unwind(a)
  PROVE  Truthful(k)
<1> DEFINE S == {h \in Outcome(g) : Truthful(h)}
<1>1. a.pendingPlays \in Seq(PendingPlay)
  BY OutcomeTypes DEF GameStates
<1>2. ASSUME NEW h \in S PROVE UnwindOne(h) \subseteq S
  <2>1. CASE h.decision # NoDecision \/ Len(h.pendingPlays) = 0
    BY <2>1 DEF UnwindOne
  <2>2. CASE h.decision = NoDecision /\ Len(h.pendingPlays) # 0
    <3> DEFINE x == [h EXCEPT !.pendingPlays = Front(@)]
    <3>1. Ready(h)
      BY <2>2 DEF Outcome, Ready
    <3>2. UnwindOne(h) \subseteq Outcome(g)
      BY <2>2, <3>1, UnwindOneOutcome, OutcomeTwice
    <3>3. /\ Ready(x) /\ x.current = h.current
          /\ \E c : UnwindOne(h) = OnPlay(x, h.current, c)
      BY <2>2, <3>1, UnwindOnePlays
    <3> HIDE DEF x
    <3>4. \A y \in UnwindOne(h) : Truthful(y)
      BY <3>3, OnPlayTruthful
    <3> QED
      BY <3>2, <3>4
  <2> QED
    BY <2>1, <2>2
<1> HIDE DEF S
<1>3. a \in S
  BY DEF S
<1>4. k \in S
  BY <1>1, <1>2, <1>3, UnwindStays
<1> QED
  BY <1>4 DEF S

\* An answer to the pending decision: it leads on to a question that can be
\* answered, and is accepted when it obeys.
LEMMA ResolveSincere ==
  ASSUME NEW g, Sound(g), ~g.err, g.decision # NoDecision, Truthful(g),
         NEW p, NEW id, NEW answer,
         ListPrompt(g.decision) => answer.list \in Bag,
         g.decision.card = "sentry" => answer.order \in Seq(Cards \cup {NoCard}),
         Obedient => Obeys(g, g.decision, answer),
         NEW h \in ApplyResolveDecision(g, p, id, answer)
  PROVE  /\ Truthful(h)
         /\ h.err /\ Obeys(g, g.decision, answer) =>
              h.decision = g.decision /\ ~(id = g.decision.id /\ p = g.decision.player)
<1> DEFINE d == g.decision
           k == [g EXCEPT !.decision = NoDecision]
<1>1. CASE d.id # id \/ d.player # p
  <2>1. h = Fail(g)
    BY <1>1 DEF ApplyResolveDecision
  <2>2. h.decision = g.decision /\ h.players = g.players
    BY <2>1 DEF Fail, Sound, GameStates
  <2> QED
    BY <1>1, <2>2 DEF Truthful
<1>2. CASE ~(d.id # id \/ d.player # p)
  <2>1. d \in Decision /\ g \in GameStates
    BY DEF Sound, GameStates
  <2>2. /\ k \in GameStates /\ k.players = g.players /\ k.current = g.current
        /\ k.decision = NoDecision /\ k.pendingPlays = g.pendingPlays /\ ~k.err
        /\ k.supply = g.supply
    BY DEF Sound, GameStates
  <2>3. PICK a \in OnResolve(k, d, answer) : h \in (IF a.err THEN {a} ELSE Unwind(a))
    BY <1>2 DEF ApplyResolveDecision
  <2>4. Answerable(k.players[d.player], d)
    BY <2>2 DEF Truthful
  <2> HIDE DEF k
  <2>5. Ready(k)
    <3>1. \A x : Replays(k, x) = Replays(g, x)
      BY <2>2 DEF Replays
    <3> QED
      BY <2>2, <3>1 DEF Ready, Sound, ReplaysInPlay
  <2>6. d.card \in AttackAskers \/ d.player = k.current
    BY <2>2 DEF Sound, CurrentAsks
  <2>7. d.card = "library" => InSeq(d.shown[1], k.players[d.player].setAside)
    BY <2>2 DEF Sound, LibraryShown
  <2>8. Obeys(k, d, answer) <=> Obeys(g, d, answer)
    BY <2>2, SameObeys
  <2>9. a \in Settled(k, d) /\ Sincere(k, d, answer, a)
    <3> HIDE DEF d
    <3>1. OnResolve(k, d, answer) \subseteq Settled(k, d)
      BY <2>1, <2>2, <2>5, <2>6, <2>7, OnResolveSettles DEF d
    <3>2. \A x \in OnResolve(k, d, answer) : Sincere(k, d, answer, x)
      BY <2>1, <2>2, <2>4, <2>5, <2>6, <2>7, <2>8, OnResolveSincere DEF d
    <3> QED
      BY <2>3, <3>1, <3>2
  <2>10. CASE a.err
    BY <2>3, <2>8, <2>9, <2>10 DEF Sincere
  <2>11. CASE ~a.err
    <3>1. h \in Unwind(a)
      BY <2>3, <2>11
    <3>2. ~h.err
      BY <2>5, <2>9, <2>11, <3>1, UnwindSettles
    <3>3. Truthful(h)
      BY <2>5, <2>9, <3>1, UnwindTruthful DEF Sincere, Settled
    <3> QED
      BY <3>2, <3>3
  <2> QED
    BY <2>10, <2>11
<1> QED
  BY <1>1, <1>2

\* A card played, found or not.
LEMMA PlayTruthful ==
  ASSUME NEW g, Ready(g), ~g.err, NEW c, NEW h \in ApplyPlayCard(g, g.current, c)
  PROVE  Truthful(h) /\ (h.err => h.decision = NoDecision)
<1> DEFINE p == g.current
           q == g.players[p]
           r == [q EXCEPT !.actions = @ - 1]
           spent == [g EXCEPT !.players[p].actions = @ - 1]
<1>1. p \in Players /\ q \in PlayerState /\ g \in GameStates
  BY PlayersFact DEF Ready
<1>2. ASSUME NEW a, Ready(a), ~a.err, a.current = p,
             NEW k \in PlayCardFromZone(a, p, c, "hand")
      PROVE  Truthful(k) /\ (k.err => k.decision = NoDecision)
  <2>1. CASE Holds(a, c, "hand")
    BY <1>2, <2>1, PlayedTruthful
  <2>2. CASE ~Holds(a, c, "hand")
    <3>1. k = Fail(a)
      BY <1>2, <2>2 DEF PlayCardFromZone, Holds
    <3> QED
      BY <1>2, <3>1, FailQuiet DEF Truthful
  <2> QED
    BY <2>1, <2>2
<1>3. ASSUME HasType(c, "action"), q.actions > 0
      PROVE  Ready(spent) /\ ~spent.err /\ spent.current = p
  <2>1. r \in PlayerState /\ SameOwned(q, r) /\ r.inPlay = q.inPlay
        /\ r.setAside = q.setAside
    <3>1. q.actions - 1 \in Nat
      BY <1>1, <1>3 DEF PlayerState
    <3> HIDE DEF q
    <3> QED
      BY <1>1, <3>1 DEF PlayerState, SameOwned, Owned
  <2>2. spent = [g EXCEPT !.players[p] = r]
    BY <1>1 DEF GameStates
  <2> HIDE DEF r, spent
  <2>3. spent \in LocalTo(g, p)
    BY <1>1, <2>1, <2>2, LocalChange
  <2> QED
    BY <1>1, <2>3, LocalQuiet, LocalTypes
<1> HIDE DEF spent
<1>4. \/ h \in PlayCardFromZone(g, p, c, "hand") \/ h = Fail(g)
      \/ /\ HasType(c, "action") /\ q.actions > 0
         /\ h \in PlayCardFromZone(spent, p, c, "hand")
  BY DEF ApplyPlayCard, spent
<1>5. Truthful(Fail(g)) /\ Fail(g).decision = NoDecision
  BY FailQuiet DEF Truthful
<1> QED
  BY <1>2, <1>3, <1>4, <1>5

\* What an accepted or rejected call leaves: a question that can be answered, if
\* any, and an error only where the question is the one there was.
LEMMA ApplySincere ==
  ASSUME NEW g0, Sound(g0), Truthful(g0), NEW act, WellFormed(g0, act),
         (Obedient /\ act.kind = "resolve" /\ g0.decision # NoDecision)
           => Obeys(g0, g0.decision, act.answer),
         NEW h \in Apply(g0, act)
  PROVE  /\ Truthful(h)
         /\ (h.err /\ Obedient) => h.decision = g0.decision
         /\ h.err /\ ~g0.ended /\ g0.decision # NoDecision /\ act.kind = "resolve"
              /\ act.id = g0.decision.id /\ act.player = g0.decision.player
              => ~Obeys(g0, g0.decision, act.answer)
<1> DEFINE g == [g0 EXCEPT !.err = FALSE]
<1>1. Keeps(g0, g) /\ g.decision = g0.decision
  BY ErrKeeps
<1>2. /\ g.players = g0.players /\ g.supply = g0.supply /\ g.ended = g0.ended /\ ~g.err
  BY DEF Sound, GameStates
<1>3. WellFormed(g, act)
  BY <1>1 DEF WellFormed
<1>4. h \in IF g.ended THEN {Fail(g)}
            ELSE IF g.decision # NoDecision
            THEN IF act.kind = "resolve"
                 THEN ApplyResolveDecision(g, act.player, act.id, act.answer)
                 ELSE {Fail(g)}
            ELSE IF act.player # g.current \/ act.kind = "resolve" THEN {Fail(g)}
            ELSE CASE act.kind = "play" -> ApplyPlayCard(g, act.player, act.card)
                   [] act.kind = "buy" -> ApplyBuyCard(g, act.player, act.card)
                   [] act.kind = "end" -> ApplyEndPhase(g)
  BY DEF Apply
<1> HIDE DEF g
<1>5. Sound(g) /\ g \in GameStates /\ Truthful(g)
  BY <1>1, <1>2 DEF Keeps, Sound, Truthful
<1>6. Obeys(g, g.decision, act.answer) <=> Obeys(g0, g0.decision, act.answer)
  BY <1>1, <1>2, SameObeys
<1>7. CASE h = Fail(g) /\ (g.ended \/ g.decision = NoDecision \/ act.kind # "resolve")
  <2>1. h.decision = g.decision /\ h.players = g.players
    BY <1>5, <1>7 DEF Fail, GameStates
  <2> QED
    BY <1>1, <1>2, <1>5, <1>7, <2>1 DEF Truthful
<1>8. CASE ~g.ended /\ g.decision # NoDecision /\ act.kind = "resolve"
  <2>1. h \in ApplyResolveDecision(g, act.player, act.id, act.answer)
    BY <1>4, <1>8
  <2>2. /\ ListPrompt(g.decision) => act.answer.list \in Bag
        /\ g.decision.card = "sentry" => act.answer.order \in Seq(Cards \cup {NoCard})
    BY <1>3, <1>8 DEF WellFormed
  <2>3. Obedient => Obeys(g, g.decision, act.answer)
    BY <1>1, <1>6, <1>8
  <2>4. /\ Truthful(h)
        /\ h.err /\ Obeys(g, g.decision, act.answer) =>
             /\ h.decision = g.decision
             /\ ~(act.id = g.decision.id /\ act.player = g.decision.player)
    BY <1>2, <1>5, <1>8, <2>1, <2>2, <2>3, ResolveSincere
  <2> QED
    BY <1>1, <1>6, <2>3, <2>4
<1>9. CASE ~g.ended /\ g.decision = NoDecision /\ act.player = g.current
           /\ act.kind # "resolve"
  <2>1. Ready(g)
    BY <1>5, <1>9, SoundReady
  <2>2. SUFFICES Truthful(h) /\ (h.err => h.decision = NoDecision)
    BY <1>1, <1>9
  <2>3. CASE act.kind = "play"
    BY <1>2, <1>4, <1>9, <2>1, <2>3, PlayTruthful
  <2>4. CASE act.kind = "buy"
    <3>1. h \in ApplyBuyCard(g, g.current, act.card) /\ act.card \in Cards
      BY <1>3, <1>4, <1>9, <2>4 DEF WellFormed
    <3>2. h \in Moved(g)
      BY <2>1, <3>1, BuyMoves
    <3> QED
      BY <1>9, <2>1, <3>2, MovedTruthful DEF Moved
  <2>5. CASE act.kind = "end"
    <3>1. h \in ApplyEndPhase(g)
      BY <1>4, <1>9, <2>5
    <3>2. h.decision = NoDecision
      BY <2>1, <3>1, EndTurnPasses, EndActionsKeeps DEF Passed
    <3> QED
      BY <3>2 DEF Truthful
  <2> QED
    BY <1>3, <1>9, <2>3, <2>4, <2>5 DEF WellFormed
<1>10. \/ h = Fail(g) /\ (g.ended \/ g.decision = NoDecision \/ act.kind # "resolve")
       \/ ~g.ended /\ g.decision # NoDecision /\ act.kind = "resolve"
       \/ ~g.ended /\ g.decision = NoDecision /\ act.player = g.current
          /\ act.kind # "resolve"
  BY <1>4
<1> QED
  BY <1>7, <1>8, <1>9, <1>10

-----------------------------------------------------------------------------
(***************************************************************************)
(* Theorems.                                                               *)
(***************************************************************************)

\* The strengthening: the pending decision relies on nothing that is not so,
\* and there is none after the end.
AInv == IInv /\ Truthful(gs) /\ (gs.ended => gs.decision = NoDecision)

LEMMA InitAInv == Init => AInv
<1> SUFFICES ASSUME Init PROVE Truthful(gs) /\ ~gs.ended
  BY InitIInv DEF AInv
<1>1. gs.decision = NoDecision /\ gs.ended = FALSE
  BY DEF Init, NewGame
<1> QED
  BY <1>1 DEF Truthful

LEMMA StepSincere ==
  ASSUME AInv, Next
  PROVE  /\ AInv'
         /\ (gs'.err /\ Obedient) => gs'.decision = gs.decision
<1>1. PICK act : /\ WellFormed(gs, act) /\ Given(act)
                 /\ gs' \in Apply(gs, act) /\ (gs'.err => Rejections)
  BY StepIsCall DEF AInv
<1>2. Sound(gs) /\ gs \in GameStates /\ Truthful(gs)
  BY DEF AInv, IInv, Sound
<1>3. (Obedient /\ act.kind = "resolve" /\ gs.decision # NoDecision)
        => Obeys(gs, gs.decision, act.answer)
  BY <1>1, <1>2, AnswersObey DEF Given
<1>4. Truthful(gs') /\ ((gs'.err /\ Obedient) => gs'.decision = gs.decision)
  BY <1>1, <1>2, <1>3, ApplySincere
<1>5. gs'.ended => gs'.decision = NoDecision
  <2>1. Visible(gs, gs')
    BY CallOfStep DEF AInv
  <2> QED
    BY <2>1 DEF AInv, Visible, SameTurn
<1>6. IInv'
  BY NextIInv DEF AInv
<1> QED
  BY <1>4, <1>5, <1>6 DEF AInv

LEMMA NextAInv == AInv /\ [Next]_gs => AInv'
<1>1. AInv /\ UNCHANGED gs => AInv'
  BY DEF AInv, IInv, CardsConserved, IdlePlayerIsClean
<1> QED
  BY <1>1, StepSincere

\* A list prompt asks for no more cards than are on offer, but for a Poacher's.
LEMMA ListCanBeGiven ==
  ASSUME NEW g \in GameStates, NEW d \in Decision, AsksForList(d),
         Answerable(g.players[d.player], d)
  PROVE  /\ ObedientLists(g, d) # {}
         /\ Size(Offered(g, d)) < d.min => d.card = "poacher"
<1> DEFINE q == g.players[d.player]
           b == Offered(g, d)
<1>1. q \in PlayerState /\ q.hand \in Bag /\ d.min \in Nat /\ d.max \in Nat
  BY PlayersFact DEF Decision, PlayerState
<1>2. \A c \in Cards : b[c] = IF Passes(d, c) THEN q.hand[c] ELSE 0
  BY DEF Offered
<1>3. b \in Bag
  <2>1. b = [c \in Cards |-> b[c]]
    BY DEF Offered
  <2>2. \A c \in Cards : b[c] \in Nat
    BY <1>1, <1>2 DEF Bag
  <2> HIDE DEF b
  <2> QED
    BY <2>1, <2>2 DEF Bag
<1>4. Size(b) \in Nat
  BY <1>3, SizeIsNat
<1>5. d.min <= d.max
  BY <1>1 DEF AsksForList, ListCards, Answerable
<1>6. d.card = "poacher" \/ d.min <= Size(b)
  <2>1. CASE d.card = "militia"
    BY <1>1, <1>4, <2>1, WholeHandOffered DEF Answerable
  <2>2. CASE d.card = "bureaucrat"
    <3>1. PICK c \in Cards : q.hand[c] > 0 /\ HasType(c, "victory")
      BY <2>2 DEF Answerable, HasCardOf
    <3>2. b[c] > 0
      BY <1>2, <2>2, <3>1 DEF Passes
    <3>3. Size(b) > 0
      BY <1>3, <3>2, SizeSome
    <3> HIDE DEF b
    <3> QED
      BY <1>4, <2>2, <3>3 DEF Answerable
  <2>3. CASE d.card = "remodel"
    <3>1. d.step = 0
      BY <2>3 DEF AsksForList, ListCards
    <3>2. PICK c \in Cards : q.hand[c] > 0
      BY <2>3, <3>1 DEF Answerable, HasCard
    <3>3. b = q.hand
      BY <2>3, WholeHandOffered
    <3>4. Size(b) > 0
      BY <1>3, <3>2, <3>3, SizeSome
    <3> HIDE DEF b
    <3> QED
      BY <1>4, <2>3, <3>1, <3>4 DEF Answerable
  <2>4. CASE d.card \in {"cellar", "chapel", "moneylender"} \/ d.card = "mine"
    <3>1. d.min = 0
      BY <2>4 DEF Answerable, AsksForList, ListCards
    <3> HIDE DEF b
    <3> QED
      BY <1>4, <3>1
  <2> QED
    BY <2>1, <2>2, <2>3, <2>4 DEF AsksForList, ListCards
<1> HIDE DEF b
<1>7. CASE d.min <= Size(b)
  <2>1. PICK part \in SubBags(b) : Size(part) = d.min
    BY <1>1, <1>3, <1>7, PartOfSize
  <2>2. part \in ObedientLists(g, d)
    BY <1>1, <1>5, <2>1 DEF ObedientLists, b
  <2> QED
    BY <1>1, <1>4, <1>7, <2>2 DEF b
<1>8. CASE ~(d.min <= Size(b))
  <2>1. b \in SubBags(b) /\ Size(b) < d.min
    BY <1>1, <1>3, <1>4, <1>8, WholeIsPart
  <2>2. b \in ObedientLists(g, d)
    BY <2>1 DEF ObedientLists, b
  <2> QED
    BY <1>6, <1>8, <2>2 DEF b
<1> QED
  BY <1>7, <1>8

\* The prompts that offer piles of the supply.
AsksForGain(d) ==
  /\ d.card \in {"workshop", "artisan", "remodel", "mine"} /\ ~AsksForList(d)
  /\ ~(d.card = "artisan" /\ d.step = 1)

\* A card to choose is there; a pile is, while there are Coppers to gain.
LEMMA ChoiceCanBeMade ==
  ASSUME Obedient, NEW g \in GameStates, NEW d \in Decision,
         AsksForGain(d) => g.supply["copper"] > 0, Answerable(g.players[d.player], d),
         ~AsksForList(d), d.card # "sentry", d.card \notin YesNoCards
  PROVE  ObedientChoices(g, d) # {}
<1> DEFINE q == g.players[d.player]
<1>1. CASE d.card = "bandit"
  <2>1. d.shown \in Seq(Cards) /\ d.shown # <<>>
    BY <1>1 DEF Decision, Answerable
  <2>2. 1 \in DOMAIN d.shown /\ d.shown[1] \in Cards
    BY <2>1
  <2>3. IsNonCopperTreasure(d.shown[1]) /\ InSeq(d.shown[1], d.shown)
    BY <1>1, <2>2 DEF Answerable, InSeq
  <2>4. d.shown[1] \in ObedientChoices(g, d)
    BY <1>1, <2>2, <2>3 DEF ObedientChoices
  <2> QED
    BY <2>4
<1>2. CASE d.card = "harbinger"
  <2>1. NoCard \in ObedientChoices(g, d)
    BY <1>2 DEF ObedientChoices
  <2> QED
    BY <2>1
<1>3. CASE d.card = "throne_room"
  <2>1. PICK c \in Cards : q.hand[c] > 0 /\ HasType(c, "action")
    BY <1>3 DEF Answerable, HasCardOf
  <2>2. c \in ObedientChoices(g, d)
    BY <1>3, <2>1 DEF ObedientChoices
  <2> QED
    BY <2>2
<1>4. CASE d.card = "artisan" /\ d.step = 1
  <2>1. PICK c \in Cards : q.hand[c] > 0
    BY <1>4 DEF Answerable, HasCard
  <2>2. c \in ObedientChoices(g, d)
    BY <1>4, <2>1 DEF ObedientChoices
  <2> QED
    BY <2>2
<1>5. CASE d.card \in {"workshop", "artisan", "remodel", "mine"}
           /\ ~(d.card = "artisan" /\ d.step = 1)
  <2>1. "copper" \in Cards /\ HasType("copper", "treasure") /\ Cost["copper"] = 0
    BY CardsAssumption DEF BasicCards, HasType, CardTypes, Cost
  <2>2. d.limit \in Nat
    BY DEF Decision
  <2>3. Cost["copper"] <= d.limit
    BY <2>1, <2>2
  <2>4. /\ d.card # "bandit" /\ d.card # "harbinger" /\ d.card # "throne_room"
    BY <1>5
  <2>5. ObedientChoices(g, d)
          = {c \in Cards : /\ g.supply[c] > 0 /\ Cost[c] <= d.limit
                           /\ d.card = "mine" => HasType(c, "treasure")}
    BY <1>5, <2>4 DEF ObedientChoices
  <2>6. g.supply["copper"] > 0
    BY <1>5 DEF AsksForGain
  <2>7. "copper" \in ObedientChoices(g, d)
    BY <2>1, <2>3, <2>5, <2>6
  <2> QED
    BY <2>7
<1>6. d.card \in Askers
  BY DEF Decision
<1> QED
  BY <1>1, <1>2, <1>3, <1>4, <1>5, <1>6 DEF Askers, ListCards, YesNoCards, AsksForList

\* Every prompt can be obeyed, a gain as long as there are Coppers; only a Poacher
\* asks for more cards than are in hand; and every answer that obeys is accepted,
\* with the replays it sets off.  (A gain prompt is made whether or not any pile is
\* cheap enough, so without the condition it may offer nothing.)
THEOREM PromptsCanBeObeyed ==
  Spec => [](\/ AsksForGain(gs.decision) /\ gs.supply["copper"] = 0
             \/ PromptsAreHonest)
<1>1. AInv => \/ AsksForGain(gs.decision) /\ gs.supply["copper"] = 0
              \/ PromptsAreHonest
  <2> DEFINE d == gs.decision
             obedient == IF AsksForList(d) THEN {[list |-> b] : b \in ObedientLists(gs, d)}
                         ELSE Answers(gs, d)
             act(answer) == [kind |-> "resolve", player |-> d.player, id |-> d.id,
                             answer |-> answer]
  <2> SUFFICES ASSUME AInv, ~(AsksForGain(d) /\ gs.supply["copper"] = 0),
                      d # NoDecision, Obedient
               PROVE  /\ obedient # {}
                      /\ AsksForList(d) /\ Size(Offered(gs, d)) < d.min
                           => d.card = "poacher"
                      /\ \A answer \in obedient :
                           \A h \in Apply(gs, act(answer)) : ~h.err
    BY DEF PromptsAreHonest
  <2>1. /\ Sound(gs) /\ gs \in GameStates /\ d \in Decision /\ ~gs.ended
        /\ Truthful(gs) /\ Answerable(gs.players[d.player], d)
    BY DEF AInv, IInv, Sound, GameStates, Truthful
  <2>a. AsksForGain(d) => gs.supply["copper"] > 0
    <3>1. "copper" \in Cards /\ gs.supply \in Bag
      BY <2>1, CardsAssumption DEF BasicCards, GameStates
    <3> HIDE DEF d
    <3> QED
      BY <3>1 DEF Bag
  <2>2. obedient = Answers(gs, d)
    <3>1. CASE AsksForList(d)
      <4>1. d.card # "sentry" /\ d.card \notin YesNoCards
        BY <3>1 DEF AsksForList, ListCards, YesNoCards
      <4>2. Answers(gs, d) = {[list |-> b] : b \in Lists(gs, d)}
        BY <3>1, <4>1 DEF Answers
      <4>3. Lists(gs, d) = ObedientLists(gs, d)
        BY DEF Lists
      <4> QED
        BY <3>1, <4>2, <4>3
    <3>2. CASE ~AsksForList(d)
      BY <3>2
    <3> QED
      BY <3>1, <3>2
  <2>3. obedient # {}
    <3>1. CASE AsksForList(d)
      BY <2>1, <3>1, ListCanBeGiven
    <3>2. CASE ~AsksForList(d) /\ d.card = "sentry"
      <4>1. d.card \notin YesNoCards
        BY <3>2 DEF YesNoCards
      <4>2. Answers(gs, d) = {[order |-> s] : s \in Orders(d)}
        BY <3>2, <4>1 DEF Answers
      <4>3. d.shown \in Orders(d)
        <5> DEFINE names == {d.shown[i] : i \in DOMAIN d.shown}
        <5>1. d.shown \in Seq(Cards) /\ Len(d.shown) \in Nat
          BY <2>1, LenProperties DEF Decision
        <5>2. d.shown \in [1..Len(d.shown) -> names]
          BY <5>1, LenProperties
        <5>3. \A c \in Cards : BagOfSeq(d.shown)[c] <= BagOfSeq(d.shown)[c]
          BY <5>1, SeqIsBag DEF Bag
        <5>4. Len(d.shown) \in 0..Len(d.shown)
          BY <5>1
        <5> QED
          BY <5>2, <5>3, <5>4 DEF Orders
      <4> QED
        BY <2>2, <4>2, <4>3
    <3>3. CASE ~AsksForList(d) /\ d.card # "sentry" /\ d.card \in YesNoCards
      <4>1. Answers(gs, d) = {[yes |-> y] : y \in BOOLEAN}
        BY <3>3 DEF Answers
      <4> QED
        BY <2>2, <4>1
    <3>4. CASE ~AsksForList(d) /\ d.card # "sentry" /\ d.card \notin YesNoCards
      <4>1. Answers(gs, d) = {[choice |-> c] : c \in ObedientChoices(gs, d)}
        BY <3>4 DEF Answers, CardChoices
      <4> QED
        BY <2>1, <2>a, <2>2, <3>4, <4>1, ChoiceCanBeMade
    <3> QED
      BY <3>1, <3>2, <3>3, <3>4
  <2>4. ASSUME NEW answer \in obedient, NEW h \in Apply(gs, act(answer))
        PROVE  ~h.err
    <3>1. answer \in Answers(gs, d)
      BY <2>2
    <3>2. Obeys(gs, d, answer)
      BY <2>1, <3>1, AnswersObey
    <3>3. /\ ListPrompt(d) => answer.list \in Bag
          /\ d.card = "sentry" => answer.order \in Seq(Cards \cup {NoCard})
      BY <2>1, <3>1, AnswerTypes
    <3>4. WellFormed(gs, act(answer))
      BY <3>3 DEF WellFormed
    <3>5. /\ act(answer).kind = "resolve" /\ act(answer).answer = answer
          /\ act(answer).id = d.id /\ act(answer).player = d.player
      OBVIOUS
    <3> HIDE DEF act
    <3> QED
      BY <2>1, <2>4, <3>2, <3>4, <3>5, ApplySincere
  <2>5. AsksForList(d) /\ Size(Offered(gs, d)) < d.min => d.card = "poacher"
    BY <2>1, ListCanBeGiven
  <2> HIDE DEF obedient, act
  <2> QED
    BY <2>3, <2>4, <2>5
<1> QED
  BY <1>1, InitAInv, NextAInv, PTL DEF Spec

\* Clients that answer as they are asked never get an error that clears the
\* decision: for them the design's decision invariant holds.
THEOREM ObedienceKeepsDecisions ==
  ASSUME Obedient
  PROVE  Spec => RejectionKeepsDecision
<1>1. AInv /\ [Next]_gs => [gs'.err => gs'.decision = gs.decision]_gs
  BY StepSincere
<1> QED
  BY <1>1, InitAInv, NextAInv, PTL DEF Spec, RejectionKeepsDecision

\* So for them no replay is lost, and no card is set aside unseen.
THEOREM ObedienceLosesNothing ==
  ASSUME Obedient
  PROVE  Spec => []ReplayAwaitsDecision /\ []SetAsideIsShown
BY ObedienceKeepsDecisions, ReplaysAreMade, SetAsideCardsAreShown, PTL

-----------------------------------------------------------------------------
(***************************************************************************)
(* The bots' answers to the questions of an attack.                        *)
(***************************************************************************)
\* pickFirstN: so many of the cards in hand, when there are as many.
LEMMA PickedFromHand ==
  ASSUME NEW b \in Bag, NEW n \in Nat, n <= Size(b), NEW a \in PickFirstN(b, n)
  PROVE  a \in SubBags(b) /\ a \in Bag /\ Size(a) = n
<1>1. Size(b) \in Nat
  BY SizeIsNat
<1>2. CASE n >= Size(b)
  <2>1. a = b /\ Size(b) = n
    BY <1>1, <1>2 DEF PickFirstN
  <2> QED
    BY <2>1, WholeIsPart
<1>3. CASE ~(n >= Size(b))
  <2>1. PICK copies \in kSubset(n, Copies(b)) : a = Counted(copies)
    BY <1>3 DEF PickFirstN, Counted
  <2>2. copies \in SUBSET Copies(b) /\ Cardinality(copies) = n
    BY DEF kSubset
  <2>3. a \in SubBags(b)
    BY <2>1, <2>2 DEF SubBags, Counted
  <2> QED
    BY <2>1, <2>2, <2>3, CountedSize
<1> QED
  BY <1>2, <1>3

\* The card table of the bots has the Victory cards of the game.
LEMMA BotsKnowVictories ==
  ASSUME NEW c \in Cards
  PROVE  IsVictory(c) <=> HasType(c, "victory")
BY CardsAssumption DEF Registered, CardTypes, HasType, IsVictory

LEMMA NonCopperTreasures ==
  ASSUME NEW c \in Cards
  PROVE  IsNonCopperTreasure(c) <=> c \in {"silver", "gold"}
BY CardsAssumption DEF Registered, CardTypes, HasType, IsNonCopperTreasure

LEMMA OneIsPart ==
  ASSUME NEW b \in Bag, NEW c \in Cards, b[c] > 0
  PROVE  OneOf(c) \in SubBags(b) /\ OneOf(c) \in Bag /\ Size(OneOf(c)) = 1
<1> DEFINE x == <<c, 1>>
<1>1. x \in Copies(b)
  BY DEF Copies, Bag
<1>2. \A d \in Cards : {y \in {x} : y[1] = d} = IF d = c THEN {x} ELSE {}
  OBVIOUS
<1>3. Cardinality({x}) = 1 /\ Cardinality({}) = 0
  BY FS_Singleton, FS_EmptySet
<1>4. Counted({x}) = OneOf(c)
  BY <1>2, <1>3 DEF Counted, OneOf
<1>5. OneOf(c) \in SubBags(b)
  BY <1>1, <1>4 DEF SubBags, Counted
<1> QED
  BY <1>1, <1>3, <1>4, <1>5, CountedSize

\* Whichever bot is asked by an attack does as it is asked.
LEMMA AttackAnswersObey ==
  ASSUME NEW g \in GameStates, g.decision # NoDecision,
         g.decision.card \in {"militia", "bureaucrat", "bandit"},
         Answerable(g.players[g.decision.player], g.decision), NEW name \in Names,
         NEW answer \in Resolve(NewBot(name), Snapshot(g, g.decision.player))
  PROVE  /\ Obeys(g, g.decision, answer)
         /\ ListPrompt(g.decision) => answer.list \in Bag
<1> DEFINE d == g.decision
           q == g.players[d.player]
           v == Snapshot(g, d.player)
           b == NewBot(name)
<1>1. d \in Decision /\ q \in PlayerState /\ q.hand \in Bag
  <2>1. d \in Decision
    BY DEF GameStates
  <2>2. d.player \in Players
    BY <2>1 DEF Decision
  <2>3. q \in PlayerState
    BY <2>2, PlayersFact
  <2> HIDE DEF d, q
  <2> QED
    BY <2>1, <2>3 DEF PlayerState
<1>2. v.decision = d /\ v.hand = q.hand /\ b.name = name
  BY DEF Snapshot, NewBot
<1> HIDE DEF q, v, b
<1>3. Resolve(b, v) = IF name = "militia_bm" /\ d.card = "militia"
                      THEN {[list |-> c] : c \in MilitiaDiscards(v, d.min)}
                      ELSE SafeRefusal(v, d)
  <2>1. d.card \notin {"chapel", "remodel", "sentry", "throne_room"}
    OBVIOUS
  <2> HIDE DEF d
  <2> QED
    BY <1>2, <2>1 DEF Resolve
<1>a. answer \in Resolve(b, v)
  BY DEF b, v
<1> HIDE DEF d
<1>4. CASE d.card = "militia"
  <2>1. d.min \in Nat /\ d.max = d.min /\ Size(q.hand) = d.min + 3
    BY <1>1, <1>4 DEF Decision, Answerable, d, q
  <2>2. SafeRefusal(v, d) = {[list |-> a] : a \in PickFirstN(q.hand, d.min)}
    BY <1>2, <1>4 DEF SafeRefusal, PromptKind
  <2>3. MilitiaDiscards(v, d.min) \subseteq PickFirstN(q.hand, d.min)
    BY <1>2 DEF MilitiaDiscards
  <2>4. PICK a \in PickFirstN(q.hand, d.min) : answer = [list |-> a]
    BY <1>3, <1>a, <2>2, <2>3
  <2>5. a \in SubBags(q.hand) /\ a \in Bag /\ Size(a) = d.min
    BY <1>1, <2>1, <2>4, PickedFromHand
  <2>6. Offered(g, d) = q.hand
    BY <1>1, <1>4, WholeHandOffered DEF d, q
  <2>7. a \in ObedientLists(g, d)
    BY <2>1, <2>5, <2>6 DEF ObedientLists
  <2> QED
    BY <1>4, <2>4, <2>5, <2>7 DEF Obeys, AsksForList, ListCards, d
<1>5. CASE d.card = "bureaucrat"
  <2> DEFINE hand == InHandOf(v)
             S == {x \in hand : IsVictory(x)}
  <2>1. d.min = 1 /\ d.max = 1 /\ HasCardOf(q, "victory")
    BY <1>5 DEF Answerable, d, q
  <2>2. hand = {c \in Cards : q.hand[c] > 0}
    BY <1>1, <1>2 DEF InHandOf, Bag
  <2>3. S # {} /\ \A c \in S : c \in Cards /\ q.hand[c] > 0 /\ HasType(c, "victory")
    BY <2>1, <2>2, BotsKnowVictories DEF HasCardOf
  <2>4. SafeRefusal(v, d) = {[list |-> OneOf(c)] : c \in OrElse(S, hand)}
    BY <1>5 DEF SafeRefusal, PromptKind
  <2>5. OrElse(S, hand) = S
    BY <2>3 DEF OrElse
  <2> HIDE DEF S, hand
  <2>6. PICK c \in S : answer = [list |-> OneOf(c)]
    BY <1>3, <1>5, <1>a, <2>4, <2>5
  <2>7. Offered(g, d) \in Bag /\ Offered(g, d)[c] = q.hand[c]
    <3>1. \A x \in Cards : q.hand[x] \in Nat
      BY <1>1 DEF Bag
    <3>2. \A x \in Cards : Passes(d, x) <=> HasType(x, "victory")
      BY <1>5 DEF Passes
    <3>3. Offered(g, d) = [x \in Cards |-> IF Passes(d, x) THEN q.hand[x] ELSE 0]
      BY DEF Offered, q
    <3> QED
      BY <2>3, <3>1, <3>2, <3>3 DEF Bag
  <2>8. /\ OneOf(c) \in SubBags(Offered(g, d)) /\ OneOf(c) \in Bag
        /\ Size(OneOf(c)) = 1
    BY <2>3, <2>7, OneIsPart
  <2>9. OneOf(c) \in ObedientLists(g, d)
    BY <2>1, <2>8 DEF ObedientLists
  <2> QED
    BY <1>5, <2>6, <2>8, <2>9 DEF Obeys, AsksForList, ListCards, d
<1>6. CASE d.card = "bandit"
  <2> DEFINE S == {d.shown[i] : i \in DOMAIN d.shown}
  <2>1. d.shown # <<>> /\ d.shown \in Seq(Cards)
        /\ \A i \in DOMAIN d.shown : IsNonCopperTreasure(d.shown[i])
    BY <1>1, <1>6 DEF Answerable, Decision, d, q
  <2>2. 1 \in DOMAIN d.shown /\ \A i \in DOMAIN d.shown : d.shown[i] \in Cards
    BY <2>1
  <2>3. S # {} /\ S \subseteq {"silver", "gold"}
    BY <2>1, <2>2, NonCopperTreasures
  <2>4. Cheapest(S) # {} /\ Cheapest(S) \subseteq S
    BY <2>3 DEF Cheapest, CardCost
  <2>5. SafeRefusal(v, d) = {[choice |-> c] : c \in OrElse(Cheapest(S), {NoCard})}
    BY <1>6 DEF SafeRefusal, PromptKind
  <2>6. PICK c \in S : answer = [choice |-> c]
    BY <1>3, <1>6, <1>a, <2>4, <2>5 DEF OrElse
  <2>7. c \in Cards /\ InSeq(c, d.shown) /\ IsNonCopperTreasure(c)
    BY <2>1, <2>2 DEF InSeq
  <2>8. c \in ObedientChoices(g, d)
    BY <1>6, <2>7 DEF ObedientChoices
  <2> QED
    BY <1>6, <2>6, <2>8
       DEF Obeys, AsksForList, ListCards, YesNoCards, ListPrompt, d
<1> QED
  BY <1>4, <1>5, <1>6 DEF d

\* Whatever the other client does, a bot that an attack asks gives an answer the
\* engine accepts: safeRefusal and the strategies' own rules, for every hand, deck
\* and kingdom.
THEOREM AttackedBotsAnswer == Spec => []VictimsCanAnswer
<1>1. AInv => VictimsCanAnswer
  <2> DEFINE d == gs.decision
  <2> SUFFICES ASSUME AInv, d # NoDecision, d.player # gs.current, NEW name \in Names,
                      NEW s \in ResolveAction(NewBot(name), d.player,
                                              Snapshot(gs, d.player)),
                      NEW h \in Apply(gs, s.act)
               PROVE  ~h.err
    BY DEF VictimsCanAnswer
  <2>1. /\ Sound(gs) /\ gs \in GameStates /\ d \in Decision /\ ~gs.ended
        /\ Truthful(gs) /\ Answerable(gs.players[d.player], d)
    BY DEF AInv, IInv, Sound, GameStates, Truthful
  <2>2. d.card \in {"militia", "bureaucrat", "bandit"}
    BY <2>1 DEF Sound, CurrentAsks, AttackAskers
  <2>3. PICK answer \in Resolve(NewBot(name), Snapshot(gs, d.player)) :
          s.act = [kind |-> "resolve", player |-> d.player,
                   id |-> Snapshot(gs, d.player).decision.id, answer |-> answer]
    BY DEF ResolveAction
  <2>4. /\ s.act.kind = "resolve" /\ s.act.answer = answer
        /\ s.act.id = d.id /\ s.act.player = d.player
    BY <2>3 DEF Snapshot
  <2>5. Obeys(gs, d, answer) /\ (ListPrompt(d) => answer.list \in Bag)
    BY <2>1, <2>2, <2>3, AttackAnswersObey
  <2>6. WellFormed(gs, s.act)
    BY <2>2, <2>4, <2>5 DEF WellFormed
  <2> QED
    BY <2>1, <2>4, <2>5, <2>6, ApplySincere
<1> QED
  BY <1>1, InitAInv, NextAInv, PTL DEF Spec
=============================================================================
