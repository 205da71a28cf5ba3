-------------------------- MODULE GameStateProofs --------------------------
(***************************************************************************)
(* Facts about the bags, the deck and the primitives of GameState: what    *)
(* they return is well typed, and no card of any kind is made or lost.     *)
(***************************************************************************)
EXTENDS GameState, FiniteSetTheorems, SequenceTheorems, TLAPS

(***************************************************************************)
(* Induction over an interval, for a set of indices in place of a          *)
(* predicate.                                                              *)
(***************************************************************************)
\* A set that holds 0 and is closed under successor up to n holds 0..n: the
\* induction behind every loop of the engine.
LEMMA UpTo ==
  ASSUME NEW n \in Nat, NEW T, 0 \in T,
         \A k \in 0..(n - 1) : k \in T => k + 1 \in T
  PROVE  0..n \subseteq T
<1> DEFINE Out == (0..n) \ T
<1>1. SUFFICES ASSUME Out # {} PROVE FALSE
  OBVIOUS
<1>2. IsWellFoundedOn(OpToRel(<, Nat), Nat)
  BY NatLessThanWellFounded
<1>3. PICK x \in Out : \A y \in Out : ~ (<<y, x>> \in OpToRel(<, Nat))
  <2>1. Out \subseteq Nat
    OBVIOUS
  <2> QED
    BY <1>1, <1>2, <2>1, WFMin
<1>4. x \in Nat /\ x # 0 /\ x \in 0..n /\ x \notin T
  OBVIOUS
<1>5. x - 1 \in 0..(n - 1) /\ x - 1 \in Nat /\ x - 1 < x
  BY <1>4
<1>6. <<x - 1, x>> \in OpToRel(<, Nat)
  BY <1>4, <1>5 DEF OpToRel
<1>7. x - 1 \in T
  <2>1. x - 1 \notin Out
    BY <1>3, <1>6, Zenon
  <2> QED
    BY <1>5, <2>1
<1>8. (x - 1) + 1 \in T
  BY <1>5, <1>7
<1> QED
  BY <1>4, <1>8

\* The values a loop of n rounds passes through that starts with a and whose
\* round k applies step[k].
Loops(n, S, a, step) ==
  {f \in [0..n -> S] : f[0] = a /\ \A k \in 1..n : f[k] = step[k][f[k - 1]]}

\* Such a loop is well defined.
LEMMA Rounds ==
  ASSUME NEW n \in Nat, NEW S, NEW a \in S, NEW step \in [1..n -> [S -> S]]
  PROVE  Loops(n, S, a, step) # {}
<1> DEFINE Good(m, f) == f[0] = a /\ \A k \in 1..m : f[k] = step[k][f[k - 1]]
           T == {m \in 0..n : \E f \in [0..m -> S] : Good(m, f)}
<1>1. 0 \in T
  <2>1. [k \in 0..0 |-> a] \in [0..0 -> S] /\ Good(0, [k \in 0..0 |-> a])
    OBVIOUS
  <2>2. 0 \in 0..n
    OBVIOUS
  <2> QED
    BY <2>1, <2>2
<1>2. ASSUME NEW m \in 0..(n - 1), m \in T PROVE m + 1 \in T
  <2>1. PICK f \in [0..m -> S] : Good(m, f)
    BY <1>2
  <2> DEFINE g == [k \in 0..(m + 1) |-> IF k = m + 1 THEN step[m + 1][f[m]] ELSE f[k]]
  <2>2. g \in [0..(m + 1) -> S]
    <3>1. m + 1 \in 1..n /\ f[m] \in S
      OBVIOUS
    <3>2. step[m + 1][f[m]] \in S
      BY <3>1
    <3> QED
      BY <3>2
  <2>3. Good(m + 1, g)
    BY <2>1
  <2>4. m + 1 \in 0..n
    OBVIOUS
  <2> QED
    BY <2>2, <2>3, <2>4
<1>3. 0..n \subseteq T
  BY <1>1, <1>2, UpTo
<1>4. n \in T
  BY <1>3
<1> QED
  BY <1>4 DEF Loops

-----------------------------------------------------------------------------
(***************************************************************************)
(* Bags and sequences of cards.                                            *)
(***************************************************************************)
Places(s, c) == {i \in DOMAIN s : s[i] = c}

LEMMA PlacesFinite ==
  ASSUME NEW s \in Seq(Cards), NEW c
  PROVE  IsFiniteSet(Places(s, c)) /\ Cardinality(Places(s, c)) \in Nat
<1>1. IsFiniteSet(1..Len(s))
  BY FS_Interval
<1>2. Places(s, c) \subseteq 1..Len(s)
  BY DEF Places
<1> QED
  BY <1>1, <1>2, FS_Subset, FS_CardinalityType

\* The cards of a sequence, counted, are a bag.
LEMMA SeqIsBag ==
  ASSUME NEW s \in Seq(Cards)
  PROVE  BagOfSeq(s) \in Bag
BY PlacesFinite DEF BagOfSeq, Bag, Places

LEMMA CountEmpty == BagOfSeq(<<>>) = EmptyBag
<1>1. \A c : {i \in DOMAIN <<>> : <<>>[i] = c} = {}
  OBVIOUS
<1> QED
  BY <1>1, FS_EmptySet DEF BagOfSeq, EmptyBag

LEMMA CountOne ==
  ASSUME NEW c \in Cards
  PROVE  BagOfSeq(<<c>>) = OneOf(c)
<1>1. Places(<<c>>, c) = {1}
  BY DEF Places
<1>2. \A d \in Cards : d # c => Places(<<c>>, d) = {}
  BY DEF Places
<1>3. Cardinality({1}) = 1 /\ Cardinality({}) = 0
  BY FS_Singleton, FS_EmptySet
<1> QED
  BY <1>1, <1>2, <1>3 DEF BagOfSeq, OneOf, Places

\* Concatenation adds the counts up.
LEMMA CountConcat ==
  ASSUME NEW s \in Seq(Cards), NEW t \in Seq(Cards), NEW c \in Cards
  PROVE  BagOfSeq(s \o t)[c] = BagOfSeq(s)[c] + BagOfSeq(t)[c]
<1> DEFINE moved == {Len(s) + i : i \in Places(t, c)}
           shift == [i \in Places(t, c) |-> Len(s) + i]
<1>0. /\ Len(s) \in Nat /\ Len(t) \in Nat /\ Len(s \o t) = Len(s) + Len(t)
      /\ DOMAIN s = 1..Len(s) /\ DOMAIN t = 1..Len(t)
      /\ DOMAIN (s \o t) = 1..(Len(s) + Len(t))
      /\ \A i \in 1..(Len(s) + Len(t)) :
           (s \o t)[i] = IF i <= Len(s) THEN s[i] ELSE t[i - Len(s)]
  BY ConcatProperties, LenProperties
<1>1. Places(s \o t, c) = Places(s, c) \cup moved
  <2>1. ASSUME NEW i \in Places(s \o t, c) PROVE i \in Places(s, c) \cup moved
    <3>1. i \in 1..(Len(s) + Len(t)) /\ (s \o t)[i] = c
      BY <1>0 DEF Places
    <3>2. CASE i <= Len(s)
      BY <1>0, <3>1, <3>2 DEF Places
    <3>3. CASE i > Len(s)
      <4>1. i - Len(s) \in Places(t, c) /\ i = Len(s) + (i - Len(s))
        BY <1>0, <3>1, <3>3 DEF Places
      <4> QED
        BY <4>1
    <3> QED
      BY <1>0, <3>1, <3>2, <3>3
  <2>2. Places(s, c) \subseteq Places(s \o t, c)
    BY <1>0 DEF Places
  <2>3. ASSUME NEW i \in Places(t, c) PROVE Len(s) + i \in Places(s \o t, c)
    <3>1. i \in 1..Len(t) /\ t[i] = c
      BY <1>0 DEF Places
    <3>2. Len(s) + i \in 1..(Len(s) + Len(t)) /\ (s \o t)[Len(s) + i] = t[i]
      BY <1>0, <3>1
    <3> QED
      BY <1>0, <3>1, <3>2 DEF Places
  <2> QED
    BY <2>1, <2>2, <2>3
<1>2. Places(s, c) \cap moved = {}
  BY <1>0 DEF Places
<1>3. shift \in Bijection(Places(t, c), moved)
  <2>1. Places(t, c) \subseteq Nat
    BY <1>0 DEF Places
  <2>2. shift \in [Places(t, c) -> moved]
    OBVIOUS
  <2>3. \A i, j \in Places(t, c) : shift[i] = shift[j] => i = j
    BY <1>0, <2>1
  <2>4. \A j \in moved : \E i \in Places(t, c) : shift[i] = j
    OBVIOUS
  <2> QED
    BY <2>2, <2>3, <2>4 DEF Bijection, Injection, Surjection, IsInjective
<1>4. IsFiniteSet(moved) /\ Cardinality(moved) = Cardinality(Places(t, c))
  <2>1. ExistsBijection(Places(t, c), moved)
    BY <1>3 DEF ExistsBijection
  <2> QED
    BY <2>1, PlacesFinite, FS_Bijection
<1>5. Cardinality(Places(s, c) \cup moved)
        = Cardinality(Places(s, c)) + Cardinality(Places(t, c))
  <2>1. Cardinality(Places(s, c) \cap moved) = 0
    BY <1>2, FS_EmptySet
  <2>2. IsFiniteSet(Places(s, c)) /\ Cardinality(Places(s, c)) \in Nat
        /\ Cardinality(Places(t, c)) \in Nat
    BY PlacesFinite
  <2>3. Cardinality(Places(s, c) \cup moved)
          = Cardinality(Places(s, c)) + Cardinality(moved)
            - Cardinality(Places(s, c) \cap moved)
    BY <1>4, <2>2, FS_Union
  <2> QED
    BY <1>4, <2>1, <2>2, <2>3
<1> QED
  BY <1>1, <1>5 DEF BagOfSeq, Places

LEMMA CountAppend ==
  ASSUME NEW s \in Seq(Cards), NEW c \in Cards, NEW d \in Cards
  PROVE  BagOfSeq(Append(s, c))[d] = BagOfSeq(s)[d] + OneOf(c)[d]
<1>1. Append(s, c) = s \o <<c>>
  BY AppendIsConcat
<1>2. <<c>> \in Seq(Cards)
  OBVIOUS
<1> QED
  BY <1>1, <1>2, CountConcat, CountOne

LEMMA CountPush ==
  ASSUME NEW s \in Seq(Cards), NEW c \in Cards, NEW d \in Cards
  PROVE  BagOfSeq(<<c>> \o s)[d] = BagOfSeq(s)[d] + OneOf(c)[d]
<1>1. <<c>> \in Seq(Cards)
  OBVIOUS
<1>2. BagOfSeq(s)[d] \in Nat /\ OneOf(c)[d] \in Nat
  BY SeqIsBag DEF Bag, OneOf
<1>3. BagOfSeq(<<c>> \o s)[d] = BagOfSeq(<<c>>)[d] + BagOfSeq(s)[d]
  BY <1>1, CountConcat
<1>4. BagOfSeq(<<c>>)[d] = OneOf(c)[d]
  BY CountOne
<1> QED
  BY <1>2, <1>3, <1>4

\* Taking element i out of a sequence takes one copy of it out of the count.
LEMMA CountWithout ==
  ASSUME NEW s \in Seq(Cards), NEW i \in 1..Len(s), NEW d \in Cards
  PROVE  /\ Without(s, i) \in Seq(Cards)
         /\ s[i] \in Cards
         /\ BagOfSeq(Without(s, i))[d] + OneOf(s[i])[d] = BagOfSeq(s)[d]
<1> DEFINE u == SubSeq(s, 1, i - 1)
           v == SubSeq(s, i + 1, Len(s))
<1>0. s[i] \in Cards /\ Len(s) \in Nat
  BY ElementOfSeq
<1>1. u \in Seq(Cards) /\ v \in Seq(Cards) /\ <<s[i]>> \in Seq(Cards)
  BY <1>0, SubSeqProperties, ElementOfSeq
<1>2. s = u \o (<<s[i]>> \o v)
  <2>1. <<s[i]>> \o v = SubSeq(s, i, Len(s))
    BY <1>0, SubSeqRecursiveFirst
  <2>2. u \o SubSeq(s, i, Len(s)) = SubSeq(s, 1, Len(s))
    <3>1. 1 \in 1..(Len(s) + 1) /\ i - 1 \in 0..Len(s) /\ Len(s) \in (i - 1)..Len(s)
          /\ (i - 1) + 1 = i
      BY <1>0
    <3>2. \A k \in 0..Len(s) :
             SubSeq(s, 1, k) \o SubSeq(s, k + 1, Len(s)) = SubSeq(s, 1, Len(s))
      <4>1. \A k \in 0..Len(s) : k \in (1 - 1)..Len(s) /\ Len(s) \in k..Len(s)
        BY <1>0
      <4> QED
        BY <3>1, <4>1, ConcatAdjacentSubSeq
    <3> QED
      BY <3>1, <3>2
  <2> QED
    BY <2>1, <2>2, SubSeqFull
<1>3. BagOfSeq(u)[d] \in Nat /\ BagOfSeq(v)[d] \in Nat /\ OneOf(s[i])[d] \in Nat
  BY <1>0, <1>1, SeqIsBag DEF Bag, OneOf
<1>4. BagOfSeq(u \o (<<s[i]>> \o v))[d] = BagOfSeq(u)[d] + BagOfSeq(<<s[i]>> \o v)[d]
  <2>1. <<s[i]>> \o v \in Seq(Cards)
    BY <1>1, ConcatProperties
  <2> QED
    BY <1>1, <2>1, CountConcat
<1>5. BagOfSeq(<<s[i]>> \o v)[d] = BagOfSeq(v)[d] + OneOf(s[i])[d]
  BY <1>0, <1>1, CountPush
<1>6. u \o v \in Seq(Cards) /\ BagOfSeq(u \o v)[d] = BagOfSeq(u)[d] + BagOfSeq(v)[d]
  BY <1>1, CountConcat, ConcatProperties
<1>7. Without(s, i) = u \o v
  BY DEF Without
<1>8. BagOfSeq(s)[d] = BagOfSeq(u)[d] + (BagOfSeq(v)[d] + OneOf(s[i])[d])
  BY <1>2, <1>4, <1>5
<1> QED
  BY <1>0, <1>3, <1>6, <1>7, <1>8

LEMMA CountFront ==
  ASSUME NEW s \in Seq(Cards), s # <<>>, NEW d \in Cards
  PROVE  /\ Front(s) \in Seq(Cards)
         /\ s[Len(s)] \in Cards
         /\ BagOfSeq(Front(s))[d] + OneOf(s[Len(s)])[d] = BagOfSeq(s)[d]
<1>1. Len(s) \in Nat /\ Len(s) \in 1..Len(s)
  BY EmptySeq
<1>2. SubSeq(s, Len(s) + 1, Len(s)) = <<>>
  BY <1>1, SubSeqEmpty
<1>3. SubSeq(s, 1, Len(s) - 1) \in Seq(Cards)
  BY <1>1, SubSeqProperties, ElementOfSeq
<1>4. Front(s) = Without(s, Len(s))
  BY <1>2, <1>3, ConcatEmptySeq DEF Front, Without
<1> QED
  BY <1>1, <1>4, CountWithout

\* indexOf finds a place that holds the card.
LEMMA IndexOfFinds ==
  ASSUME NEW s \in Seq(Cards), NEW c, InSeq(c, s)
  PROVE  IndexOf(s, c) \in 1..Len(s) /\ s[IndexOf(s, c)] = c /\ c \in Cards
<1> DEFINE first == \E i \in DOMAIN s : s[i] = c /\ \A j \in 1..(i - 1) : s[j] # c
<1>0. DOMAIN s = 1..Len(s) /\ Len(s) \in Nat
  BY LenProperties
<1>1. first
  <2> DEFINE T == {m \in 0..Len(s) : first \/ \A i \in 1..m : s[i] # c}
  <2>1. 0 \in T
    BY <1>0
  <2>2. ASSUME NEW m \in 0..(Len(s) - 1), m \in T PROVE m + 1 \in T
    <3>1. m + 1 \in 0..Len(s) /\ m + 1 \in 1..Len(s)
      BY <1>0
    <3>2. CASE first
      BY <3>1, <3>2
    <3>3. CASE ~first
      <4>1. \A i \in 1..m : s[i] # c
        BY <2>2, <3>3
      <4>2. s[m + 1] # c
        BY <1>0, <3>1, <3>3, <4>1
      <4>3. \A i \in 1..(m + 1) : s[i] # c
        BY <4>1, <4>2
      <4> QED
        BY <3>1, <4>3
    <3> QED
      BY <3>2, <3>3
  <2>3. 0..Len(s) \subseteq T
    BY <1>0, <2>1, <2>2, UpTo
  <2>4. Len(s) \in T
    BY <1>0, <2>3
  <2> QED
    BY <1>0, <2>4 DEF InSeq
<1>2. IndexOf(s, c) \in DOMAIN s /\ s[IndexOf(s, c)] = c
  BY <1>1 DEF IndexOf
<1> QED
  BY <1>0, <1>2, ElementOfSeq

-----------------------------------------------------------------------------
(* Bags.                                                                   *)

LEMMA BagTypes ==
  /\ EmptyBag \in Bag
  /\ \A c : OneOf(c) \in Bag
  /\ \A a, b \in Bag : BagPlus(a, b) \in Bag
  /\ \A a, b \in Bag : AtMost(a, b) \in Bag /\ BagMinus(b, AtMost(a, b)) \in Bag
  /\ \A a \in Bag : \A c : AddOne(a, c) \in Bag
  /\ \A a \in Bag : \A c : (c \in Cards => a[c] > 0) => DropOne(a, c) \in Bag
<1>1. EmptyBag \in Bag /\ \A c : OneOf(c) \in Bag
  BY DEF Bag, EmptyBag, OneOf
<1>2. ASSUME NEW a \in Bag, NEW b \in Bag
      PROVE  /\ BagPlus(a, b) \in Bag
             /\ AtMost(a, b) \in Bag /\ BagMinus(b, AtMost(a, b)) \in Bag
  BY DEF Bag, BagPlus, BagMinus, AtMost
<1>3. ASSUME NEW a \in Bag, NEW c PROVE AddOne(a, c) \in Bag
  BY <1>1, <1>2 DEF AddOne
<1>4. ASSUME NEW a \in Bag, NEW c, c \in Cards => a[c] > 0
      PROVE  DropOne(a, c) \in Bag
  BY <1>4 DEF Bag, DropOne, BagMinus, OneOf
<1> QED
  BY <1>1, <1>2, <1>3, <1>4

\* A bag of cards is finite, so the length of its slice is a number.
LEMMA SizeIsNat ==
  ASSUME NEW b \in Bag
  PROVE  Size(b) \in Nat /\ IsFiniteSet(Copies(b))
<1>1. \A c \in Cards : IsFiniteSet({c} \X (1..b[c]))
  <2>1. ASSUME NEW c \in Cards PROVE IsFiniteSet({c} \X (1..b[c]))
    <3>1. 1 \in Int /\ b[c] \in Int
      BY DEF Bag
    <3>2. IsFiniteSet(1..b[c])
      BY <3>1, FS_Interval
    <3>3. IsFiniteSet({c})
      BY FS_Singleton
    <3> QED
      BY <3>2, <3>3, FS_Product
  <2> QED
    BY <2>1
<1>2. IsFiniteSet({{c} \X (1..b[c]) : c \in Cards})
  <2> DEFINE S == {{c} \X (1..b[c]) : c \in Cards}
             f == [c \in Cards |-> {c} \X (1..b[c])]
  <2>1. f \in Surjection(Cards, S)
    BY DEF Surjection
  <2> QED
    BY <2>1, CardsAssumption, FS_Surjection
<1>3. IsFiniteSet(Copies(b))
  BY <1>1, <1>2, FS_UNION DEF Copies
<1> QED
  BY <1>3, FS_CardinalityType DEF Size

-----------------------------------------------------------------------------
(***************************************************************************)
(* One player.  Rearranged(q): what q becomes when cards only move between *)
(* hand, deck and discard pile.                                            *)
(***************************************************************************)
SameOwned(q, r) == \A c \in Cards : Owned(r, c) = Owned(q, c)

SameMeans(q, r) ==
  /\ r.inPlay = q.inPlay /\ r.setAside = q.setAside
  /\ r.actions = q.actions /\ r.buys = q.buys /\ r.coins = q.coins
  /\ r.charges = q.charges /\ r.silver = q.silver

Rearranged(q) == {r \in PlayerState : SameOwned(q, r) /\ SameMeans(q, r)}

LEMMA RearrangedTwice ==
  ASSUME NEW q, NEW r \in Rearranged(q), NEW u \in Rearranged(r)
  PROVE  u \in Rearranged(q)
BY DEF Rearranged, SameOwned, SameMeans

LEMMA RearrangedSelf ==
  ASSUME NEW q \in PlayerState
  PROVE  q \in Rearranged(q)
BY DEF Rearranged, SameOwned, SameMeans

\* What is owned is a number.
LEMMA CountsAreNat ==
  ASSUME NEW q \in PlayerState, NEW c \in Cards
  PROVE  /\ q.hand[c] \in Nat /\ q.deck[c] \in Nat /\ q.discard[c] \in Nat
         /\ q.inPlay[c] \in Nat /\ BagOfSeq(q.top)[c] \in Nat
         /\ BagOfSeq(q.setAside)[c] \in Nat
<1>1. q.top \in Seq(Cards) /\ q.setAside \in Seq(Cards)
  BY DEF PlayerState
<1>2. BagOfSeq(q.top) \in Bag /\ BagOfSeq(q.setAside) \in Bag
  BY <1>1, SeqIsBag
<1> QED
  BY <1>2 DEF PlayerState, Bag

LEMMA ReshuffledKeeps ==
  ASSUME NEW q \in PlayerState
  PROVE  Reshuffled(q) \in Rearranged(q)
<1> DEFINE r == [q EXCEPT !.deck = q.discard, !.discard = EmptyBag]
<1>1. CASE DeckEmpty(q)
  <2>1. r \in PlayerState /\ SameMeans(q, r)
    BY BagTypes DEF PlayerState, SameMeans, Bag, EmptyBag
  <2>2. ASSUME NEW c \in Cards PROVE Owned(r, c) = Owned(q, c)
    <3>1. r.hand = q.hand /\ r.top = q.top /\ r.inPlay = q.inPlay
          /\ r.setAside = q.setAside /\ r.deck = q.discard /\ r.discard = EmptyBag
      BY DEF PlayerState
    <3>2. EmptyBag[c] = 0 /\ q.deck[c] = 0
      BY <1>1 DEF DeckEmpty, EmptyBag
    <3> QED
      BY <3>1, <3>2, CountsAreNat DEF Owned
  <2>3. Reshuffled(q) = r
    BY <1>1 DEF Reshuffled
  <2> QED
    BY <2>1, <2>2, <2>3 DEF Rearranged, SameOwned
<1>2. CASE ~DeckEmpty(q)
  BY <1>2, RearrangedSelf DEF Reshuffled
<1> QED
  BY <1>1, <1>2

LEMMA MergedKeeps ==
  ASSUME NEW q \in PlayerState, NEW n
  PROVE  Merged(q, n) \in Rearranged(q)
<1> DEFINE r == [q EXCEPT !.deck = BagPlus(BagPlus(@, BagOfSeq(q.top)), q.discard),
                          !.top = <<>>, !.discard = EmptyBag]
<1>1. r \in Rearranged(q)
  <2>0. BagOfSeq(q.top) \in Bag
    BY SeqIsBag DEF PlayerState
  <2>1. BagPlus(BagPlus(q.deck, BagOfSeq(q.top)), q.discard) \in Bag
    BY <2>0, BagTypes DEF PlayerState
  <2>2. r \in PlayerState /\ SameMeans(q, r)
    <3>1. <<>> \in Seq(Cards) /\ EmptyBag \in Bag
      BY BagTypes
    <3> HIDE DEF Bag
    <3> QED
      BY <2>1, <3>1 DEF PlayerState, SameMeans
  <2>3. ASSUME NEW c \in Cards PROVE Owned(r, c) = Owned(q, c)
    <3>1. r.hand = q.hand /\ r.top = <<>> /\ r.inPlay = q.inPlay
          /\ r.setAside = q.setAside /\ r.discard = EmptyBag
          /\ r.deck = BagPlus(BagPlus(q.deck, BagOfSeq(q.top)), q.discard)
      BY DEF PlayerState
    <3>2. EmptyBag[c] = 0 /\ BagOfSeq(<<>>)[c] = 0
          /\ r.deck[c] = q.deck[c] + BagOfSeq(q.top)[c] + q.discard[c]
      BY <3>1, CountEmpty DEF EmptyBag, BagPlus
    <3> QED
      BY <3>1, <3>2, CountsAreNat DEF Owned
  <2> QED
    BY <2>2, <2>3 DEF Rearranged, SameOwned
<1> QED
  BY <1>1, RearrangedSelf DEF Merged

\* The card taken off the deck is the only one missing from the rest.
LEMMA PopKeeps ==
  ASSUME NEW q \in PlayerState, NEW t \in Pop(q)
  PROVE  /\ t.card \in Cards /\ t.rest \in PlayerState
         /\ SameMeans(q, t.rest) /\ t.rest.hand = q.hand
         /\ t.rest.discard = q.discard
         /\ \A c \in Cards : Owned(t.rest, c) + OneOf(t.card)[c] = Owned(q, c)
<1>1. CASE q.top # <<>>
  <2> DEFINE r == [q EXCEPT !.top = Front(@)]
  <2>1. t.card = q.top[Len(q.top)] /\ t.rest = r
    BY <1>1 DEF Pop
  <2>2. q.top \in Seq(Cards)
    BY DEF PlayerState
  <2>3. t.card \in Cards /\ Front(q.top) \in Seq(Cards)
    BY <1>1, <2>1, <2>2, CountFront, CardsAssumption DEF BasicCards
  <2>4. r \in PlayerState /\ SameMeans(q, r) /\ r.hand = q.hand
        /\ r.discard = q.discard /\ r.deck = q.deck /\ r.top = Front(q.top)
    BY <2>3 DEF PlayerState, SameMeans
  <2>5. ASSUME NEW c \in Cards PROVE Owned(r, c) + OneOf(t.card)[c] = Owned(q, c)
    <3>1. BagOfSeq(Front(q.top))[c] + OneOf(t.card)[c] = BagOfSeq(q.top)[c]
      BY <1>1, <2>1, <2>2, CountFront
    <3>2. BagOfSeq(Front(q.top))[c] \in Nat /\ OneOf(t.card)[c] \in Nat
      BY <2>3, SeqIsBag DEF Bag, OneOf
    <3> QED
      BY <2>4, <3>1, <3>2, CountsAreNat DEF Owned, SameMeans
  <2> QED
    BY <2>1, <2>3, <2>4, <2>5
<1>2. CASE q.top = <<>>
  <2>1. PICK x \in Cards : q.deck[x] > 0 /\ t.card = x
                            /\ t.rest = [q EXCEPT !.deck = DropOne(@, x)]
    BY <1>2 DEF Pop
  <2> DEFINE r == [q EXCEPT !.deck = DropOne(@, x)]
  <2>2. DropOne(q.deck, x) \in Bag
    BY <2>1, BagTypes DEF PlayerState
  <2>3. r \in PlayerState /\ SameMeans(q, r) /\ r.hand = q.hand
        /\ r.discard = q.discard /\ r.deck = DropOne(q.deck, x) /\ r.top = q.top
    BY <2>2 DEF PlayerState, SameMeans
  <2>4. ASSUME NEW c \in Cards PROVE Owned(r, c) + OneOf(x)[c] = Owned(q, c)
    <3>1. r.deck[c] = q.deck[c] - OneOf(x)[c] /\ OneOf(x)[c] \in Nat
      BY <2>3 DEF DropOne, BagMinus, OneOf
    <3> QED
      BY <2>3, <3>1, CountsAreNat DEF Owned, SameMeans
  <2> QED
    BY <2>1, <2>3, <2>4
<1> QED
  BY <1>1, <1>2

\* The card taken off the deck and put into the hand, into the discard pile or
\* aside is still owned.
LEMMA PopAndKeep ==
  ASSUME NEW q \in PlayerState, NEW t \in Pop(q)
  PROVE  /\ [t.rest EXCEPT !.hand = AddOne(@, t.card)] \in Rearranged(q)
         /\ [t.rest EXCEPT !.discard = AddOne(@, t.card)] \in Rearranged(q)
         /\ LET r == [t.rest EXCEPT !.setAside = Append(@, t.card)]
            IN  r \in PlayerState /\ SameOwned(q, r) /\ r.inPlay = q.inPlay
                /\ r.setAside = Append(q.setAside, t.card)
<1> DEFINE u == t.rest
           h == [u EXCEPT !.hand = AddOne(@, t.card)]
           d == [u EXCEPT !.discard = AddOne(@, t.card)]
           a == [u EXCEPT !.setAside = Append(@, t.card)]
<1>1. /\ t.card \in Cards /\ u \in PlayerState /\ SameMeans(q, u)
      /\ \A c \in Cards : Owned(u, c) + OneOf(t.card)[c] = Owned(q, c)
  BY PopKeeps
<1>2. AddOne(u.hand, t.card) \in Bag /\ AddOne(u.discard, t.card) \in Bag
      /\ Append(u.setAside, t.card) \in Seq(Cards)
  BY <1>1, BagTypes DEF PlayerState
<1>3. /\ h \in PlayerState /\ SameMeans(q, h) /\ d \in PlayerState
      /\ SameMeans(q, d) /\ a \in PlayerState
      /\ a.setAside = Append(q.setAside, t.card) /\ a.inPlay = q.inPlay
  BY <1>1, <1>2 DEF PlayerState, SameMeans
<1>4. ASSUME NEW c \in Cards
      PROVE  Owned(h, c) = Owned(q, c) /\ Owned(d, c) = Owned(q, c)
             /\ Owned(a, c) = Owned(q, c)
  <2>1. OneOf(t.card)[c] \in Nat /\ AddOne(u.hand, t.card)[c] = u.hand[c] + OneOf(t.card)[c]
        /\ AddOne(u.discard, t.card)[c] = u.discard[c] + OneOf(t.card)[c]
    BY DEF OneOf, AddOne, BagPlus
  <2>2. BagOfSeq(Append(u.setAside, t.card))[c] = BagOfSeq(u.setAside)[c] + OneOf(t.card)[c]
    BY <1>1, CountAppend DEF PlayerState
  <2>3. Owned(h, c) = Owned(u, c) + OneOf(t.card)[c]
    <3>1. h.hand = AddOne(u.hand, t.card) /\ h.deck = u.deck /\ h.top = u.top
          /\ h.discard = u.discard /\ h.inPlay = u.inPlay /\ h.setAside = u.setAside
      BY <1>1 DEF PlayerState
    <3> QED
      BY <1>1, <2>1, <3>1, CountsAreNat DEF Owned
  <2>4. Owned(d, c) = Owned(u, c) + OneOf(t.card)[c]
    <3>1. d.hand = u.hand /\ d.deck = u.deck /\ d.top = u.top
          /\ d.discard = AddOne(u.discard, t.card) /\ d.inPlay = u.inPlay
          /\ d.setAside = u.setAside
      BY <1>1 DEF PlayerState
    <3> QED
      BY <1>1, <2>1, <3>1, CountsAreNat DEF Owned
  <2>5. Owned(a, c) = Owned(u, c) + OneOf(t.card)[c]
    <3>1. a.hand = u.hand /\ a.deck = u.deck /\ a.top = u.top
          /\ a.discard = u.discard /\ a.inPlay = u.inPlay
          /\ a.setAside = Append(u.setAside, t.card)
      BY <1>1 DEF PlayerState
    <3>2. BagOfSeq(a.setAside)[c] = BagOfSeq(u.setAside)[c] + OneOf(t.card)[c]
      BY <2>2, <3>1
    <3>3. /\ u.hand[c] \in Nat /\ u.deck[c] \in Nat /\ u.discard[c] \in Nat
          /\ u.inPlay[c] \in Nat /\ BagOfSeq(u.top)[c] \in Nat
          /\ BagOfSeq(u.setAside)[c] \in Nat
      BY <1>1, CountsAreNat
    <3>4. /\ a.hand[c] = u.hand[c] /\ a.deck[c] = u.deck[c]
          /\ a.discard[c] = u.discard[c] /\ a.inPlay[c] = u.inPlay[c]
          /\ BagOfSeq(a.top)[c] = BagOfSeq(u.top)[c]
      BY <3>1
    <3> HIDE DEF a, u
    <3> QED
      BY <2>1, <3>2, <3>3, <3>4 DEF Owned
  <2> QED
    BY <1>1, <2>3, <2>4, <2>5
<1> QED
  BY <1>3, <1>4 DEF Rearranged, SameOwned

LEMMA DrawOneKeeps ==
  ASSUME NEW q \in PlayerState
  PROVE  DrawOne(q) \subseteq Rearranged(q)
<1> DEFINE r == Reshuffled(q)
<1>1. r \in Rearranged(q) /\ r \in PlayerState
  BY ReshuffledKeeps DEF Rearranged
<1>2. ASSUME NEW t \in Pop(r)
      PROVE  [t.rest EXCEPT !.hand = AddOne(@, t.card)] \in Rearranged(q)
  BY <1>1, PopAndKeep, RearrangedTwice
<1> HIDE DEF r
<1>3. DrawOne(q) = IF DeckEmpty(r) THEN {r}
                   ELSE {[t.rest EXCEPT !.hand = AddOne(@, t.card)] : t \in Pop(r)}
  BY DEF DrawOne, r
<1> QED
  BY <1>1, <1>2, <1>3

\* What holds after k rounds of DrawCards: sets of players S[k], S[0] with q in
\* it, such that drawing one card leads from each to the next.
LEMMA DrawCardsRounds ==
  ASSUME NEW n \in Nat, NEW U, NEW S \in [0..n -> SUBSET U], NEW q \in S[0],
         \A r \in U : DrawOne(r) \subseteq U,
         \A k \in 0..(n - 1) : \A r \in S[k] : DrawOne(r) \subseteq S[k + 1]
  PROVE  DrawCards(q, n) \subseteq S[n]
<1> DEFINE Sets == SUBSET U
           round == [R \in Sets |-> UNION {DrawOne(r) : r \in R}]
           step == [k \in 1..n |-> round]
           Def(f) == f = [k \in 0..n |-> IF k = 0 THEN {q}
                                         ELSE UNION {DrawOne(r) : r \in f[k - 1]}]
           drawn == CHOOSE f : Def(f)
<1>1. step \in [1..n -> [Sets -> Sets]] /\ {q} \in Sets
  <2>1. 0 \in 0..n
    OBVIOUS
  <2> QED
    BY <2>1
<1>2. PICK f \in [0..n -> Sets] :
        f[0] = {q} /\ \A k \in 1..n : f[k] = step[k][f[k - 1]]
  <2> HIDE DEF step, Sets
  <2>1. Loops(n, Sets, {q}, step) # {}
    BY <1>1, Rounds
  <2> QED
    BY <2>1 DEF Loops
<1>3. Def(f)
  <2>1. ASSUME NEW k \in 0..n, k # 0
        PROVE  f[k] = UNION {DrawOne(r) : r \in f[k - 1]}
    <3>1. k - 1 \in 0..n /\ k \in 1..n
      BY <2>1
    <3>2. f[k - 1] \in Sets
      BY <3>1
    <3> QED
      BY <1>2, <3>1, <3>2
  <2> QED
    BY <1>2, <2>1
<1>4. Def(drawn)
  BY <1>3
<1>5. 0..n \subseteq {k \in 0..n : drawn[k] \subseteq S[k]}
  <2> DEFINE T == {k \in 0..n : drawn[k] \subseteq S[k]}
  <2> HIDE DEF drawn
  <2>1. 0 \in T
    BY <1>4
  <2>2. ASSUME NEW k \in 0..(n - 1), k \in T PROVE k + 1 \in T
    <3>1. k + 1 \in 0..n /\ k + 1 # 0 /\ (k + 1) - 1 = k
      OBVIOUS
    <3>2. drawn[k + 1] = UNION {DrawOne(r) : r \in drawn[k]}
      BY <1>4, <3>1
    <3> QED
      BY <2>2, <3>1, <3>2
  <2> QED
    BY <2>1, <2>2, UpTo
<1>6. DrawCards(q, n) = drawn[n]
  BY DEF DrawCards
<1> QED
  BY <1>5, <1>6

\* A set of players that holds q and is closed under drawing one card holds
\* everything DrawCards may make of q.
LEMMA DrawCardsStays ==
  ASSUME NEW n \in Nat, NEW S, NEW q \in S,
         \A r \in S : DrawOne(r) \subseteq S
  PROVE  DrawCards(q, n) \subseteq S
<1> DEFINE always == [k \in 0..n |-> S]
<1>1. /\ always \in [0..n -> SUBSET S] /\ q \in always[0] /\ always[n] = S
      /\ \A k \in 0..(n - 1) : always[k] = S /\ always[k + 1] = S
  OBVIOUS
<1> HIDE DEF always
<1>2. \A k \in 0..(n - 1) : \A r \in always[k] : DrawOne(r) \subseteq always[k + 1]
  BY <1>1
<1>3. DrawCards(q, n) \subseteq always[n]
  BY <1>1, <1>2, DrawCardsRounds
<1> QED
  BY <1>1, <1>3

LEMMA DrawCardsKeeps ==
  ASSUME NEW n \in Nat, NEW q \in PlayerState
  PROVE  DrawCards(q, n) \subseteq Rearranged(q)
<1>1. \A r \in Rearranged(q) : DrawOne(r) \subseteq Rearranged(q)
  BY DrawOneKeeps, RearrangedTwice DEF Rearranged
<1> QED
  BY <1>1, RearrangedSelf, DrawCardsStays

LEMMA UncoverKeeps ==
  ASSUME NEW q \in PlayerState, NEW n
  PROVE  Uncover(q, n) \subseteq Rearranged(q)
<1>1. ASSUME NEW x \in Cards, q.deck[x] > 0
      PROVE  [q EXCEPT !.deck = DropOne(@, x), !.top = <<x>> \o @] \in Rearranged(q)
  <2> DEFINE r == [q EXCEPT !.deck = DropOne(@, x), !.top = <<x>> \o @]
  <2>0. q.top \in Seq(Cards) /\ <<x>> \in Seq(Cards)
    BY DEF PlayerState
  <2>1. DropOne(q.deck, x) \in Bag /\ <<x>> \o q.top \in Seq(Cards)
    BY <1>1, <2>0, BagTypes, ConcatProperties DEF PlayerState
  <2>2. /\ r \in PlayerState /\ SameMeans(q, r) /\ r.hand = q.hand
        /\ r.discard = q.discard /\ r.deck = DropOne(q.deck, x)
        /\ r.top = <<x>> \o q.top
    BY <2>1 DEF PlayerState, SameMeans
  <2>3. ASSUME NEW c \in Cards PROVE Owned(r, c) = Owned(q, c)
    <3>1. r.deck[c] = q.deck[c] - OneOf(x)[c] /\ OneOf(x)[c] \in Nat
      BY <2>2 DEF DropOne, BagMinus, OneOf
    <3>2. BagOfSeq(r.top)[c] = BagOfSeq(q.top)[c] + OneOf(x)[c]
      BY <2>0, <2>2, CountPush
    <3> HIDE DEF r
    <3> QED
      BY <2>2, <3>1, <3>2, CountsAreNat DEF Owned, SameMeans
  <2> QED
    BY <2>2, <2>3 DEF Rearranged, SameOwned
<1> QED
  BY <1>1, RearrangedSelf DEF Uncover

LEMMA RevealFromDeckKeeps ==
  ASSUME NEW q \in PlayerState
  PROVE  RevealFromDeck(q) \subseteq Rearranged(q)
<1>1. Merged(q, 2) \in PlayerState
  BY MergedKeeps DEF Rearranged
<1>2. ASSUME NEW r \in Uncover(Merged(q, 2), 2), NEW u \in Uncover(r, 2)
      PROVE  u \in Rearranged(q)
  <2>1. r \in Rearranged(Merged(q, 2)) /\ r \in PlayerState
    BY <1>1, UncoverKeeps DEF Rearranged
  <2>2. u \in Rearranged(r)
    BY <2>1, UncoverKeeps
  <2> QED
    BY <2>1, <2>2, MergedKeeps, RearrangedTwice
<1> QED
  BY <1>2 DEF RevealFromDeck

LEMMA RevealedIsSeq ==
  ASSUME NEW q \in PlayerState
  PROVE  Revealed(q) \in Seq(Cards)
<1> DEFINE n == IF Len(q.top) < 2 THEN Len(q.top) ELSE 2
<1>1. q.top \in Seq(Cards) /\ Len(q.top) \in Nat
  BY LenProperties DEF PlayerState
<1>2. n \in Nat /\ \A i \in 1..n : Len(q.top) + 1 - i \in 1..Len(q.top)
  BY <1>1
<1>3. \A i \in 1..n : q.top[Len(q.top) + 1 - i] \in Cards
  BY <1>1, <1>2, ElementOfSeq
<1>4. [i \in 1..n |-> q.top[Len(q.top) + 1 - i]] \in [1..n -> Cards]
  BY <1>3
<1> QED
  BY <1>2, <1>4, SeqDef DEF Revealed

LEMMA PeelKeeps ==
  ASSUME NEW q \in PlayerState, NEW r \in Peel(q)
  PROVE  r \in PlayerState /\ SameOwned(q, r) /\ r.inPlay = q.inPlay
<1>1. CASE DeckEmpty(q)
  BY <1>1 DEF Peel, SameOwned
<1>2. CASE ~DeckEmpty(q)
  BY <1>2, PopAndKeep DEF Peel
<1> QED
  BY <1>1, <1>2

LEMMA PeelToSetAsideKeeps ==
  ASSUME NEW q \in PlayerState, NEW r \in PeelToSetAside(q)
  PROVE  r \in PlayerState /\ SameOwned(q, r) /\ r.inPlay = q.inPlay
<1>1. Merged(q, 2) \in PlayerState /\ SameOwned(q, Merged(q, 2))
      /\ Merged(q, 2).inPlay = q.inPlay
  BY MergedKeeps DEF Rearranged, SameMeans
<1>2. PICK u \in Peel(Merged(q, 2)) : r \in Peel(u)
  BY DEF PeelToSetAside
<1>3. u \in PlayerState /\ SameOwned(Merged(q, 2), u) /\ u.inPlay = q.inPlay
  BY <1>1, PeelKeeps
<1>4. r \in PlayerState /\ SameOwned(u, r) /\ r.inPlay = u.inPlay
  BY <1>2, <1>3, PeelKeeps
<1> QED
  BY <1>1, <1>3, <1>4 DEF SameOwned

\* A card removed from the deck is the only one missing afterwards.
LEMMA RemoveFromDeckKeeps ==
  ASSUME NEW q \in PlayerState, NEW x \in Cards, InDeck(q, x)
  PROVE  LET r == RemoveFromDeck(q, x)
         IN  /\ r \in PlayerState /\ SameMeans(q, r)
             /\ r.hand = q.hand /\ r.discard = q.discard
             /\ \A c \in Cards : Owned(r, c) + OneOf(x)[c] = Owned(q, c)
<1> DEFINE r == RemoveFromDeck(q, x)
<1>0. q.top \in Seq(Cards)
  BY DEF PlayerState
<1>1. CASE q.deck[x] > 0
  <2>1. r = [q EXCEPT !.deck = DropOne(@, x)] /\ DropOne(q.deck, x) \in Bag
    BY <1>1, BagTypes DEF RemoveFromDeck, PlayerState
  <2>2. /\ r \in PlayerState /\ SameMeans(q, r) /\ r.hand = q.hand
        /\ r.discard = q.discard /\ r.deck = DropOne(q.deck, x) /\ r.top = q.top
    BY <2>1 DEF PlayerState, SameMeans
  <2>3. ASSUME NEW c \in Cards PROVE Owned(r, c) + OneOf(x)[c] = Owned(q, c)
    <3>1. r.deck[c] = q.deck[c] - OneOf(x)[c] /\ OneOf(x)[c] \in Nat
      BY <2>2 DEF DropOne, BagMinus, OneOf
    <3> HIDE DEF r
    <3> QED
      BY <2>2, <3>1, CountsAreNat DEF Owned, SameMeans
  <2> QED
    BY <2>2, <2>3
<1>2. CASE ~(q.deck[x] > 0)
  <2> DEFINE i == IndexOf(q.top, x)
  <2>1. InSeq(x, q.top)
    BY <1>2 DEF InDeck
  <2>2. i \in 1..Len(q.top) /\ q.top[i] = x
    BY <1>0, <2>1, IndexOfFinds
  <2>3. r = [q EXCEPT !.top = Without(@, i)]
    BY <1>2 DEF RemoveFromDeck
  <2> HIDE DEF i
  <2>4. Without(q.top, i) \in Seq(Cards)
        /\ \A c \in Cards :
             BagOfSeq(Without(q.top, i))[c] + OneOf(x)[c] = BagOfSeq(q.top)[c]
    BY <1>0, <2>2, CountWithout
  <2>5. /\ r \in PlayerState /\ SameMeans(q, r) /\ r.hand = q.hand
        /\ r.discard = q.discard /\ r.deck = q.deck /\ r.top = Without(q.top, i)
    BY <2>3, <2>4 DEF PlayerState, SameMeans
  <2>6. ASSUME NEW c \in Cards PROVE Owned(r, c) + OneOf(x)[c] = Owned(q, c)
    <3>1. BagOfSeq(r.top)[c] + OneOf(x)[c] = BagOfSeq(q.top)[c] /\ OneOf(x)[c] \in Nat
          /\ BagOfSeq(r.top)[c] \in Nat
      BY <2>4, <2>5, SeqIsBag DEF OneOf, Bag
    <3> HIDE DEF r
    <3> QED
      BY <2>5, <3>1, CountsAreNat DEF Owned, SameMeans
  <2> QED
    BY <2>5, <2>6
<1> QED
  BY <1>1, <1>2

-----------------------------------------------------------------------------
(***************************************************************************)
(* The whole game.  Moved(g): the states in which cards have moved but     *)
(* none was made or lost, the turn, the decision and the pending plays are *)
(* those of g, and the player who waits has lost nothing of a turn.        *)
(***************************************************************************)
SameTurn(g, h) ==
  /\ h.current = g.current /\ h.starting = g.starting /\ h.phase = g.phase
  /\ h.turn = g.turn /\ h.ended = g.ended

SameExisting(g, h) == \A c \in Cards : Existing(h, c) = Existing(g, c)

SameWaiting(g, h) ==
  SameMeans(g.players[Opponent(g.current)], h.players[Opponent(g.current)])

SameInPlay(g, h) ==
  \A p \in Players : h.players[p].inPlay = g.players[p].inPlay

Moved(g) ==
  {h \in GameStates :
     /\ SameTurn(g, h) /\ SameExisting(g, h) /\ SameWaiting(g, h)
     /\ SameInPlay(g, h) /\ h.decision = g.decision /\ h.decisionSeq = g.decisionSeq
     /\ h.pendingPlays = g.pendingPlays}

LEMMA PlayersFact ==
  /\ Players = {0, 1}
  /\ \A p \in Players : Opponent(p) \in Players /\ Opponent(p) # p
                        /\ Opponent(Opponent(p)) = p
  /\ \A g \in GameStates :
       /\ g.players \in [Players -> PlayerState] /\ g.current \in Players
       /\ \A p \in Players : g.players[p] \in PlayerState
BY DEF Players, Opponent, GameStates

LEMMA MovedSelf ==
  ASSUME NEW g \in GameStates
  PROVE  g \in Moved(g)
BY DEF Moved, SameTurn, SameExisting, SameWaiting, SameInPlay, SameMeans

LEMMA MovedTwice ==
  ASSUME NEW g, NEW h \in Moved(g), NEW k \in Moved(h)
  PROVE  k \in Moved(g)
BY DEF Moved, SameTurn, SameExisting, SameWaiting, SameInPlay, SameMeans

LEMMA OwnedIsNat ==
  ASSUME NEW q \in PlayerState, NEW c \in Cards
  PROVE  Owned(q, c) \in Nat
BY CountsAreNat DEF Owned

\* A change of one player, the supply and the trash that keeps every count.
\* New contents for a player, the supply and the trash that keep every card.
Relocated(g, p, r, s, t) == [g EXCEPT !.players[p] = r, !.supply = s, !.trash = t]

Balanced(g, p, r, s, t) ==
  \A c \in Cards :
    s[c] + t[c] + Owned(r, c) = g.supply[c] + g.trash[c] + Owned(g.players[p], c)

LEMMA Relocate ==
  ASSUME NEW g \in GameStates, NEW p \in Players, NEW r \in PlayerState,
         NEW s \in Bag, NEW t \in Bag, Balanced(g, p, r, s, t),
         p = g.current \/ SameMeans(g.players[p], r),
         NEW h, h = Relocated(g, p, r, s, t)
  PROVE  /\ h \in GameStates
         /\ SameTurn(g, h) /\ SameExisting(g, h) /\ SameWaiting(g, h)
         /\ h.decision = g.decision /\ h.decisionSeq = g.decisionSeq
         /\ h.pendingPlays = g.pendingPlays /\ h.players[p] = r
         /\ h.players[Opponent(p)] = g.players[Opponent(p)]
<1>1. h \in GameStates
  BY DEF GameStates, Relocated
<1>2. /\ SameTurn(g, h) /\ h.decision = g.decision
      /\ h.decisionSeq = g.decisionSeq /\ h.pendingPlays = g.pendingPlays
      /\ h.supply = s /\ h.trash = t
      /\ h.players[p] = r /\ h.players[Opponent(p)] = g.players[Opponent(p)]
  BY PlayersFact DEF GameStates, SameTurn, Relocated
<1>3. SameWaiting(g, h)
  BY <1>2, PlayersFact DEF SameWaiting, SameMeans, Players, Opponent
<1>4. ASSUME NEW c \in Cards PROVE Existing(h, c) = Existing(g, c)
  <2>1. s[c] \in Nat /\ t[c] \in Nat /\ g.supply[c] \in Nat /\ g.trash[c] \in Nat
    BY DEF GameStates, Bag
  <2>2. Owned(r, c) \in Nat /\ Owned(g.players[0], c) \in Nat
        /\ Owned(g.players[1], c) \in Nat
    BY PlayersFact, OwnedIsNat
  <2>3. CASE p = 0
    BY <1>2, <2>1, <2>2, <2>3 DEF Existing, Opponent, Balanced
  <2>4. CASE p = 1
    BY <1>2, <2>1, <2>2, <2>4 DEF Existing, Opponent, Balanced
  <2> QED
    BY <2>3, <2>4 DEF Players
<1>5. SameExisting(g, h)
  BY <1>4 DEF SameExisting
<1> QED
  BY <1>1, <1>2, <1>3, <1>5

LEMMA MoveCards ==
  ASSUME NEW g \in GameStates, NEW p \in Players, NEW r \in PlayerState,
         NEW s \in Bag, NEW t \in Bag,
         \A c \in Cards : s[c] + t[c] + Owned(r, c)
                           = g.supply[c] + g.trash[c] + Owned(g.players[p], c),
         r.inPlay = g.players[p].inPlay,
         p = g.current \/ SameMeans(g.players[p], r)
  PROVE  [g EXCEPT !.players[p] = r, !.supply = s, !.trash = t] \in Moved(g)
<1> DEFINE h == Relocated(g, p, r, s, t)
<1>1. Balanced(g, p, r, s, t)
  BY DEF Balanced
<1>2. /\ h \in GameStates
      /\ SameTurn(g, h) /\ SameExisting(g, h) /\ SameWaiting(g, h)
      /\ h.decision = g.decision /\ h.decisionSeq = g.decisionSeq
      /\ h.pendingPlays = g.pendingPlays /\ h.players[p] = r
      /\ h.players[Opponent(p)] = g.players[Opponent(p)]
  BY <1>1, Relocate
<1> HIDE DEF h
<1>3. SameInPlay(g, h)
  BY <1>2, PlayersFact DEF SameInPlay, Players, Opponent
<1>4. h \in Moved(g)
  BY <1>2, <1>3 DEF Moved
<1> QED
  BY <1>4 DEF h, Relocated

LEMMA MovePlayer ==
  ASSUME NEW g \in GameStates, NEW p \in Players, NEW r \in PlayerState,
         SameOwned(g.players[p], r),
         r.inPlay = g.players[p].inPlay,
         p = g.current \/ SameMeans(g.players[p], r)
  PROVE  [g EXCEPT !.players[p] = r] \in Moved(g)
<1>1. g.supply \in Bag /\ g.trash \in Bag
  BY DEF GameStates
<1>2. [g EXCEPT !.players[p] = r, !.supply = g.supply, !.trash = g.trash] \in Moved(g)
  BY <1>1, MoveCards DEF SameOwned
<1>3. [g EXCEPT !.players[p] = r]
        = [g EXCEPT !.players[p] = r, !.supply = g.supply, !.trash = g.trash]
  BY DEF GameStates
<1> QED
  BY <1>2, <1>3

LEMMA FailMoves ==
  ASSUME NEW g \in GameStates
  PROVE  Fail(g) \in Moved(g) /\ Fail(g).err
BY DEF Fail, Moved, SameTurn, SameExisting, SameWaiting, SameInPlay, SameMeans, GameStates,
       Existing

LEMMA DrawMoves ==
  ASSUME NEW g \in GameStates, NEW p \in Players, NEW n \in Nat
  PROVE  WithPlayer(g, p, DrawCards(g.players[p], n)) \subseteq Moved(g)
<1>1. ASSUME NEW r \in DrawCards(g.players[p], n)
      PROVE  [g EXCEPT !.players[p] = r] \in Moved(g)
  <2>1. g.players[p] \in PlayerState
    BY PlayersFact
  <2>2. r \in Rearranged(g.players[p])
    BY <2>1, DrawCardsKeeps
  <2> QED
    BY <2>2, MovePlayer DEF Rearranged, SameMeans
<1> QED
  BY <1>1 DEF WithPlayer

LEMMA DiscardFromHandMoves ==
  ASSUME NEW g \in GameStates, NEW p \in Players, NEW list \in Bag
  PROVE  DiscardFromHand(g, p, list) \in Moved(g)
<1> DEFINE q == g.players[p]
           moved == AtMost(list, q.hand)
           r == [q EXCEPT !.hand = BagMinus(@, moved),
                          !.discard = BagPlus(@, moved)]
<1>1. q \in PlayerState
  BY PlayersFact
<1>2. moved \in Bag /\ BagMinus(q.hand, moved) \in Bag
      /\ BagPlus(q.discard, moved) \in Bag
  BY <1>1, BagTypes DEF PlayerState
<1>3. /\ r \in PlayerState /\ SameMeans(q, r) /\ r.deck = q.deck /\ r.top = q.top
      /\ r.hand = BagMinus(q.hand, moved) /\ r.discard = BagPlus(q.discard, moved)
  <2> HIDE DEF moved, q
  <2> QED
    BY <1>1, <1>2 DEF PlayerState, SameMeans
<1>4. ASSUME NEW c \in Cards PROVE Owned(r, c) = Owned(q, c)
  <2>1. r.hand[c] = q.hand[c] - moved[c] /\ r.discard[c] = q.discard[c] + moved[c]
        /\ moved[c] \in Nat
    BY <1>2, <1>3 DEF BagMinus, BagPlus, Bag
  <2> HIDE DEF r, moved, q
  <2> QED
    BY <1>1, <1>3, <2>1, CountsAreNat DEF Owned, SameMeans
<1>5. [g EXCEPT !.players[p] = r] \in Moved(g)
  BY <1>3, <1>4, MovePlayer DEF SameOwned, SameMeans
<1>6. DiscardFromHand(g, p, list) = [g EXCEPT !.players[p] = r]
  BY PlayersFact DEF DiscardFromHand, GameStates
<1> QED
  BY <1>5, <1>6

LEMMA TrashFromHandMoves ==
  ASSUME NEW g \in GameStates, NEW p \in Players, NEW list \in Bag
  PROVE  TrashFromHand(g, p, list) \in Moved(g)
<1> DEFINE q == g.players[p]
           moved == AtMost(list, q.hand)
           r == [q EXCEPT !.hand = BagMinus(@, moved)]
           t == BagPlus(g.trash, moved)
<1>1. q \in PlayerState /\ g.supply \in Bag /\ g.trash \in Bag
  BY PlayersFact DEF GameStates
<1>2. moved \in Bag /\ BagMinus(q.hand, moved) \in Bag /\ t \in Bag
  BY <1>1, BagTypes DEF PlayerState
<1>3. /\ r \in PlayerState /\ SameMeans(q, r) /\ r.deck = q.deck /\ r.top = q.top
      /\ r.hand = BagMinus(q.hand, moved) /\ r.discard = q.discard
  <2> HIDE DEF moved, q
  <2> QED
    BY <1>1, <1>2 DEF PlayerState, SameMeans
<1>4. ASSUME NEW c \in Cards
      PROVE  g.supply[c] + t[c] + Owned(r, c) = g.supply[c] + g.trash[c] + Owned(q, c)
  <2>1. r.hand[c] = q.hand[c] - moved[c] /\ t[c] = g.trash[c] + moved[c]
        /\ moved[c] \in Nat /\ g.trash[c] \in Nat /\ g.supply[c] \in Nat
    BY SMTT(30), <1>1, <1>2, <1>3 DEF BagMinus, BagPlus, Bag
  <2> HIDE DEF r, moved, q, t
  <2> QED
    BY <1>1, <1>3, <2>1, CountsAreNat DEF Owned, SameMeans
<1>5. [g EXCEPT !.players[p] = r, !.supply = g.supply, !.trash = t] \in Moved(g)
  <2> HIDE DEF r, t
  <2> QED
    BY <1>1, <1>2, <1>3, <1>4, MoveCards DEF SameMeans
<1>6. TrashFromHand(g, p, list)
        = [g EXCEPT !.players[p] = r, !.supply = g.supply, !.trash = t]
  BY PlayersFact DEF TrashFromHand, GameStates
<1> QED
  BY <1>5, <1>6

LEMMA PutOnDeckMoves ==
  ASSUME NEW g \in GameStates, NEW p \in Players, NEW x
  PROVE  PutOnDeck(g, p, x) \in Moved(g)
<1> DEFINE q == g.players[p]
           r == [q EXCEPT !.hand = DropOne(@, x), !.top = Append(@, x)]
<1>1. CASE InHand(g, p, x)
  <2>1. q \in PlayerState /\ q.top \in Seq(Cards) /\ x \in Cards /\ q.hand[x] > 0
    BY <1>1, PlayersFact DEF InHand, PlayerState
  <2>2. DropOne(q.hand, x) \in Bag /\ Append(q.top, x) \in Seq(Cards)
    BY <2>1, BagTypes DEF PlayerState
  <2>3. /\ r \in PlayerState /\ SameMeans(q, r) /\ r.deck = q.deck
        /\ r.top = Append(q.top, x) /\ r.hand = DropOne(q.hand, x)
        /\ r.discard = q.discard
    <3> HIDE DEF q
    <3> QED
      BY <2>1, <2>2 DEF PlayerState, SameMeans
  <2>4. ASSUME NEW c \in Cards PROVE Owned(r, c) = Owned(q, c)
    <3>1. r.hand[c] = q.hand[c] - OneOf(x)[c] /\ OneOf(x)[c] \in Nat
      BY <2>3 DEF DropOne, BagMinus, OneOf
    <3>2. BagOfSeq(r.top)[c] = BagOfSeq(q.top)[c] + OneOf(x)[c]
      BY <2>1, <2>3, CountAppend
    <3> HIDE DEF r, q
    <3> QED
      BY SMTT(30), <2>1, <2>3, <3>1, <3>2, CountsAreNat DEF Owned, SameMeans
  <2>5. [g EXCEPT !.players[p] = r] \in Moved(g)
    BY <2>3, <2>4, MovePlayer DEF SameOwned, SameMeans
  <2>6. PutOnDeck(g, p, x) = [g EXCEPT !.players[p] = r]
    BY <1>1, PlayersFact DEF PutOnDeck, GameStates
  <2> QED
    BY <2>5, <2>6
<1>2. CASE ~InHand(g, p, x)
  BY <1>2, MovedSelf DEF PutOnDeck
<1> QED
  BY <1>1, <1>2

LEMMA TrashFromDeckMoves ==
  ASSUME NEW g \in GameStates, NEW p \in Players, NEW x \in Cards
  PROVE  TrashFromDeck(g, p, x) \in Moved(g)
<1> DEFINE q == g.players[p]
           r == RemoveFromDeck(q, x)
           t == AddOne(g.trash, x)
<1>1. q \in PlayerState /\ g.supply \in Bag /\ g.trash \in Bag
  BY PlayersFact DEF GameStates
<1>2. CASE InDeck(q, x)
  <2>1. /\ r \in PlayerState /\ SameMeans(q, r)
        /\ \A c \in Cards : Owned(r, c) + OneOf(x)[c] = Owned(q, c)
    BY <1>1, <1>2, RemoveFromDeckKeeps
  <2>2. t \in Bag
    BY <1>1, BagTypes
  <2>3. ASSUME NEW c \in Cards
        PROVE  g.supply[c] + t[c] + Owned(r, c)
                 = g.supply[c] + g.trash[c] + Owned(q, c)
    <3>1. /\ t[c] = g.trash[c] + OneOf(x)[c] /\ OneOf(x)[c] \in Nat
          /\ g.trash[c] \in Nat /\ g.supply[c] \in Nat
      BY <1>1 DEF AddOne, BagPlus, OneOf, Bag
    <3>2. Owned(r, c) \in Nat /\ Owned(r, c) + OneOf(x)[c] = Owned(q, c)
      BY SMTT(30), <2>1, OwnedIsNat
    <3> HIDE DEF r, q, t
    <3> QED
      BY <3>1, <3>2
  <2>4. [g EXCEPT !.players[p] = r, !.supply = g.supply, !.trash = t] \in Moved(g)
    <3> HIDE DEF r, t
    <3> QED
      BY <1>1, <2>1, <2>2, <2>3, MoveCards DEF SameMeans
  <2>5. TrashFromDeck(g, p, x)
          = [g EXCEPT !.players[p] = r, !.supply = g.supply, !.trash = t]
    <3>1. TrashFromDeck(g, p, x)
            = [g EXCEPT !.players[p] = RemoveFromDeck(@, x), !.trash = AddOne(@, x)]
      BY <1>2 DEF TrashFromDeck
    <3> QED
      BY <3>1 DEF GameStates
  <2> QED
    BY <2>4, <2>5
<1>3. CASE ~InDeck(q, x)
  BY <1>3, MovedSelf DEF TrashFromDeck
<1> QED
  BY <1>2, <1>3

LEMMA DiscardFromDeckMoves ==
  ASSUME NEW g \in GameStates, NEW p \in Players, NEW x \in Cards
  PROVE  DiscardFromDeck(g, p, x) \in Moved(g)
<1> DEFINE q == g.players[p]
           u == RemoveFromDeck(q, x)
           r == [u EXCEPT !.discard = AddOne(@, x)]
<1>1. q \in PlayerState
  BY PlayersFact
<1>2. CASE InDeck(q, x)
  <2>1. /\ u \in PlayerState /\ SameMeans(q, u)
        /\ \A c \in Cards : Owned(u, c) + OneOf(x)[c] = Owned(q, c)
    BY <1>1, <1>2, RemoveFromDeckKeeps
  <2>2. AddOne(u.discard, x) \in Bag
    BY <2>1, BagTypes DEF PlayerState
  <2>3. /\ r \in PlayerState /\ SameMeans(u, r) /\ r.deck = u.deck /\ r.top = u.top
        /\ r.hand = u.hand /\ r.discard = AddOne(u.discard, x)
    <3> HIDE DEF u
    <3> QED
      BY <2>1, <2>2 DEF PlayerState, SameMeans
  <2>4. ASSUME NEW c \in Cards PROVE Owned(r, c) = Owned(q, c)
    <3>1. r.discard[c] = u.discard[c] + OneOf(x)[c] /\ OneOf(x)[c] \in Nat
      BY <2>3 DEF AddOne, BagPlus, OneOf
    <3>2. Owned(u, c) + OneOf(x)[c] = Owned(q, c)
      BY <2>1
    <3> HIDE DEF r, u
    <3> QED
      BY <2>1, <2>3, <3>1, <3>2, CountsAreNat DEF Owned, SameMeans
  <2>5. [g EXCEPT !.players[p] = r] \in Moved(g)
    <3>1. SameMeans(q, r)
      BY <2>1, <2>3 DEF SameMeans
    <3> HIDE DEF r
    <3> QED
      BY <2>3, <2>4, <3>1, MovePlayer DEF SameOwned, SameMeans
  <2>6. DiscardFromDeck(g, p, x) = [g EXCEPT !.players[p] = r]
    BY <1>2 DEF DiscardFromDeck
  <2> QED
    BY <2>5, <2>6
<1>3. CASE ~InDeck(q, x)
  BY <1>3, MovedSelf DEF DiscardFromDeck
<1> QED
  BY <1>2, <1>3

LEMMA GainCardMoves ==
  ASSUME NEW g \in GameStates, NEW p \in Players, NEW x,
         NEW dest \in {"hand", "deck", "discard"}
  PROVE  GainCard(g, p, x, dest) \in Moved(g)
<1> DEFINE q == g.players[p]
           r == CASE dest = "hand" -> [q EXCEPT !.hand = AddOne(@, x)]
                  [] dest = "deck" -> [q EXCEPT !.top = Append(@, x)]
                  [] dest = "discard" -> [q EXCEPT !.discard = AddOne(@, x)]
           s == DropOne(g.supply, x)
<1>1. q \in PlayerState /\ g.supply \in Bag /\ g.trash \in Bag
  BY PlayersFact DEF GameStates
<1>2. CASE x \in Cards /\ g.supply[x] > 0
  <2>1. /\ s \in Bag /\ AddOne(q.hand, x) \in Bag /\ AddOne(q.discard, x) \in Bag
        /\ q.top \in Seq(Cards) /\ Append(q.top, x) \in Seq(Cards)
    BY <1>1, <1>2, BagTypes DEF PlayerState
  <2>2. /\ r \in PlayerState /\ SameMeans(q, r)
        /\ \A c \in Cards : Owned(r, c) = Owned(q, c) + OneOf(x)[c]
    <3>1. CASE dest = "hand"
      <4>1. r = [q EXCEPT !.hand = AddOne(@, x)]
        BY <3>1
      <4>2. /\ r \in PlayerState /\ SameMeans(q, r) /\ r.hand = AddOne(q.hand, x)
            /\ r.deck = q.deck /\ r.top = q.top /\ r.discard = q.discard
        <5> HIDE DEF q, r
        <5> QED
          BY <1>1, <2>1, <4>1 DEF PlayerState, SameMeans
      <4>3. ASSUME NEW c \in Cards PROVE Owned(r, c) = Owned(q, c) + OneOf(x)[c]
        <5>1. r.hand[c] = q.hand[c] + OneOf(x)[c] /\ OneOf(x)[c] \in Nat
          BY <4>2 DEF AddOne, BagPlus, OneOf
        <5> HIDE DEF q, r
        <5> QED
          BY <1>1, <4>2, <5>1, CountsAreNat DEF Owned, SameMeans
      <4> QED
        BY <4>2, <4>3
    <3>2. CASE dest = "deck"
      <4>1. r = [q EXCEPT !.top = Append(@, x)]
        BY <3>2
      <4>2. /\ r \in PlayerState /\ SameMeans(q, r) /\ r.hand = q.hand
            /\ r.deck = q.deck /\ r.top = Append(q.top, x) /\ r.discard = q.discard
        <5> HIDE DEF q, r
        <5> QED
          BY <1>1, <2>1, <4>1 DEF PlayerState, SameMeans
      <4>3. ASSUME NEW c \in Cards PROVE Owned(r, c) = Owned(q, c) + OneOf(x)[c]
        <5>1. BagOfSeq(r.top)[c] = BagOfSeq(q.top)[c] + OneOf(x)[c]
              /\ OneOf(x)[c] \in Nat
          BY SMTT(30), <1>2, <2>1, <4>2, CountAppend DEF OneOf
        <5>2. /\ r.hand[c] = q.hand[c] /\ r.deck[c] = q.deck[c]
              /\ r.discard[c] = q.discard[c] /\ r.inPlay[c] = q.inPlay[c]
              /\ BagOfSeq(r.setAside)[c] = BagOfSeq(q.setAside)[c]
          BY <4>2 DEF SameMeans
        <5> HIDE DEF q, r
        <5> QED
          BY <1>1, <5>1, <5>2, CountsAreNat DEF Owned
      <4> QED
        BY <4>2, <4>3
    <3>3. CASE dest = "discard"
      <4>1. r = [q EXCEPT !.discard = AddOne(@, x)]
        BY <3>3
      <4>2. /\ r \in PlayerState /\ SameMeans(q, r) /\ r.hand = q.hand
            /\ r.deck = q.deck /\ r.top = q.top /\ r.discard = AddOne(q.discard, x)
        <5> HIDE DEF q, r
        <5> QED
          BY <1>1, <2>1, <4>1 DEF PlayerState, SameMeans
      <4>3. ASSUME NEW c \in Cards PROVE Owned(r, c) = Owned(q, c) + OneOf(x)[c]
        <5>1. r.discard[c] = q.discard[c] + OneOf(x)[c] /\ OneOf(x)[c] \in Nat
          BY <4>2 DEF AddOne, BagPlus, OneOf
        <5> HIDE DEF q, r
        <5> QED
          BY <1>1, <4>2, <5>1, CountsAreNat DEF Owned, SameMeans
      <4> QED
        BY <4>2, <4>3
    <3> HIDE DEF r
    <3> QED
      BY <3>1, <3>2, <3>3
  <2>3. ASSUME NEW c \in Cards
        PROVE  s[c] + g.trash[c] + Owned(r, c)
                 = g.supply[c] + g.trash[c] + Owned(q, c)
    <3>1. /\ s[c] = g.supply[c] - OneOf(x)[c] /\ OneOf(x)[c] \in Nat
          /\ g.trash[c] \in Nat /\ g.supply[c] \in Nat
      BY <1>1 DEF DropOne, BagMinus, OneOf, Bag
    <3>2. Owned(q, c) \in Nat /\ Owned(r, c) = Owned(q, c) + OneOf(x)[c]
      BY <1>1, <2>2, OwnedIsNat
    <3> HIDE DEF r, q, s
    <3> QED
      BY <3>1, <3>2
  <2>4. [g EXCEPT !.players[p] = r, !.supply = s, !.trash = g.trash] \in Moved(g)
    <3> HIDE DEF r, s
    <3> QED
      BY <1>1, <2>1, <2>2, <2>3, MoveCards DEF SameMeans
  <2>5. GainCard(g, p, x, dest)
          = [g EXCEPT !.players[p] = r, !.supply = s, !.trash = g.trash]
    <3>1. GainCard(g, p, x, dest) = [g EXCEPT !.supply = DropOne(@, x), !.players[p] = r]
      BY <1>2 DEF GainCard
    <3> HIDE DEF r
    <3> QED
      BY <3>1 DEF GameStates
  <2> QED
    BY <2>4, <2>5
<1>3. CASE ~(x \in Cards /\ g.supply[x] > 0)
  BY <1>3, MovedSelf DEF GainCard
<1> QED
  BY <1>2, <1>3

LEMMA AddResourcesMoves ==
  ASSUME NEW g \in GameStates, NEW a \in Nat, NEW b \in Nat, NEW m \in Nat
  PROVE  AddResources(g, g.current, a, b, m) \in Moved(g)
<1> DEFINE p == g.current
           q == g.players[p]
           r == [q EXCEPT !.actions = @ + a, !.buys = @ + b, !.coins = @ + m]
<1>1. p \in Players /\ q \in PlayerState
  BY PlayersFact
<1>2. /\ r \in PlayerState /\ r.hand = q.hand /\ r.deck = q.deck /\ r.top = q.top
      /\ r.discard = q.discard /\ r.inPlay = q.inPlay /\ r.setAside = q.setAside
  <2> HIDE DEF q, p
  <2>1. q.actions + a \in Nat /\ q.buys + b \in Nat /\ q.coins + m \in Nat
    BY <1>1 DEF PlayerState
  <2> QED
    BY <1>1, <2>1 DEF PlayerState
<1>3. [g EXCEPT !.players[p] = r] \in Moved(g)
  <2>1. SameOwned(q, r)
    BY <1>2 DEF SameOwned, Owned
  <2> HIDE DEF r
  <2> QED
    BY <1>1, <1>2, <2>1, MovePlayer
<1>4. AddResources(g, p, a, b, m) = [g EXCEPT !.players[p] = r]
  BY <1>1 DEF AddResources, GameStates
<1> QED
  BY <1>3, <1>4

LEMMA VictimsFact ==
  ASSUME NEW g, NEW p \in Players, NEW v \in AttackVictims(g, p)
  PROVE  v = Opponent(p) /\ v \in Players
BY PlayersFact DEF AttackVictims
=============================================================================
