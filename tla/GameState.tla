----------------------------- MODULE GameState ------------------------------
(***************************************************************************)
(* The authoritative state of one game (internal/engine/state.go) and the  *)
(* primitives every card effect is built from (primitives.go, attack.go,   *)
(* decision.go).                                                           *)
(*                                                                         *)
(* A zone whose order no code reads is a bag, a function from Cards to     *)
(* Nat.  A shuffled deck has an order, but nobody knows it: a player's     *)
(* deck is the bag `deck' of the cards shuffled and not seen since, under  *)
(* the sequence `top' of the cards placed or revealed on it (its last      *)
(* element is the top, as the end of the slice is).  A shuffle leaves the  *)
(* order open and drawing picks any card of `deck'.                        *)
(*                                                                         *)
(* The code threads a *GameState through nested calls (a card played by    *)
(* a replay of a Throne Room ...), so a primitive is an operator from a    *)
(* state to a state, or to the set of its possible outcomes when it draws. *)
(***************************************************************************)
EXTENDS CardData, Sequences, FiniteSets

Players == {0, 1}               \* NewGame accepts exactly two names
Opponent(p) == 1 - p
NoCard == "none"                \* CardChoiceAnswer{None: true}
NoDecision == [card |-> NoCard] \* PendingDecision = nil

Bag == [Cards -> Nat]
EmptyBag == [c \in Cards |-> 0]

\* The physical copies of a bag, and how many there are: len of the slice.
Copies(b) == UNION {{c} \X (1..b[c]) : c \in Cards}
Size(b) == Cardinality(Copies(b))

BagPlus(a, b) == [c \in Cards |-> a[c] + b[c]]
BagMinus(a, b) == [c \in Cards |-> a[c] - b[c]]
AtMost(a, b) == [c \in Cards |-> IF a[c] <= b[c] THEN a[c] ELSE b[c]]
OneOf(c) == [d \in Cards |-> IF d = c THEN 1 ELSE 0]
AddOne(b, c) == BagPlus(b, OneOf(c))
DropOne(b, c) == BagMinus(b, OneOf(c))
BagOfSeq(s) == [c \in Cards |-> Cardinality({i \in DOMAIN s : s[i] = c})]

\* Removing the element at index i: append(s[:i], s[i+1:]...).
Without(s, i) == SubSeq(s, 1, i - 1) \o SubSeq(s, i + 1, Len(s))

\* indexOf: the first occurrence, the bottom-most one of a deck.
IndexOf(s, c) ==
  CHOOSE i \in DOMAIN s : s[i] = c /\ \A j \in 1..(i - 1) : s[j] # c

InSeq(c, s) == \E i \in DOMAIN s : s[i] = c

PlayerState ==
  [hand : Bag, deck : Bag, top : Seq(Cards), discard : Bag, inPlay : Bag,
   setAside : Seq(Cards), actions : Nat, buys : Nat, coins : Nat,
   charges : Nat, silver : BOOLEAN]

(***************************************************************************)
(* Decisions.  `card' and `step' select the handler; the prompt and the    *)
(* context are the fields a handler or a client reads from them: `min' and *)
(* `max' of the list prompts, `limit' the MaxCost of a gain, `shown' the   *)
(* cards the prompt or CtxKeyCard / CtxKeyRevealedCards names.             *)
(* CtxKeyAttacker and CtxKeyRemainingVictims are left out: with two        *)
(* players no victim ever remains after the one who decides.               *)
(***************************************************************************)
Askers ==
  {"militia", "bureaucrat", "bandit", "cellar", "chapel", "moneylender",
   "poacher", "workshop", "artisan", "remodel", "mine", "harbinger", "vassal",
   "library", "sentry", "throne_room"}

Decision ==
  [card : Askers, id : Nat, player : Players, step : 0..2,
   min : Nat, max : Nat, limit : Nat, shown : Seq(Cards)]

NoPrompt == [min |-> 0, max |-> 0, limit |-> 0, shown |-> <<>>]

\* RequestDecision: a fresh ID from DecisionSeq, and whatever was pending is
\* overwritten.
RequestDecision(g, p, c, s, prompt) ==
  [g EXCEPT !.decisionSeq = @ + 1,
            !.decision = [card |-> c, id |-> g.decisionSeq + 1, player |-> p,
                          step |-> s, min |-> prompt.min, max |-> prompt.max,
                          limit |-> prompt.limit, shown |-> prompt.shown]]

(***************************************************************************)
(* The state.  `err' is the error result of the last call of Apply.        *)
(***************************************************************************)
PendingPlay == [player : Players, card : Cards]

GameStates ==
  [players : [Players -> PlayerState], current : Players, starting : Players,
   phase : {"action", "buy"}, supply : Bag, trash : Bag, turn : Nat,
   ended : BOOLEAN, winners : SUBSET Players,
   decision : Decision \cup {NoDecision}, decisionSeq : Nat,
   pendingPlays : Seq(PendingPlay), err : BOOLEAN]

Fail(g) == [g EXCEPT !.err = TRUE]

\* One player's record replaced by each of a set of outcomes.
WithPlayer(g, p, outcomes) == {[g EXCEPT !.players[p] = q] : q \in outcomes}

-----------------------------------------------------------------------------
(***************************************************************************)
(* The deck of one player q.                                               *)
(***************************************************************************)
DeckEmpty(q) == q.deck = EmptyBag /\ q.top = <<>>
DeckSize(q) == Size(q.deck) + Len(q.top)
Front(s) == SubSeq(s, 1, Len(s) - 1)

\* The shuffle of DrawCards: an empty deck becomes the shuffled discard pile.
Reshuffled(q) ==
  IF DeckEmpty(q) THEN [q EXCEPT !.deck = q.discard, !.discard = EmptyBag]
                  ELSE q

\* Mutant of Merged: what is left of the deck is replaced, not added to.
MergedForgetsTop(q, n) ==
  IF DeckSize(q) < n /\ q.discard # EmptyBag
  THEN [q EXCEPT !.deck = q.discard, !.top = <<>>, !.discard = EmptyBag]
  ELSE q

\* The shuffle of RevealFromDeck and peelToSetAside: with fewer than n cards
\* left the discard pile is added to the deck and all of it is shuffled.
Merged(q, n) ==
  IF DeckSize(q) < n /\ q.discard # EmptyBag
  THEN [q EXCEPT !.deck = BagPlus(BagPlus(@, BagOfSeq(q.top)), q.discard),
                 !.top = <<>>, !.discard = EmptyBag]
  ELSE q

\* The ways to take the top card off a deck: the card and what remains.
Pop(q) ==
  IF q.top # <<>>
  THEN {[card |-> q.top[Len(q.top)], rest |-> [q EXCEPT !.top = Front(@)]]}
  ELSE {[card |-> c, rest |-> [q EXCEPT !.deck = DropOne(@, c)]] :
          c \in {d \in Cards : q.deck[d] > 0}}

\* Mutant of DrawOne: an empty deck is not refilled.
DrawOneNoShuffle(q) ==
  IF DeckEmpty(q) THEN {q}
  ELSE {[t.rest EXCEPT !.hand = AddOne(@, t.card)] : t \in Pop(q)}

\* One round of the loop of DrawCards; with nothing to draw it stops short.
DrawOne(q) ==
  LET r == Reshuffled(q)
  IN  IF DeckEmpty(r) THEN {r}
      ELSE {[t.rest EXCEPT !.hand = AddOne(@, t.card)] : t \in Pop(r)}

DrawCards(q, n) ==
  LET drawn[k \in 0..n] ==
        IF k = 0 THEN {q} ELSE UNION {DrawOne(r) : r \in drawn[k - 1]}
  IN  drawn[n]

\* Turning over a card of the shuffled part, unless n are visible already.
Uncover(q, n) ==
  IF Len(q.top) >= n \/ q.deck = EmptyBag THEN {q}
  ELSE {[q EXCEPT !.deck = DropOne(@, c), !.top = <<c>> \o @] :
          c \in {d \in Cards : q.deck[d] > 0}}

\* RevealFromDeck(gs, px, 2), the one count the code asks for: the cards stay
\* on the deck.
RevealFromDeck(q) ==
  UNION {Uncover(r, 2) : r \in Uncover(Merged(q, 2), 2)}

\* The revealed cards, top of the deck first.
Revealed(q) ==
  LET n == IF Len(q.top) < 2 THEN Len(q.top) ELSE 2
  IN  [i \in 1..n |-> q.top[Len(q.top) + 1 - i]]

\* peelToSetAside(gs, px, 2).
Peel(q) ==
  IF DeckEmpty(q) THEN {q}
  ELSE {[t.rest EXCEPT !.setAside = Append(@, t.card)] : t \in Pop(q)}

PeelToSetAside(q) == UNION {Peel(r) : r \in Peel(Merged(q, 2))}

-----------------------------------------------------------------------------
(***************************************************************************)
(* Moving named cards.  A list answer is a bag; copies not in the hand are *)
(* skipped.                                                                *)
(***************************************************************************)
DiscardFromHand(g, p, list) ==
  LET moved == AtMost(list, g.players[p].hand)
  IN  [g EXCEPT !.players[p].hand = BagMinus(@, moved),
                !.players[p].discard = BagPlus(@, moved)]

\* Mutant of TrashFromHand: the trash pile is forgotten.
TrashFromHandVanishes(g, p, list) ==
  [g EXCEPT !.players[p].hand = BagMinus(@, AtMost(list, g.players[p].hand))]

TrashFromHand(g, p, list) ==
  LET moved == AtMost(list, g.players[p].hand)
  IN  [g EXCEPT !.players[p].hand = BagMinus(@, moved),
                !.trash = BagPlus(@, moved)]

InHand(g, p, c) == c \in Cards /\ g.players[p].hand[c] > 0

\* PutOnDeck for a list of one card, the only length its callers pass.
PutOnDeck(g, p, c) ==
  IF InHand(g, p, c)
  THEN [g EXCEPT !.players[p].hand = DropOne(@, c),
                 !.players[p].top = Append(@, c)]
  ELSE g

\* indexOf finds the bottom-most copy of c in the deck, which lies in the
\* shuffled part when that part holds one.
RemoveFromDeck(q, c) ==
  IF q.deck[c] > 0 THEN [q EXCEPT !.deck = DropOne(@, c)]
                   ELSE [q EXCEPT !.top = Without(@, IndexOf(@, c))]

InDeck(q, c) == q.deck[c] > 0 \/ InSeq(c, q.top)

TrashFromDeck(g, p, c) ==
  IF InDeck(g.players[p], c)
  THEN [g EXCEPT !.players[p] = RemoveFromDeck(@, c), !.trash = AddOne(@, c)]
  ELSE g

DiscardFromDeck(g, p, c) ==
  LET rest == RemoveFromDeck(g.players[p], c)
  IN  IF InDeck(g.players[p], c)
      THEN [g EXCEPT !.players[p] = [rest EXCEPT !.discard = AddOne(@, c)]]
      ELSE g

\* GainCard: an empty (or absent) pile makes it a no-op.
GainCard(g, p, c, dest) ==
  LET q == g.players[p]
      gained == CASE dest = "hand" -> [q EXCEPT !.hand = AddOne(@, c)]
                  [] dest = "deck" -> [q EXCEPT !.top = Append(@, c)]
                  [] dest = "discard" -> [q EXCEPT !.discard = AddOne(@, c)]
  IN  IF c \in Cards /\ g.supply[c] > 0
      THEN [g EXCEPT !.supply = DropOne(@, c), !.players[p] = gained]
      ELSE g

\* AddActions, AddBuys and AddCoins.
AddResources(g, p, actions, buys, coins) ==
  [g EXCEPT !.players[p].actions = @ + actions, !.players[p].buys = @ + buys,
            !.players[p].coins = @ + coins]

EmptyPiles(g) == {c \in Cards : g.supply[c] = 0}

\* Mutant of AttackVictims: reactions are not asked.
AttackVictimsAll(g, attacker) == {Opponent(attacker)}

\* ResolveAttackVictims: the opponent, unless a reaction in hand blocks.
AttackVictims(g, attacker) ==
  {v \in {Opponent(attacker)} :
     ~ \E c \in Cards : InHand(g, v, c) /\ HasType(c, "reaction")}

\* The copies of card c a player owns, and those in the whole game.
Owned(q, c) ==
  q.hand[c] + q.deck[c] + BagOfSeq(q.top)[c] + q.discard[c] + q.inPlay[c]
  + BagOfSeq(q.setAside)[c]

Existing(g, c) ==
  g.supply[c] + g.trash[c] + Owned(g.players[0], c) + Owned(g.players[1], c)

HandHasType(g, p, t) == \E c \in Cards : InHand(g, p, c) /\ HasType(c, t)
=============================================================================
