------------------------------- MODULE Engine -------------------------------
(***************************************************************************)
(* The rules engine, internal/engine: NewGame lays out a game and Apply is *)
(* the only entry point that changes it.  Each operation below is one call *)
(* of Apply, run to completion as the code does under the store's lock;    *)
(* a call that Apply rejects ends in a state whose err is TRUE.            *)
(***************************************************************************)
EXTENDS CardEffects, FiniteSetsExt

CONSTANTS
  StartDeck,     \* the cards each player owns at the start, before the deal
  InitialPiles,  \* the supply piles at the start
  BuyChoices,    \* the cards the players of this instance try to buy
  MaxTurn,       \* bound: no turn after this one is started
  Obedient,      \* TRUE: answers obey the prompt they answer
  Rejections     \* TRUE: calls that Apply rejects are made too

ASSUME EngineAssumption ==
  /\ StartDeck \in [Players -> Bag] /\ InitialPiles \in Bag
  /\ BuyChoices \subseteq Cards
  /\ MaxTurn \in Nat /\ Obedient \in BOOLEAN /\ Rejections \in BOOLEAN

VARIABLE gs  \* the *GameState of one game

-----------------------------------------------------------------------------
(***************************************************************************)
(* NewGame: both decks shuffled, five cards each, a random first player.   *)
(***************************************************************************)
Undealt(p) ==
  [hand |-> EmptyBag, deck |-> StartDeck[p], top |-> <<>>, discard |-> EmptyBag,
   inPlay |-> EmptyBag, setAside |-> <<>>, actions |-> 0, buys |-> 0,
   coins |-> 0, charges |-> 0, silver |-> FALSE]

StartTurn(q) == [q EXCEPT !.actions = 1, !.buys = 1, !.coins = 0]

NewGame(first, dealt) ==
  [players |-> [p \in Players |-> IF p = first THEN StartTurn(dealt[p])
                                               ELSE dealt[p]],
   current |-> first, starting |-> first, phase |-> "action",
   supply |-> InitialPiles, trash |-> EmptyBag, turn |-> 1, ended |-> FALSE,
   winners |-> {}, decision |-> NoDecision, decisionSeq |-> 0,
   pendingPlays |-> <<>>, err |-> FALSE]

Init ==
  \E first \in Players :
    \E h0 \in DrawCards(Undealt(0), 5), h1 \in DrawCards(Undealt(1), 5) :
      gs = NewGame(first, [p \in Players |-> IF p = 0 THEN h0 ELSE h1])

-----------------------------------------------------------------------------
(***************************************************************************)
(* The end of a turn (phases.go, scoring.go).                              *)
(***************************************************************************)

\* Mutants of CleanedUp: the cards in play vanish; the Merchant state of the
\* turn is kept; SetAside is not flushed.
CleanedUpLosesInPlay(q) ==
  {[r EXCEPT !.actions = 0, !.buys = 0, !.coins = 0, !.charges = 0,
             !.silver = FALSE] :
     r \in DrawCards([q EXCEPT !.discard = BagPlus(@, q.hand),
                               !.inPlay = EmptyBag, !.hand = EmptyBag], 5)}

CleanedUpKeepsMerchant(q) ==
  {[r EXCEPT !.actions = 0, !.buys = 0, !.coins = 0] :
     r \in DrawCards([q EXCEPT !.discard = BagPlus(@, BagPlus(q.inPlay, q.hand)),
                               !.inPlay = EmptyBag, !.hand = EmptyBag], 5)}

CleanedUpKeepsSetAside(q) ==
  {[r EXCEPT !.actions = 0, !.buys = 0, !.coins = 0, !.charges = 0,
             !.silver = FALSE] :
     r \in DrawCards([q EXCEPT !.discard = BagPlus(@, BagPlus(q.inPlay, q.hand)),
                               !.inPlay = EmptyBag, !.hand = EmptyBag], 5)}

\* The discards, the draw of five and the resets of cleanupAndEndTurn.
CleanedUp(q) ==
  LET discarded ==
        [q EXCEPT !.discard = BagPlus(BagPlus(@, BagOfSeq(q.setAside)),
                                      BagPlus(q.inPlay, q.hand)),
                  !.setAside = <<>>, !.inPlay = EmptyBag, !.hand = EmptyBag]
  IN  {[r EXCEPT !.actions = 0, !.buys = 0, !.coins = 0, !.charges = 0,
                 !.silver = FALSE] : r \in DrawCards(discarded, 5)}

\* cleanupAndEndTurn
CleanupAndEndTurn(g) ==
  LET px == g.current
      next == Opponent(px)
  IN  {[h EXCEPT !.pendingPlays = <<>>, !.current = next, !.phase = "action",
                 !.turn = IF next = g.starting THEN @ + 1 ELSE @,
                 !.players[next] = StartTurn(@)] :
         h \in WithPlayer(g, px, CleanedUp(g.players[px]))}

\* Mutant of IsGameOver: four piles must be empty.
IsGameOverFourPiles(g) ==
  g.supply["province"] = 0 \/ Cardinality(EmptyPiles(g)) > 3

IsGameOver(g) == g.supply["province"] = 0 \/ Cardinality(EmptyPiles(g)) >= 3

\* ComputeScore adds up every zone but SetAside; gardens count that one too.
ScoredCards(q) ==
  BagPlus(BagPlus(q.hand, q.discard),
          BagPlus(q.inPlay, BagPlus(q.deck, BagOfSeq(q.top))))

\* The points of the cards of a bag, for a player with n cards.
Worth(b, n) == MapThenSumSet(LAMBDA c : b[c] * VictoryPoints(c, n), Cards)

ComputeScore(q) ==
  Worth(ScoredCards(q), Size(ScoredCards(q)) + Len(q.setAside))

\* Mutant of DetermineWinners: a tie has only the first player as winner.
DetermineWinnersFirst(g) ==
  IF ComputeScore(g.players[0]) >= ComputeScore(g.players[1]) THEN {0} ELSE {1}

DetermineWinners(g) ==
  {p \in Players : \A o \in Players :
     ComputeScore(g.players[o]) <= ComputeScore(g.players[p])}

EndGame(g) == [g EXCEPT !.ended = TRUE, !.winners = DetermineWinners(g)]

ApplyEndPhase(g) ==
  IF g.phase = "action" THEN {[g EXCEPT !.phase = "buy"]}
  ELSE {IF IsGameOver(h) THEN EndGame(h) ELSE h : h \in CleanupAndEndTurn(g)}

-----------------------------------------------------------------------------
(***************************************************************************)
(* The other operations (apply.go).                                        *)
(***************************************************************************)

\* Mutant of ApplyPlayCard: the Actions left are not checked.
ApplyPlayCardFree(g, p, c) ==
  IF HasType(c, "action") /\ g.phase = "action"
  THEN PlayCardFromZone([g EXCEPT !.players[p].actions = @ - 1], p, c, "hand")
  ELSE IF HasType(c, "treasure") /\ g.phase = "buy"
  THEN PlayCardFromZone(g, p, c, "hand") ELSE {Fail(g)}

\* The Action is spent before PlayCardFromZone looks for the card.
ApplyPlayCard(g, p, c) ==
  LET spent == [g EXCEPT !.players[p].actions = @ - 1]
  IN  IF g.phase = "action"
      THEN IF HasType(c, "action") /\ g.players[p].actions > 0
           THEN PlayCardFromZone(spent, p, c, "hand") ELSE {Fail(g)}
      ELSE IF HasType(c, "treasure")
           THEN PlayCardFromZone(g, p, c, "hand") ELSE {Fail(g)}

ApplyBuyCard(g, p, c) ==
  LET q == g.players[p]
      paid == [g EXCEPT !.players[p].coins = @ - Cost[c],
                        !.players[p].buys = @ - 1]
  IN  IF /\ g.phase = "buy" /\ g.supply[c] > 0
         /\ q.buys > 0 /\ q.coins >= Cost[c]
      THEN {GainCard(paid, p, c, "discard")} ELSE {Fail(g)}

\* Mutant of UnwindOne: the pending decision is not looked at.
UnwindOneAnyway(g) ==
  LET n == Len(g.pendingPlays)
      last == g.pendingPlays[n]
  IN  IF n = 0 THEN {g}
      ELSE PlayCardInPlace([g EXCEPT !.pendingPlays = Front(@)],
                           last.player, last.card)

\* One round of the unwinding loop, the youngest pending play first.
UnwindOne(g) ==
  LET n == Len(g.pendingPlays)
      last == g.pendingPlays[n]
  IN  IF g.decision # NoDecision \/ n = 0 THEN {g}
      ELSE PlayCardInPlace([g EXCEPT !.pendingPlays = Front(@)],
                           last.player, last.card)

\* Mutant of Unwind: one entry instead of all of them.
UnwindOnce(g) == UnwindOne(g)

\* No OnPlay adds a pending play, so as many rounds as there are entries.
Unwind(g) ==
  LET round[k \in 0..Len(g.pendingPlays)] ==
        IF k = 0 THEN {g} ELSE UNION {UnwindOne(h) : h \in round[k - 1]}
  IN  round[Len(g.pendingPlays)]

\* The decision is cleared before OnResolve may reject the answer.
ApplyResolveDecision(g, p, id, answer) ==
  LET d == g.decision
  IN  IF d.id # id \/ d.player # p THEN {Fail(g)}
      ELSE UNION {IF h.err THEN {h} ELSE Unwind(h) :
                    h \in OnResolve([g EXCEPT !.decision = NoDecision], d, answer)}

\* Mutant of Apply: the current player may end the phase while a decision is
\* pending.
ApplyIgnoresDecision(g0, act) ==
  LET g == [g0 EXCEPT !.err = FALSE]
  IN  IF g.ended THEN {Fail(g)}
      ELSE IF act.kind = "end" /\ act.player = g.current THEN ApplyEndPhase(g)
      ELSE IF g.decision # NoDecision /\ act.kind = "resolve"
      THEN ApplyResolveDecision(g, act.player, act.id, act.answer)
      ELSE IF g.decision = NoDecision /\ act.kind = "play"
      THEN ApplyPlayCard(g, act.player, act.card)
      ELSE {Fail(g)}

\* Mutant of Apply: whose turn it is comes first, so that nobody else may
\* answer.
ApplyTurnFirst(g0, act) ==
  LET g == [g0 EXCEPT !.err = FALSE]
  IN  IF g.ended \/ act.player # g.current THEN {Fail(g)}
      ELSE IF g.decision # NoDecision
      THEN IF act.kind = "resolve"
           THEN ApplyResolveDecision(g, act.player, act.id, act.answer)
           ELSE {Fail(g)}
      ELSE CASE act.kind = "play" -> ApplyPlayCard(g, act.player, act.card)
             [] act.kind = "buy" -> ApplyBuyCard(g, act.player, act.card)
             [] act.kind = "end" -> ApplyEndPhase(g)
             [] OTHER -> {Fail(g)}

(***************************************************************************)
(* Apply: no call after the end, only ResolveDecision while a decision is  *)
(* pending, otherwise only the current player.                             *)
(***************************************************************************)
Apply(g0, act) ==
  LET g == [g0 EXCEPT !.err = FALSE]
  IN  IF g.ended THEN {Fail(g)}
      ELSE IF g.decision # NoDecision
      THEN IF act.kind = "resolve"
           THEN ApplyResolveDecision(g, act.player, act.id, act.answer)
           ELSE {Fail(g)}
      ELSE IF act.player # g.current \/ act.kind = "resolve" THEN {Fail(g)}
      ELSE CASE act.kind = "play" -> ApplyPlayCard(g, act.player, act.card)
             [] act.kind = "buy" -> ApplyBuyCard(g, act.player, act.card)
             [] act.kind = "end" -> ApplyEndPhase(g)

-----------------------------------------------------------------------------
(***************************************************************************)
(* The answers a client may give to the pending decision d.                *)
(***************************************************************************)
SubBags(b) ==
  {[c \in Cards |-> Cardinality({x \in copies : x[1] = c})] :
     copies \in SUBSET Copies(b)}

ListCards == {"militia", "bureaucrat", "cellar", "chapel", "moneylender", "poacher"}
YesNoCards == {"vassal", "library"}

AsksForList(d) ==
  d.card \in ListCards \/ (d.card \in {"remodel", "mine"} /\ d.step = 0)

\* The TypeFilter and CardFilter of the list prompts.
Passes(d, c) ==
  CASE d.card = "bureaucrat" -> HasType(c, "victory")
    [] d.card = "moneylender" -> c = "copper"
    [] d.card = "mine" -> HasType(c, "treasure")
    [] OTHER -> TRUE

\* The cards in hand a list prompt offers.
Offered(g, d) ==
  [c \in Cards |-> IF Passes(d, c) THEN g.players[d.player].hand[c] ELSE 0]

\* As many of them as asked for, or all when they are fewer.
ObedientLists(g, d) ==
  {b \in SubBags(Offered(g, d)) :
     \/ d.min <= Size(b) /\ Size(b) <= d.max
     \/ Size(Offered(g, d)) < d.min /\ b = Offered(g, d)}

Lists(g, d) ==
  IF Obedient THEN ObedientLists(g, d)
  ELSE SubBags(g.players[d.player].hand) \cup {OneOf(c) : c \in Cards}

\* Sequences of at most as many names as were shown.
Orders(d) ==
  LET names == {d.shown[i] : i \in DOMAIN d.shown}
      from(S) == UNION {[1..n -> S] : n \in 0..Len(d.shown)}
  IN  IF Obedient
      THEN {s \in from(names) :
              /\ \A c \in Cards : BagOfSeq(s)[c] <= BagOfSeq(d.shown)[c]
              /\ d.step = 2 => Len(s) = Len(d.shown)}
      ELSE from(names \cup {NoCard})

ObedientChoices(g, d) ==
  LET q == g.players[d.player]
  IN  CASE d.card = "bandit" ->
             {c \in Cards : InSeq(c, d.shown) /\ IsNonCopperTreasure(c)}
        [] d.card = "harbinger" -> {NoCard} \cup {c \in Cards : q.discard[c] > 0}
        [] d.card = "throne_room" ->
             {c \in Cards : q.hand[c] > 0 /\ HasType(c, "action")}
        [] d.card = "artisan" /\ d.step = 1 -> {c \in Cards : q.hand[c] > 0}
        [] OTHER -> {c \in Cards : /\ g.supply[c] > 0 /\ Cost[c] <= d.limit
                                   /\ d.card = "mine" => HasType(c, "treasure")}

CardChoices(g, d) ==
  IF Obedient THEN ObedientChoices(g, d) ELSE Cards \cup {NoCard}

Answers(g, d) ==
  CASE AsksForList(d) -> {[list |-> b] : b \in Lists(g, d)}
    [] d.card = "sentry" -> {[order |-> s] : s \in Orders(d)}
    [] d.card \in YesNoCards -> {[yes |-> y] : y \in BOOLEAN}
    [] OTHER -> {[choice |-> c] : c \in CardChoices(g, d)}

-----------------------------------------------------------------------------
(***************************************************************************)
(* The calls of Apply.  A run with Rejections = FALSE leaves out the calls *)
(* that end in an error.                                                   *)
(***************************************************************************)
Call(act) ==
  \E h \in Apply(gs, act) :
    /\ h.err => Rejections
    /\ h.turn <= MaxTurn
    /\ gs' = h

PlayCard(p, c) == Call([kind |-> "play", player |-> p, card |-> c])
BuyCard(p, c) == Call([kind |-> "buy", player |-> p, card |-> c])
EndPhase(p) == Call([kind |-> "end", player |-> p])

\* An answer to the pending decision, or to the one before it.
ResolveDecision(p, id) ==
  \E answer \in Answers(gs, gs.decision) :
    Call([kind |-> "resolve", player |-> p, id |-> id, answer |-> answer])

Next ==
  \E p \in Players :
    \/ \E c \in Cards : PlayCard(p, c)
    \/ \E c \in BuyChoices : BuyCard(p, c)
    \/ EndPhase(p)
    \/ /\ gs.decision # NoDecision
       /\ \E id \in {gs.decision.id, gs.decision.id - 1} : ResolveDecision(p, id)

Spec == Init /\ [][Next]_gs

-----------------------------------------------------------------------------
(***************************************************************************)
(* Invariants.                                                             *)
(***************************************************************************)

\* Every zone, counter and prompt keeps its type; in particular no pile, no
\* Action, Buy or Coin count ever goes below zero.
TypeOK == gs \in GameStates

\* No call of Apply, accepted or rejected, creates or destroys a card: of each
\* kind, the supply, the trash and the two players hold what they started with.
CardsConserved ==
  \A c \in Cards :
    Existing(gs, c) = InitialPiles[c] + StartDeck[0][c] + StartDeck[1][c]

\* Between two turns of a player nothing of the last one is left over: no card
\* in play or set aside, no resource, no Merchant charge, no Silver mark.
IdlePlayerIsClean ==
  LET q == gs.players[Opponent(gs.current)]
  IN  /\ q.inPlay = EmptyBag /\ q.setAside = <<>>
      /\ q.actions = 0 /\ q.buys = 0 /\ q.coins = 0
      /\ q.charges = 0 /\ ~q.silver

\* As long as no answer is rejected, the unwinding loop of
\* applyResolveDecision leaves a replay owed only behind a pending decision,
\* so every card a Throne Room doubles is played again in the same turn.
ReplayAwaitsDecision == gs.pendingPlays # <<>> => gs.decision # NoDecision

\* Every replay owed is the current player's, of a card in play, and no copy
\* of a card is owed two replays, however Throne Rooms nest.
OneReplayPerCopy ==
  /\ \A i \in DOMAIN gs.pendingPlays : gs.pendingPlays[i].player = gs.current
  /\ \A c \in Cards :
       Cardinality({i \in DOMAIN gs.pendingPlays : gs.pendingPlays[i].card = c})
         <= gs.players[gs.current].inPlay[c]

\* Cards are set aside only while their owner is being asked what to do with
\* them: a Sentry shows exactly these cards, a Library the last of them.
SetAsideIsShown ==
  \A p \in Players :
    LET aside == gs.players[p].setAside
    IN  aside # <<>> =>
          /\ gs.decision # NoDecision /\ gs.decision.player = p
          /\ \/ gs.decision.card = "sentry" /\ gs.decision.shown = aside
             \/ /\ gs.decision.card = "library"
                /\ gs.decision.shown = <<aside[Len(aside)]>>

\* A prompt tells the client the truth: whatever obeys it is accepted, and
\* something does.  Only a Poacher may ask for more cards than are in hand, and
\* it takes all of them.
PromptsAreHonest ==
  LET d == gs.decision
      obedient == IF AsksForList(d)
                  THEN {[list |-> b] : b \in ObedientLists(gs, d)}
                  ELSE Answers(gs, d)
  IN  (d # NoDecision /\ Obedient) =>
        /\ obedient # {}
        /\ AsksForList(d) /\ Size(Offered(gs, d)) < d.min => d.card = "poacher"
        /\ \A answer \in obedient :
             LET act == [kind |-> "resolve", player |-> d.player, id |-> d.id,
                         answer |-> answer]
             IN  \A h \in Apply(gs, act) : ~h.err

\* Points counted over everything a player owns.
OwnedCards(q) == [c \in Cards |-> Owned(q, c)]
Points(q) == Worth(OwnedCards(q), Size(OwnedCards(q)))

\* The winners are exactly the players nobody beats on all the cards they own,
\* though ComputeScore never looks into SetAside.
WinnersOwnMost ==
  gs.ended =>
    gs.winners = {p \in Players : \A o \in Players :
                    Points(gs.players[o]) <= Points(gs.players[p])}

(***************************************************************************)
(* What a single call may never do.                                        *)
(***************************************************************************)

\* The game ends only between two turns, exactly when the turn that finished
\* left no Province or three piles empty, and nothing changes afterwards.
EndsBetweenTurns ==
  [][/\ gs.ended => gs' = [gs EXCEPT !.err = TRUE]
     /\ gs'.ended # gs.ended => gs'.current # gs.current
     /\ gs'.current # gs.current =>
          (gs'.ended <=>
             \/ gs'.supply["province"] = 0
             \/ \E a, b, c \in Cards :
                  /\ a # b /\ b # c /\ a # c
                  /\ \A d \in {a, b, c} : gs'.supply[d] = 0)]_gs

\* A player who ends a turn keeps every card owned, and holds five of them,
\* or all when there are fewer, wherever the cleanup found them.
DealsFive ==
  [][gs'.current # gs.current =>
       LET before == gs.players[gs.current]
           after == gs'.players[gs.current]
           all == Size(OwnedCards(before))
       IN  /\ \A c \in Cards : Owned(after, c) = Owned(before, c)
           /\ Size(after.hand) = IF all < 5 THEN all ELSE 5]_gs

\* While a player waits with a Moat in hand, nothing the other one plays,
\* directly or through a Vassal or a Throne Room, asks or costs the holder
\* anything: no card owned changes hands, none leaves the hand, none is
\* discarded.
MoatProtects ==
  [][LET v == Opponent(gs.current)
         before == gs.players[v]
         after == gs'.players[v]
         asked(g) == g.decision # NoDecision /\ g.decision.player = v
     IN  ("moat" \in Cards /\ InHand(gs, v, "moat") /\ ~asked(gs)
            /\ gs'.current = gs.current)
         => /\ ~asked(gs')
            /\ \A c \in Cards : /\ Owned(after, c) = Owned(before, c)
                                /\ after.hand[c] >= before.hand[c]
                                /\ after.discard[c] <= before.discard[c]]_gs

(***************************************************************************)
(* What the clients rely on.                                               *)
(***************************************************************************)
Nobody == 2
Asked(g) == IF g.decision = NoDecision THEN Nobody ELSE g.decision.player

\* The game as its clients see it follows the turn protocol: one question at a
\* time, each under a fresh ID and never overwritten by a replay, a Library
\* that goes on drawing or an attack; none in the Buy phase; phases and turns
\* in order; nothing after the end.
Protocol ==
  INSTANCE TurnProtocol WITH
    Player <- Players, Nobody <- Nobody, Other <- Opponent,
    current <- gs.current, starting <- gs.starting, phase <- gs.phase,
    turn <- gs.turn, asked <- Asked(gs), question <- gs.decisionSeq,
    ended <- gs.ended

FollowsProtocol == Protocol!Spec

\* Clients go on calling as long as some call is accepted.
FairSpec == Spec /\ WF_gs(Next)

\* The end of the last turn of the instance is out of bounds.
AtBound ==
  /\ gs.turn = MaxTurn /\ Opponent(gs.current) = gs.starting
  /\ gs.phase = "buy" /\ gs.decision = NoDecision

\* Every question is answered and leads on: no chain of prompts and replays
\* goes on for ever, and whatever is played every turn comes to its end.
TurnsEnd ==
  \A p \in Players :
    (gs.current = p /\ ~gs.ended)
      ~> (gs.current # p \/ gs.ended \/ AtBound)

(***************************************************************************)
(* Claims of the repository's comments and designs that the code does not  *)
(* keep.                                                                   *)
(***************************************************************************)

\* The comment on Apply: an illegal action leaves the state as it was.
RejectionRestores ==
  [][gs'.err /\ gs.decision = NoDecision => gs' = [gs EXCEPT !.err = TRUE]]_gs

\* The design's decision invariant: a ResolveDecision that returns an error
\* leaves the decision pending.
RejectionKeepsDecision == [][gs'.err => gs'.decision = gs.decision]_gs

\* Bandit and the two primitives as designed: of the two cards revealed one is
\* trashed and the rest discarded, and both come from the top region of the
\* deck, so that the cards not seen stay as they are.
BanditTakesWhatItShows ==
  [][(gs.decision.card = "bandit" /\ gs'.decision = NoDecision /\ ~gs'.err)
       => LET v == gs.decision.player
          IN  /\ Size(gs'.players[v].discard) = Size(gs.players[v].discard) + 1
              /\ gs'.players[v].deck = gs.players[v].deck]_gs
=============================================================================
