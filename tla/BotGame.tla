------------------------------ MODULE BotGame -------------------------------
(***************************************************************************)
(* A game of the engine played by two bots of internal/bot.  Each step is  *)
(* one SubmitAction: the bot that has to act decides on the snapshot of    *)
(* the game as it is, Apply runs, and both bots reduce the snapshot that   *)
(* is fanned out.                                                          *)
(*                                                                         *)
(* GameService has the rest: there a bot that gets an event acts on the    *)
(* board as it is, but for a snapshot read during an action, and one that  *)
(* gets none waits.                                                        *)
(***************************************************************************)
EXTENDS Engine, Strategies

CONSTANT Pairings  \* the strategies the two players may have

ASSUME PairingsAssumption == Pairings \subseteq [Players -> Names]

\* What the strategies build on: NewGame deals Coppers and Estates, so of the
\* actions a deck of an instance may hold at most those of ThroneRoomBM, which
\* plays whatever action it draws; and no game starts where it should be over.
ASSUME DealAssumption ==
  /\ \A p \in Players, c \in Cards :
       HasType(c, "action") /\ c \notin {"throne_room", "witch"} => StartDeck[p][c] = 0
  /\ InitialPiles["province"] > 0
  /\ Cardinality({c \in Cards : InitialPiles[c] = 0}) < 3

VARIABLE bots  \* for each player, its bot

botVars == <<gs, bots>>

\* The snapshot of game g reaches the bots r; of its end they get an event
\* without one.
Told(r, g) ==
  IF g.ended THEN r ELSE [p \in Players |-> Reduce(r[p], p, Snapshot(g, p))]

BotInit ==
  /\ Init
  /\ \E names \in Pairings :
       bots = Told([p \in Players |-> NewBot(names[p])], gs)

\* What bot p has to submit on the game as it is.
Pending(p) ==
  IF bots[p].stopped THEN {} ELSE Submissions(bots[p], p, Snapshot(gs, p))

\* driveOnce: what the strategy decides is submitted; an error ends Run.
BotActs(p) ==
  \E s \in Pending(p) : \E h \in Apply(gs, s.act) :
    /\ h.turn <= MaxTurn
    /\ gs' = h
    /\ bots' = IF h.err
               THEN [bots EXCEPT ![p] = [s.bot EXCEPT !.stopped = TRUE]]
               ELSE Told([bots EXCEPT ![p] = s.bot], h)

BotNext == \E p \in Players : BotActs(p)

BotSpec == BotInit /\ [][BotNext]_botVars

\* Run goes on as long as its bot has something to submit: weak fairness of
\* BotNext, with the condition under which it is enabled written out.
Waited == ~AtBound /\ \E p \in Players : Pending(p) # {}

FairBotSpec == BotSpec /\ ([]<>~Waited \/ []<><<TRUE>>_botVars)

-----------------------------------------------------------------------------
(***************************************************************************)
(* Properties.                                                             *)
(***************************************************************************)

\* Whatever a bot submits is a move of the rules engine's own game between
\* clients that obey their prompts: safeRefusal and every Resolve answer
\* within the limits of the prompt, at every step of every card.
PlaysByTheRules == Spec

\* A bot is turned away in one case only: BigMoney and SmithyBM name a pile
\* they do not know to be empty.
RefusedOnlyAtEmptyPile ==
  \A p \in Players : bots[p].stopped =>
    /\ bots[p].name \in {"bigmoney", "smithy_bm"}
    /\ gs.phase = "buy" /\ gs.decision = NoDecision
    /\ \E c \in {"province", "gold", "silver"} :
         gs.supply[c] = 0 /\ gs.players[p].coins >= Cost[c]

\* A bot's notes agree with the game though it sees neither its deck nor its
\* discard pile: the turns it counts are those it has had, the cards it noted
\* as bought are those it came to own, and ChapelBM has lost exactly the
\* Coppers it noted as trashed, four at most.  Out of Silvers, RemodelBM may
\* gain a second Remodel, the dearest card in reach, which it does not note.
NotedCard(name) ==
  CASE name = "throneroom_bm" -> "witch" [] name = "gardens_bm" -> "gardens"
    [] name \in {"bigmoney", "smithy_bm"} -> NoCard [] OTHER -> Signature[name]

NotesAgree ==
  \A p \in Players : ~bots[p].stopped =>
    LET b == bots[p]
        q == gs.players[p]
        card == NotedCard(b.name)
    IN  /\ ~gs.ended =>
             b.turns = IF p \in {gs.starting, gs.current} THEN gs.turn ELSE gs.turn - 1
        /\ card \in Cards /\ (b.name = "remodel_bm" => gs.supply["silver"] > 0)
             => Owned(q, card) = StartDeck[p][card] + b.bought
        /\ b.name = "chapel_bm" =>
             /\ Owned(q, "copper") = StartDeck[p]["copper"] - b.trashed
             /\ b.trashed <= 4

\* While a game of bots goes on one of them has something to submit: who is asked
\* has an answer, also in the other's turn, and who has the turn has a move.
NeverBothWait ==
  ~gs.ended /\ (\A p \in Players : ~bots[p].stopped)
    => \E p \in Players : Pending(p) # {}

\* Neither the plays, the purchases nor the prompts of a turn go on for ever,
\* and the bots never both wait: a game of bots goes on until it ends, or to
\* the last turn of the instance, unless one of them is turned away.
BotsPlayOn == <>(gs.ended \/ gs.err \/ AtBound)
=============================================================================
