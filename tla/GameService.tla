---------------------------- MODULE GameService -----------------------------
(***************************************************************************)
(* One game between two bots over the network: the store and its mutex     *)
(* (internal/store), SubmitAction, the fan-out and the stream handlers of  *)
(* the service (internal/service), the state reduction and the drive loop  *)
(* of the bots (internal/bot).                                             *)
(*                                                                         *)
(* Of the game only what decides who acts is kept: the board.  It moves by *)
(* the steps of TurnProtocol, which Engine implements.  `at' counts the    *)
(* accepted actions, so that a board and a copy of it can be compared; no  *)
(* code reads it.                                                          *)
(*                                                                         *)
(* Goroutines interleave between any two steps: a handler's lookup of the  *)
(* game, its unlocked read and send of the snapshot, its registration and  *)
(* its forwarding of events; Apply and the fan-out of a SubmitAction; the  *)
(* receipt of an event by a bot, and its submission.                       *)
(***************************************************************************)
EXTENDS Naturals, Sequences

CONSTANTS
  Capacity,    \* of a subscriber's channel (64 in the code)
  Window,      \* events a connection takes before Send blocks
  MaxActions,  \* bound: no bot submits after this many accepted actions
  MaxStreams   \* bound: streams a bot opens

ASSUME ServiceAssumption ==
  /\ Capacity \in Nat \ {0} /\ Window \in Nat \ {0}
  /\ MaxActions \in Nat /\ MaxStreams \in Nat

VARIABLES
  live,     \* the board of the *GameState the store holds
  prior,    \* the board before the action being applied
  lock,     \* the bot whose SubmitAction holds the store's mutex, or Nobody
  seq,      \* GameService.seq of the game
  streams,  \* for each bot, the StreamGameEvents calls it has made, in order
  bots,     \* for each bot, its Run loop and ClientState
  up        \* FALSE: the server process has died, and the game with it

vars == <<live, prior, lock, seq, streams, bots, up>>

Bots == {0, 1}
Nobody == 2
Opponent(b) == 1 - b
NoQuestion == [player |-> Nobody, id |-> 0]

Question == [player : Bots \cup {Nobody}, id : Nat]
Board ==
  [at : Nat, current : Bots, phase : {"action", "buy", "cleanup"},
   decision : Question, asked : Nat, ended : BOOLEAN]

\* A StreamGameEventsResponse.  `raced': the snapshot was read while an action
\* was being applied.
Event ==
  [seq : Nat, kind : {"snapshot", "ended"}, board : Board, raced : BOOLEAN]

\* One call of StreamGameEvents.  `full': the newest event found chan full.
Stream ==
  [stage : {"opened", "got", "sent", "live", "gone"}, chan : Seq(Event),
   wire : Seq(Event), full : BOOLEAN]

Bot ==
  [status : {"subscribing", "draining", "submitting", "done", "failed"},
   lastSeq : Nat, view : Board,
   pick : {"none", "end", "move", "blind", "resolve"},
   raced : BOOLEAN]

NewBoard(first) ==
  [at |-> 0, current |-> first, phase |-> "action", decision |-> NoQuestion,
   asked |-> 0, ended |-> FALSE]

\* CreateGame has stored the game and both bots are about to subscribe.
Init ==
  \E first \in Bots :
    /\ live = NewBoard(first) /\ prior = live
    /\ lock = Nobody /\ seq = 0 /\ up = TRUE
    /\ streams = [b \in Bots |-> <<>>]
    /\ bots = [b \in Bots |->
                 [status |-> "subscribing", lastSeq |-> 0,
                  view |-> NewBoard(first), pick |-> "none", raced |-> FALSE]]

-----------------------------------------------------------------------------
(***************************************************************************)
(* Apply, as far as the board shows it.                                    *)
(***************************************************************************)
Asking(g, p) ==
  [g EXCEPT !.asked = @ + 1, !.decision = [player |-> p, id |-> g.asked + 1]]

\* The boards an action that is accepted may lead to, those of TurnProtocol.
Moves(g) ==
  {g} \cup (IF g.phase = "action" THEN {Asking(g, p) : p \in Bots} ELSE {})

Answered(g) ==
  LET closed == [g EXCEPT !.decision = NoQuestion]
  IN  {closed} \cup {Asking(closed, p) : p \in Bots}

Ended(g) ==
  IF g.phase = "action" THEN {[g EXCEPT !.phase = "buy"]}
  ELSE {[g EXCEPT !.phase = "action", !.current = Opponent(@), !.ended = e] :
          e \in BOOLEAN}

\* What Apply makes of what b picked, {} when it must reject it: the end of the
\* game, the pending decision and its ID, whose turn it is, the phase.
Accepted(g, b) ==
  LET pick == bots[b].pick
      view == bots[b].view
  IN  IF g.ended THEN {}
      ELSE IF g.decision # NoQuestion
      THEN IF /\ pick = "resolve" /\ g.decision.player = b
              /\ view.decision.id = g.decision.id
           THEN Answered(g) ELSE {}
      ELSE IF pick = "resolve" \/ g.current # b THEN {}
      ELSE IF pick = "end" THEN Ended(g)
      ELSE IF view.phase = g.phase THEN Moves(g) ELSE {}

\* A card named after an old hand or supply may not be there any more, and a pile
\* the bot has not looked at may be empty on any board.  An answer under the right
\* ID stands: a call of the other player that asks for it leaves the hand alone that
\* it is given from.
MayReject(g, b) ==
  \/ Accepted(g, b) = {}
  \/ bots[b].pick = "move" /\ bots[b].view # g
  \/ bots[b].pick = "blind"

-----------------------------------------------------------------------------
(***************************************************************************)
(* SubmitAction and fanOut.                                                *)
(***************************************************************************)
SetBot(b, r) == bots' = [bots EXCEPT ![b] = r]
SetStream(b, k, s) == streams' = [streams EXCEPT ![b][k] = s]

\* WithLock: the mutex is taken and Apply changes the state in place.
SubmitAction(b) ==
  /\ up /\ lock = Nobody /\ bots[b].status = "submitting"
  /\ live.at < MaxActions
  /\ \E next \in Accepted(live, b) :
       live' = [next EXCEPT !.at = @ + 1]
  /\ prior' = live /\ lock' = b
  /\ UNCHANGED <<seq, streams, bots, up>>

\* Apply returns an error: no fan-out, and Run returns the error.
SubmitRejected(b) ==
  /\ up /\ lock = Nobody /\ bots[b].status = "submitting"
  /\ MayReject(live, b)
  /\ SetBot(b, [bots[b] EXCEPT !.status = "failed"])
  /\ UNCHANGED <<live, prior, lock, seq, streams, up>>

SnapshotEvent(n, board, raced) ==
  [seq |-> n, kind |-> "snapshot", board |-> board, raced |-> raced]

\* Mutant of EventFor: the snapshot is taken before Apply.
EventForPrior(n) == SnapshotEvent(n, prior, FALSE)

\* One event per accepted action, whatever happened during it.
EventFor(n) ==
  IF live.ended /\ ~prior.ended
  THEN [SnapshotEvent(n, live, FALSE) EXCEPT !.kind = "ended"]
  ELSE SnapshotEvent(n, live, FALSE)

\* Mutants of Offer: the channel is taken to have room; the subscriber is
\* registered before its snapshot is read.
OfferUnbounded(s, ev) ==
  IF s.stage = "live" THEN [s EXCEPT !.chan = Append(@, ev), !.full = FALSE] ELSE s

OfferEarly(s, ev) ==
  IF s.stage \notin {"got", "sent", "live"} THEN s
  ELSE IF Len(s.chan) < Capacity
  THEN [s EXCEPT !.chan = Append(@, ev), !.full = FALSE]
  ELSE [s EXCEPT !.full = TRUE]

\* The non-blocking send to one subscriber.
Offer(s, ev) ==
  IF s.stage # "live" THEN s
  ELSE IF Len(s.chan) < Capacity
  THEN [s EXCEPT !.chan = Append(@, ev), !.full = FALSE]
  ELSE [s EXCEPT !.full = TRUE]

\* Mutant of FanOut: the others are told, the bot that acted is not.
FanOutToOthers(b) ==
  /\ up /\ lock = b
  /\ seq' = seq + 1 /\ lock' = Nobody /\ prior' = live
  /\ streams' = [streams EXCEPT ![Opponent(b)] =
                   [k \in DOMAIN @ |-> Offer(@[k], EventFor(seq + 1))]]
  /\ SetBot(b, [bots[b] EXCEPT !.status = "draining", !.pick = "none"])
  /\ UNCHANGED <<live, up>>

\* fanOut, the release of both mutexes and the response to the bot.
FanOut(b) ==
  /\ up /\ lock = b
  /\ seq' = seq + 1 /\ lock' = Nobody /\ prior' = live
  /\ streams' = [c \in Bots |-> [k \in DOMAIN streams[c] |->
                   Offer(streams[c][k], EventFor(seq + 1))]]
  /\ SetBot(b, [bots[b] EXCEPT !.status = "draining", !.pick = "none"])
  /\ UNCHANGED <<live, up>>

-----------------------------------------------------------------------------
(***************************************************************************)
(* streamGameEventsInto, for the k-th stream of bot b.                     *)
(***************************************************************************)
Closed(b, k) ==
  k # Len(streams[b]) \/ bots[b].status \notin {"draining", "submitting"}

\* store.Get waits for the mutex and returns the live pointer.
GetGame(b, k) ==
  /\ streams[b][k].stage = "opened" /\ lock = Nobody
  /\ SetStream(b, k, [streams[b][k] EXCEPT !.stage = "got"])
  /\ UNCHANGED <<live, prior, lock, seq, bots, up>>

\* While Apply runs, each field read may be the old or the new one, and a
\* decision may be seen cleared before OnResolve has asked the next.
Torn ==
  [at : {live.at}, asked : {live.asked}, current : {prior.current, live.current},
   phase : {prior.phase, live.phase} \cup
             (IF prior.current # live.current THEN {"cleanup"} ELSE {}),
   decision : {prior.decision, live.decision} \cup
                (IF prior.decision # NoQuestion THEN {NoQuestion} ELSE {}),
   ended : {prior.ended, live.ended}]

\* SnapshotFromState on the live state, without the mutex, and Send.
SendSnapshot(b, k) ==
  LET s == streams[b][k]
      sent(board) ==
        [s EXCEPT !.stage = "sent",
                  !.wire = <<SnapshotEvent(0, board, lock # Nobody)>>]
  IN  /\ s.stage = "got" /\ ~Closed(b, k)
      /\ \E board \in IF lock = Nobody THEN {live} ELSE Torn :
           SetStream(b, k, sent(board))
      /\ UNCHANGED <<live, prior, lock, seq, bots, up>>

\* The subscriber is appended to subs under subsMu.
Register(b, k) ==
  /\ streams[b][k].stage = "sent"
  /\ SetStream(b, k, [streams[b][k] EXCEPT !.stage = "live"])
  /\ UNCHANGED <<live, prior, lock, seq, bots, up>>

\* One round of the loop: an event off the channel onto the connection.
Forward(b, k) ==
  LET s == streams[b][k]
  IN  /\ s.stage = "live" /\ ~Closed(b, k)
      /\ s.chan # <<>> /\ Len(s.wire) < Window
      /\ SetStream(b, k, [s EXCEPT !.chan = Tail(@), !.wire = Append(@, Head(s.chan))])
      /\ UNCHANGED <<live, prior, lock, seq, bots, up>>

\* The client is gone: a failed Send or ctx.Done, and the deferred removal of
\* this subscriber.
Unregister(b, k) ==
  /\ streams[b][k].stage \in {"got", "live"} /\ Closed(b, k)
  /\ SetStream(b, k, [stage |-> "gone", chan |-> <<>>, wire |-> <<>>, full |-> FALSE])
  /\ UNCHANGED <<live, prior, lock, seq, bots, up>>

-----------------------------------------------------------------------------
(***************************************************************************)
(* Run, driveOnce and ClientState.Apply of bot b.                          *)
(***************************************************************************)
Subscribe(b) ==
  /\ up /\ bots[b].status = "subscribing" /\ Len(streams[b]) < MaxStreams
  /\ streams' = [streams EXCEPT ![b] =
                   Append(@, [stage |-> "opened", chan |-> <<>>, wire |-> <<>>,
                              full |-> FALSE])]
  /\ SetBot(b, [bots[b] EXCEPT !.status = "draining"])
  /\ UNCHANGED <<live, prior, lock, seq, up>>

Gap(r, ev) == r.lastSeq # 0 /\ ev.seq # r.lastSeq + 1 /\ ev.seq # 0

Reduce(r, ev) ==
  IF ev.kind = "ended" THEN [r EXCEPT !.lastSeq = ev.seq]
  ELSE [r EXCEPT !.lastSeq = ev.seq, !.view = ev.board, !.raced = @ \/ ev.raced]

\* What driveOnce lets the strategy pick on a view; what it picks in its own
\* turn is up to the strategy.  A "move" names a card the snapshot shows in hand or
\* in the supply; a "blind" one is a purchase without a look at the pile.
Picks(b, view) ==
  IF view.decision # NoQuestion
  THEN IF view.decision.player = b THEN {"resolve"} ELSE {}
  ELSE IF view.current # b THEN {}
  ELSE IF view.phase = "action" THEN {"end", "move"}
  ELSE IF view.phase = "buy" THEN {"end", "move", "blind"} ELSE {"end"}

\* Mutant of Drive: the strategy is first asked after a numbered event.
DriveLater(b, r, ev) ==
  LET s == Reduce(r, ev)
  IN  IF ev.kind = "ended" \/ s.view.ended THEN {[s EXCEPT !.status = "done"]}
      ELSE IF ev.seq = 0 \/ Picks(b, s.view) = {} THEN {s}
      ELSE {[s EXCEPT !.status = "submitting", !.pick = p] : p \in Picks(b, s.view)}

\* One event: a gap closes the stream, the end of the game ends Run, and a view
\* on which the bot has to act leads to one submission.
Drive(b, r, ev) ==
  LET s == Reduce(r, ev)
  IN  IF Gap(r, ev)
      THEN {[r EXCEPT !.status = "subscribing", !.lastSeq = 0]}
      ELSE IF ev.kind = "ended" \/ s.view.ended
      THEN {[s EXCEPT !.status = "done"]}
      ELSE IF Picks(b, s.view) = {} THEN {s}
      ELSE {[s EXCEPT !.status = "submitting", !.pick = p] : p \in Picks(b, s.view)}

Receive(b) ==
  LET k == Len(streams[b])
      s == streams[b][k]
      open(r) == r.status \in {"draining", "submitting"}
  IN  /\ bots[b].status = "draining" /\ s.wire # <<>>
      /\ \E r \in Drive(b, bots[b], Head(s.wire)) :
           /\ SetBot(b, r)
           /\ SetStream(b, k, [s EXCEPT !.wire = IF open(r) THEN Tail(@) ELSE <<>>])
      /\ UNCHANGED <<live, prior, lock, seq, up>>

-----------------------------------------------------------------------------
(***************************************************************************)
(* The map of the supply is iterated and written at once: the Go runtime   *)
(* may stop the process, and every game with it.                           *)
(***************************************************************************)
Crash(b, k) ==
  /\ up /\ lock # Nobody
  /\ streams[b][k].stage = "got" /\ ~Closed(b, k)
  /\ up' = FALSE
  /\ UNCHANGED <<live, prior, lock, seq, streams, bots>>

ConnectionLost(b) ==
  /\ ~up /\ bots[b].status \notin {"done", "failed"}
  /\ SetBot(b, [bots[b] EXCEPT !.status = "failed"])
  /\ UNCHANGED <<live, prior, lock, seq, streams, up>>

Submitting(b) == SubmitAction(b) \/ SubmitRejected(b) \/ FanOut(b)
Handling(b, k) ==
  /\ up
  /\ \/ GetGame(b, k) \/ SendSnapshot(b, k) \/ Register(b, k)
     \/ Forward(b, k) \/ Unregister(b, k)
Running(b) == Subscribe(b) \/ (up /\ Receive(b)) \/ ConnectionLost(b)

Next ==
  \E b \in Bots :
    \/ Submitting(b) \/ Running(b)
    \/ \E k \in DOMAIN streams[b] : Handling(b, k) \/ Crash(b, k)

Spec == Init /\ [][Next]_vars

\* Every goroutine goes on as long as it can; a waiter of the mutex gets it.
\* Nothing makes the process crash.
Fairness ==
  \A b \in Bots :
    /\ WF_vars(Submitting(b)) /\ WF_vars(Running(b))
    /\ \A k \in 1..MaxStreams : WF_vars(k \in DOMAIN streams[b] /\ Handling(b, k))

FairSpec == Spec /\ Fairness

-----------------------------------------------------------------------------
(***************************************************************************)
(* Safety.                                                                 *)
(***************************************************************************)

\* Every channel keeps within its capacity and every connection within its
\* window, and all the rest keeps its type.
TypeOK ==
  /\ live \in Board /\ prior \in Board
  /\ lock \in Bots \cup {Nobody} /\ seq \in Nat /\ up \in BOOLEAN
  /\ bots \in [Bots -> Bot] /\ streams \in [Bots -> Seq(Stream)]
  /\ \A b \in Bots : \A k \in DOMAIN streams[b] :
       /\ Len(streams[b][k].chan) <= Capacity
       /\ Len(streams[b][k].wire) <= Window

\* As long as the server lives, a bot that has never seen a snapshot read while an
\* action was being applied acts once on every board on which it has to act, and on
\* no older one.  What it submits is rejected in one case only, a purchase without
\* a look at the pile, and the game then stands at the board it acted on.
RejectedOnTheBoard ==
  \A b \in Bots :
    up /\ bots[b].status = "failed" /\ ~bots[b].raced =>
      bots[b].pick = "blind" /\ bots[b].view = live

\* Bot b waits on a stream with nothing on its way, and its board is not the
\* game's.
Behind(b) ==
  /\ up /\ lock = Nobody /\ bots[b].status = "draining"
  /\ LET s == streams[b][Len(streams[b])]
     IN  s.stage = "live" /\ s.chan = <<>> /\ s.wire = <<>>
  /\ bots[b].view # live

\* Once a numbered event has come through on a stream, its reader falls behind
\* for good in one way only: the newest event found the channel full.  No gap
\* in the numbers can ever tell it.
SilentOnlyAtFull ==
  \A b \in Bots :
    Behind(b) /\ bots[b].lastSeq # 0 => streams[b][Len(streams[b])].full

\* Across races, drops and resubscriptions, what a bot looks at is a board the
\* game has been at (or, read during an action, is moving to), and never an
\* older one than it has already seen.
Feed ==
  INSTANCE BoardFeed WITH
    Readers <- Bots, version <- live.at, seen <- [b \in Bots |-> bots[b].view.at]

MonotoneFeed == Feed!Spec

(***************************************************************************)
(* Liveness.                                                               *)
(***************************************************************************)

\* Both bots have seen the end, or the instance has reached a bound.
Finished ==
  \/ \A b \in Bots : bots[b].status = "done"
  \/ live.at = MaxActions
  \/ \E b \in Bots : bots[b].status = "subscribing" /\ Len(streams[b]) = MaxStreams

Healthy == up /\ \A b \in Bots : bots[b].status # "failed"

\* A game comes to a halt in three ways only: the server dies, a bot gives up
\* on a rejection, or one is left behind.
StallsOnlyBehind ==
  [](Healthy /\ \A b \in Bots : ~Behind(b)) => <>Finished

\* Run's promise to drive a strategy "until the game ends", even granted that
\* the server lives, no submission is rejected, no snapshot is read during an
\* action and no channel is ever full.
DrivesUntilGameEnds ==
  [](/\ Healthy /\ \A b \in Bots : ~bots[b].raced
     /\ \A b \in Bots : \A k \in DOMAIN streams[b] : ~streams[b][k].full)
    => <>Finished
=============================================================================
