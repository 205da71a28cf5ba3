------------------------- MODULE GameServiceProofs --------------------------
(***************************************************************************)
(* Proofs about GameService, for every capacity of the channels and the    *)
(* connections and any number of actions and streams: its types, and that  *)
(* it implements BoardFeed.                                                *)
(*                                                                         *)
(* The feed is monotone because every hop keeps the order: a stream's      *)
(* events are on the wire, then in the channel, then the game itself, and  *)
(* the boards never grow older along the way.                              *)
(***************************************************************************)
EXTENDS GameService, TLAPS

Rising(q) == \A i, j \in DOMAIN q : i <= j => q[i].board.at <= q[j].board.at
UpTo(q, n) == \A i \in DOMAIN q : q[i].board.at <= n
From(q, v) == \A i \in DOMAIN q : v <= q[i].board.at
Before(p, q) ==
  \A i \in DOMAIN p, j \in DOMAIN q : p[i].board.at <= q[j].board.at

\* A stream of a game at version n: its events in order, none sent before the
\* snapshot is, none in the channel before it is registered.
Flowing(s, n) ==
  /\ Rising(s.wire) /\ Rising(s.chan) /\ Before(s.wire, s.chan)
  /\ UpTo(s.wire, n) /\ UpTo(s.chan, n)
  /\ s.stage \in {"opened", "got"} => s.wire = <<>>
  /\ s.stage \in {"opened", "got", "sent"} => s.chan = <<>>

Fits(s) == s \in Stream /\ Len(s.chan) <= Capacity /\ Len(s.wire) <= Window

\* All that is still to come on a stream is at least as new as version v.
Ahead(s, v) == From(s.wire, v) /\ From(s.chan, v)

FeedInv ==
  \A b \in Bots :
    /\ bots[b].view.at <= live.at
    /\ \A k \in DOMAIN streams[b] : Flowing(streams[b][k], live.at)
    /\ streams[b] # <<>> => Ahead(streams[b][Len(streams[b])], bots[b].view.at)
    /\ bots[b].status \in {"draining", "submitting"} => streams[b] # <<>>

\* The bot whose action is being applied waits for its answer.
HolderWaits == up /\ lock # Nobody => bots[lock].status = "submitting"

IInv == TypeOK /\ FeedInv /\ HolderWaits

-----------------------------------------------------------------------------
(* Boards and events.                                                      *)

LEMMA AskingType ==
  ASSUME NEW g \in Board, NEW p \in Bots
  PROVE  Asking(g, p) \in Board /\ Asking(g, p).at = g.at
<1> DEFINE h == [g EXCEPT !.asked = @ + 1]
           d == [player |-> p, id |-> g.asked + 1]
<1>1. h \in Board /\ h.at = g.at /\ d \in Question
  BY DEF Board, Question
<1>2. Asking(g, p) = [h EXCEPT !.decision = d]
  BY DEF Asking
<1> HIDE DEF h, d
<1> QED
  BY <1>1, <1>2 DEF Board

\* Whatever an accepted action leads to, it is a board of the same version:
\* SubmitAction counts it.
LEMMA AcceptedType ==
  ASSUME TypeOK, NEW b \in Bots, NEW next \in Accepted(live, b)
  PROVE  next \in Board /\ next.at = live.at
<1>1. live \in Board
  BY DEF TypeOK
<1>2. ASSUME next \in Answered(live) PROVE next \in Board /\ next.at = live.at
  <2> DEFINE closed == [live EXCEPT !.decision = NoQuestion]
  <2>1. closed \in Board /\ closed.at = live.at
    BY <1>1 DEF Board, Question, NoQuestion
  <2>2. next = closed \/ \E p \in Bots : next = Asking(closed, p)
    BY <1>2 DEF Answered
  <2> HIDE DEF closed
  <2> QED
    BY <2>1, <2>2, AskingType
<1>3. ASSUME next \in Ended(live) PROVE next \in Board /\ next.at = live.at
  <2>1. Opponent(live.current) \in Bots
    BY <1>1 DEF Board, Opponent, Bots
  <2>2. CASE live.phase = "action"
    <3>1. next = [live EXCEPT !.phase = "buy"]
      BY <1>3, <2>2 DEF Ended
    <3> QED
      BY <1>1, <3>1 DEF Board
  <2>3. CASE live.phase # "action"
    <3>1. PICK e \in BOOLEAN :
            next = [live EXCEPT !.phase = "action", !.current = Opponent(@), !.ended = e]
      BY <1>3, <2>3 DEF Ended
    <3> QED
      BY <1>1, <2>1, <3>1 DEF Board
  <2> QED
    BY <2>2, <2>3
<1>4. ASSUME next \in Moves(live) PROVE next \in Board /\ next.at = live.at
  <2>1. next = live \/ \E p \in Bots : next = Asking(live, p)
    BY <1>4 DEF Moves
  <2> QED
    BY <1>1, <2>1, AskingType
<1>5. next \in Answered(live) \cup Ended(live) \cup Moves(live)
  BY DEF Accepted
<1> QED
  BY <1>2, <1>3, <1>4, <1>5

LEMMA TornType ==
  ASSUME TypeOK, NEW board \in Torn
  PROVE  board \in Board /\ board.at = live.at
<1>1. live \in Board /\ prior \in Board /\ NoQuestion \in Question
  BY DEF TypeOK, NoQuestion, Question
<1>2. /\ {prior.current, live.current} \subseteq Bots
      /\ {prior.phase, live.phase} \subseteq {"action", "buy", "cleanup"}
      /\ {prior.decision, live.decision} \subseteq Question
      /\ {prior.ended, live.ended} \subseteq BOOLEAN
  BY <1>1 DEF Board
<1> QED
  BY <1>1, <1>2 DEF Torn, Board

LEMMA SnapshotType ==
  ASSUME NEW n \in Nat, NEW board \in Board, NEW raced \in BOOLEAN
  PROVE  /\ SnapshotEvent(n, board, raced) \in Event
         /\ SnapshotEvent(n, board, raced).board = board
BY DEF SnapshotEvent, Event

LEMMA EventForType ==
  ASSUME TypeOK, NEW n \in Nat
  PROVE  EventFor(n) \in Event /\ EventFor(n).board = live
BY DEF TypeOK, EventFor, SnapshotEvent, Event

LEMMA EventVersion ==
  ASSUME NEW q \in Seq(Event), NEW i \in DOMAIN q
  PROVE  q[i] \in Event /\ q[i].board \in Board /\ q[i].board.at \in Nat
<1>1. q[i] \in Event
  OBVIOUS
<1> QED
  BY <1>1 DEF Event, Board

-----------------------------------------------------------------------------
(* Order along a stream.                                                   *)

LEMMA EmptyOrder ==
  ASSUME NEW q, NEW n
  PROVE  /\ Rising(<<>>) /\ UpTo(<<>>, n) /\ From(<<>>, n)
         /\ Before(<<>>, q) /\ Before(q, <<>>)
BY DEF Rising, UpTo, From, Before

\* A newest event at the end.
LEMMA AppendOrder ==
  ASSUME NEW q \in Seq(Event), NEW e \in Event,
         Rising(q), UpTo(q, e.board.at)
  PROVE  /\ Append(q, e) \in Seq(Event) /\ Len(Append(q, e)) = Len(q) + 1
         /\ Rising(Append(q, e))
         /\ \A n \in Nat : e.board.at <= n => UpTo(Append(q, e), n)
         /\ \A v \in Nat : From(q, v) /\ v <= e.board.at => From(Append(q, e), v)
         /\ \A p \in Seq(Event) :
              Before(p, q) /\ UpTo(p, e.board.at) => Before(p, Append(q, e))
         /\ \A p \in Seq(Event) :
              Before(q, p) /\ From(p, e.board.at) => Before(Append(q, e), p)
<1> DEFINE r == Append(q, e)
<1>1. /\ r \in Seq(Event) /\ Len(r) = Len(q) + 1
      /\ DOMAIN r = 1..(Len(q) + 1) /\ DOMAIN q = 1..Len(q) /\ Len(q) \in Nat
  OBVIOUS
<1>2. \A i \in DOMAIN r : \/ i \in DOMAIN q /\ r[i] = q[i]
                          \/ i = Len(q) + 1 /\ r[i] = e
  BY <1>1
<1>3. e.board.at \in Nat
  BY DEF Event, Board
<1>4. \A i \in DOMAIN q : q[i].board.at \in Nat
  BY EventVersion
<1> HIDE DEF r
<1>5. Rising(r)
  <2> SUFFICES ASSUME NEW i \in DOMAIN r, NEW j \in DOMAIN r, i <= j
               PROVE  r[i].board.at <= r[j].board.at
    BY DEF Rising
  <2>1. CASE j \in DOMAIN q
    <3>1. i \in DOMAIN q
      BY <1>1, <2>1
    <3>2. i # Len(q) + 1 /\ j # Len(q) + 1
      BY <1>1, <2>1, <3>1
    <3> QED
      BY <1>2, <2>1, <3>1, <3>2 DEF Rising
  <2>2. CASE j = Len(q) + 1
    <3>1. r[j] = e
      BY <1>1, <1>2, <2>2
    <3> QED
      BY <1>2, <1>3, <3>1 DEF UpTo
  <2> QED
    BY <1>2, <2>1, <2>2
<1>6. ASSUME NEW n \in Nat, e.board.at <= n PROVE UpTo(r, n)
  BY <1>2, <1>3, <1>4, <1>6 DEF UpTo
<1>7. ASSUME NEW v \in Nat, From(q, v), v <= e.board.at PROVE From(r, v)
  BY <1>2, <1>7 DEF From
<1>8. ASSUME NEW p \in Seq(Event), Before(p, q), UpTo(p, e.board.at)
      PROVE  Before(p, r)
  BY <1>2, <1>8 DEF Before, UpTo
<1>9. ASSUME NEW p \in Seq(Event), Before(q, p), From(p, e.board.at)
      PROVE  Before(r, p)
  BY <1>2, <1>9 DEF Before, From
<1> QED
  BY <1>1, <1>5, <1>6, <1>7, <1>8, <1>9 DEF r

\* The oldest event taken off.
LEMMA TailOrder ==
  ASSUME NEW q \in Seq(Event), q # <<>>, Rising(q)
  PROVE  /\ Tail(q) \in Seq(Event) /\ Len(Tail(q)) = Len(q) - 1
         /\ Head(q) \in Event /\ Head(q) = q[1] /\ 1 \in DOMAIN q
         /\ Rising(Tail(q)) /\ From(Tail(q), Head(q).board.at)
         /\ \A n : UpTo(q, n) => UpTo(Tail(q), n)
         /\ \A v : From(q, v) => From(Tail(q), v)
         /\ \A p : Before(p, q) => Before(p, Tail(q))
         /\ \A p : Before(q, p) => Before(Tail(q), p)
<1> DEFINE r == Tail(q)
<1>1. /\ r \in Seq(Event) /\ Len(r) = Len(q) - 1 /\ Len(q) \in Nat
      /\ DOMAIN r = 1..(Len(q) - 1) /\ DOMAIN q = 1..Len(q) /\ Len(q) >= 1
      /\ Head(q) = q[1] /\ Head(q) \in Event
  OBVIOUS
<1>2. \A i \in DOMAIN r : i \in Nat /\ i + 1 \in DOMAIN q /\ r[i] = q[i + 1]
  BY <1>1
<1> HIDE DEF r
<1>3. Rising(r)
  BY <1>1, <1>2 DEF Rising
<1>4. From(r, Head(q).board.at)
  BY <1>1, <1>2 DEF Rising, From
<1>5. \A n : UpTo(q, n) => UpTo(r, n)
  BY <1>2 DEF UpTo
<1>6. \A v : From(q, v) => From(r, v)
  BY <1>2 DEF From
<1>7. \A p : Before(p, q) => Before(p, r)
  BY <1>2 DEF Before
<1>8. \A p : Before(q, p) => Before(r, p)
  BY <1>2 DEF Before
<1> QED
  BY <1>1, <1>3, <1>4, <1>5, <1>6, <1>7, <1>8 DEF r

-----------------------------------------------------------------------------
(* What one step does to one stream.                                       *)

LEMMA Grows ==
  ASSUME NEW s, Fits(s), NEW n \in Nat, NEW m \in Nat, n <= m, Flowing(s, n)
  PROVE  Flowing(s, m)
<1>1. s.wire \in Seq(Event) /\ s.chan \in Seq(Event)
  BY DEF Fits, Stream
<1>2. \A q \in Seq(Event) : UpTo(q, n) => UpTo(q, m)
  BY EventVersion DEF UpTo
<1> QED
  BY <1>1, <1>2 DEF Flowing

\* The newest event is offered.
LEMMA OfferFlows ==
  ASSUME NEW s, Fits(s), NEW ev \in Event, Flowing(s, ev.board.at)
  PROVE  /\ Fits(Offer(s, ev)) /\ Flowing(Offer(s, ev), ev.board.at)
         /\ \A v \in Nat :
              Ahead(s, v) /\ v <= ev.board.at => Ahead(Offer(s, ev), v)
<1>1. /\ s \in Stream /\ s.wire \in Seq(Event) /\ s.chan \in Seq(Event)
      /\ Len(s.chan) <= Capacity /\ Len(s.wire) <= Window
  BY DEF Fits, Stream
<1>2. ev.board.at \in Nat
  BY DEF Event, Board
<1>3. CASE s.stage # "live"
  BY <1>3 DEF Offer
<1>4. CASE s.stage = "live" /\ Len(s.chan) < Capacity
  <2> DEFINE chan == Append(s.chan, ev)
             t == [s EXCEPT !.chan = chan, !.full = FALSE]
  <2>1. Offer(s, ev) = t
    BY <1>4 DEF Offer
  <2>2. /\ chan \in Seq(Event) /\ Len(chan) = Len(s.chan) + 1
        /\ Rising(chan) /\ UpTo(chan, ev.board.at) /\ Before(s.wire, chan)
        /\ \A v \in Nat : From(s.chan, v) /\ v <= ev.board.at => From(chan, v)
    BY <1>1, <1>2, AppendOrder DEF Flowing
  <2> HIDE DEF chan
  <2>3. /\ t \in Stream /\ t.wire = s.wire /\ t.chan = chan /\ t.stage = "live"
    BY <1>1, <1>4, <2>2 DEF Stream
  <2>4. Len(chan) <= Capacity
    BY <1>1, <1>4, <2>2, ServiceAssumption
  <2> HIDE DEF t
  <2>5. Fits(t)
    BY <1>1, <2>3, <2>4 DEF Fits
  <2>6. Flowing(t, ev.board.at)
    BY <2>2, <2>3 DEF Flowing
  <2>7. \A v \in Nat : Ahead(s, v) /\ v <= ev.board.at => Ahead(t, v)
    BY <2>2, <2>3 DEF Ahead
  <2> QED
    BY <2>1, <2>5, <2>6, <2>7
<1>5. CASE s.stage = "live" /\ ~(Len(s.chan) < Capacity)
  <2> DEFINE t == [s EXCEPT !.full = TRUE]
  <2>1. Offer(s, ev) = t
    BY <1>5 DEF Offer
  <2>2. t \in Stream /\ t.wire = s.wire /\ t.chan = s.chan /\ t.stage = s.stage
    BY <1>1 DEF Stream
  <2> HIDE DEF t
  <2> QED
    BY <1>1, <2>1, <2>2 DEF Fits, Flowing, Ahead
<1> QED
  BY <1>3, <1>4, <1>5

\* One stream and its reader change, the game does not.
LEMMA StreamStep ==
  ASSUME IInv, NEW b \in Bots, NEW k \in DOMAIN streams[b], NEW s, NEW r \in Bot,
         SetStream(b, k, s), SetBot(b, r), UNCHANGED <<live, prior, lock, seq>>,
         up' \in BOOLEAN,
         Fits(s), Flowing(s, live.at), r.view.at <= live.at,
         IF k = Len(streams[b]) THEN Ahead(s, r.view.at) ELSE r.view = bots[b].view,
         up' /\ lock = b => r.status = "submitting", up' => up
  PROVE  IInv'
<1>1. /\ streams \in [Bots -> Seq(Stream)] /\ bots \in [Bots -> Bot]
      /\ streams[b] \in Seq(Stream) /\ s \in Stream
  BY DEF IInv, TypeOK, Fits
<1>2. streams' = [streams EXCEPT ![b] = [streams[b] EXCEPT ![k] = s]]
  BY <1>1 DEF SetStream
<1>3. /\ [streams[b] EXCEPT ![k] = s] \in Seq(Stream)
      /\ Len([streams[b] EXCEPT ![k] = s]) = Len(streams[b])
      /\ DOMAIN [streams[b] EXCEPT ![k] = s] = DOMAIN streams[b]
  BY <1>1
<1>4. /\ streams' \in [Bots -> Seq(Stream)] /\ bots' \in [Bots -> Bot]
      /\ bots'[b] = r /\ \A c \in Bots : c # b => bots'[c] = bots[c]
  BY <1>1, <1>2, <1>3 DEF SetBot
<1>5. \A c \in Bots : /\ Len(streams'[c]) = Len(streams[c])
                      /\ DOMAIN streams'[c] = DOMAIN streams[c]
                      /\ (streams'[c] = <<>>) <=> (streams[c] = <<>>)
  BY <1>1, <1>2, <1>3, <1>4
<1>6. \A c \in Bots : \A j \in DOMAIN streams[c] :
        streams'[c][j] = IF c = b /\ j = k THEN s ELSE streams[c][j]
  BY <1>1, <1>2
<1>7. \A c \in Bots : \A j \in DOMAIN streams[c] :
        Fits(streams[c][j]) /\ Flowing(streams[c][j], live.at)
  BY DEF IInv, TypeOK, FeedInv, Fits
<1>8. \A c \in Bots : \A j \in DOMAIN streams'[c] :
        Fits(streams'[c][j]) /\ Flowing(streams'[c][j], live.at)
  BY <1>5, <1>6, <1>7
<1>9. TypeOK'
  BY <1>4, <1>8 DEF IInv, TypeOK, Fits
<1>10. ASSUME NEW c \in Bots
       PROVE  /\ bots'[c].view.at <= live'.at
              /\ streams'[c] # <<>> =>
                   Ahead(streams'[c][Len(streams'[c])], bots'[c].view.at)
              /\ bots'[c].status \in {"draining", "submitting"} => streams'[c] # <<>>
  <2>1. CASE c # b
    BY <1>1, <1>4, <1>5, <1>6, <1>10, <2>1 DEF IInv, FeedInv
  <2>2. CASE c = b
    <3>1. streams[b] # <<>> /\ Len(streams[b]) \in DOMAIN streams[b]
      BY <1>1
    <3>2. CASE k = Len(streams[b])
      BY <1>4, <1>5, <1>6, <2>2, <3>1, <3>2
    <3>3. CASE k # Len(streams[b])
      BY ZenonT(40), <1>4, <1>5, <1>6, <2>2, <3>1, <3>3 DEF IInv, FeedInv
    <3> QED
      BY <3>2, <3>3
  <2> QED
    BY <2>1, <2>2
<1>11. FeedInv'
  BY <1>8, <1>10 DEF FeedInv
<1>12. HolderWaits'
  BY <1>4 DEF IInv, HolderWaits, TypeOK
<1> QED
  BY <1>9, <1>11, <1>12 DEF IInv

\* A handler's step: the reader is not involved.
LEMMA HandlerStep ==
  ASSUME IInv, NEW b \in Bots, NEW k \in DOMAIN streams[b], NEW s,
         SetStream(b, k, s), UNCHANGED <<live, prior, lock, seq, bots, up>>,
         Fits(s), Flowing(s, live.at),
         \A v \in Nat : Ahead(streams[b][k], v) /\ v <= live.at => Ahead(s, v)
  PROVE  IInv'
<1>1. /\ bots \in [Bots -> Bot] /\ bots[b] \in Bot /\ bots[b].view.at \in Nat
      /\ up \in BOOLEAN /\ streams[b] \in Seq(Stream) /\ streams[b] # <<>>
  BY DEF IInv, TypeOK, Bot, Board
<1>2. SetBot(b, bots[b])
  BY <1>1 DEF SetBot
<1>3. bots[b].view.at <= live.at
  BY DEF IInv, FeedInv
<1>4. k = Len(streams[b]) => Ahead(s, bots[b].view.at)
  BY <1>1, <1>3 DEF IInv, FeedInv
<1>5. up' /\ lock = b => bots[b].status = "submitting"
  BY DEF IInv, HolderWaits, Bots, Nobody
<1> QED
  BY <1>1, <1>2, <1>3, <1>4, <1>5, StreamStep

-----------------------------------------------------------------------------
(* The steps of a handler.                                                 *)

LEMMA StreamFacts ==
  ASSUME IInv, NEW b \in Bots, NEW k \in DOMAIN streams[b]
  PROVE  /\ Fits(streams[b][k]) /\ Flowing(streams[b][k], live.at)
         /\ streams[b][k] \in Stream
         /\ streams[b][k].wire \in Seq(Event) /\ streams[b][k].chan \in Seq(Event)
         /\ live \in Board /\ live.at \in Nat
<1>1. streams[b][k] \in Stream
  BY DEF IInv, TypeOK
<1> QED
  BY <1>1 DEF IInv, TypeOK, FeedInv, Fits, Stream, Board

LEMMA GetGameKeeps ==
  ASSUME IInv, NEW b \in Bots, NEW k \in DOMAIN streams[b], GetGame(b, k)
  PROVE  IInv'
<1> DEFINE s == streams[b][k]
           t == [s EXCEPT !.stage = "got"]
<1>1. /\ Fits(s) /\ Flowing(s, live.at) /\ s \in Stream /\ s.stage = "opened"
      /\ SetStream(b, k, t) /\ UNCHANGED <<live, prior, lock, seq, bots, up>>
  BY StreamFacts DEF GetGame
<1>2. t \in Stream /\ t.stage = "got" /\ t.wire = s.wire /\ t.chan = s.chan
  BY <1>1 DEF Stream
<1> HIDE DEF s, t
<1>3. Fits(t) /\ Flowing(t, live.at) /\ \A v : Ahead(s, v) => Ahead(t, v)
  BY <1>1, <1>2 DEF Fits, Flowing, Ahead
<1> QED
  BY <1>1, <1>3, HandlerStep DEF s

LEMMA RegisterKeeps ==
  ASSUME IInv, NEW b \in Bots, NEW k \in DOMAIN streams[b], Register(b, k)
  PROVE  IInv'
<1> DEFINE s == streams[b][k]
           t == [s EXCEPT !.stage = "live"]
<1>1. /\ Fits(s) /\ Flowing(s, live.at) /\ s \in Stream
      /\ SetStream(b, k, t) /\ UNCHANGED <<live, prior, lock, seq, bots, up>>
  BY StreamFacts DEF Register
<1>2. t \in Stream /\ t.stage = "live" /\ t.wire = s.wire /\ t.chan = s.chan
  BY <1>1 DEF Stream
<1> HIDE DEF s, t
<1>3. Fits(t) /\ Flowing(t, live.at) /\ \A v : Ahead(s, v) => Ahead(t, v)
  BY <1>1, <1>2 DEF Fits, Flowing, Ahead
<1> QED
  BY <1>1, <1>3, HandlerStep DEF s

\* A torn board carries the version the game is moving to.
LEMMA SendSnapshotKeeps ==
  ASSUME IInv, NEW b \in Bots, NEW k \in DOMAIN streams[b], SendSnapshot(b, k)
  PROVE  IInv'
<1> DEFINE s == streams[b][k]
<1>1. /\ Fits(s) /\ Flowing(s, live.at) /\ s \in Stream /\ s.stage = "got"
      /\ live \in Board /\ live.at \in Nat
      /\ UNCHANGED <<live, prior, lock, seq, bots, up>>
  BY StreamFacts DEF SendSnapshot
<1>2. PICK board \in IF lock = Nobody THEN {live} ELSE Torn :
        SetStream(b, k,
          [s EXCEPT !.stage = "sent",
                    !.wire = <<SnapshotEvent(0, board, lock # Nobody)>>])
  BY DEF SendSnapshot
<1> DEFINE ev == SnapshotEvent(0, board, lock # Nobody)
           t == [s EXCEPT !.stage = "sent", !.wire = <<ev>>]
<1>3. board \in Board /\ board.at = live.at
  BY <1>1, TornType DEF IInv
<1>4. ev \in Event /\ ev.board = board
  BY <1>3, SnapshotType
<1> HIDE DEF ev
<1>5. t \in Stream /\ t.stage = "sent" /\ t.wire = <<ev>> /\ t.chan = <<>>
  <2>1. s.chan = <<>>
    BY <1>1 DEF Flowing
  <2>2. <<ev>> \in Seq(Event)
    BY <1>4
  <2> HIDE DEF s
  <2> QED
    BY <1>1, <2>1, <2>2 DEF Stream
<1>6. \A j \in DOMAIN t.wire : t.wire[j] = ev
  BY <1>5
<1>7. SetStream(b, k, t)
  BY <1>2 DEF ev
<1> HIDE DEF s, t
<1>8. Fits(t)
  BY <1>4, <1>5, ServiceAssumption DEF Fits
<1>9. Rising(t.wire) /\ UpTo(t.wire, live.at) /\ \A v \in Nat : v <= live.at => From(t.wire, v)
  BY <1>1, <1>3, <1>4, <1>6 DEF Rising, UpTo, From
<1>10. Flowing(t, live.at)
  BY <1>5, <1>9, EmptyOrder DEF Flowing
<1>11. \A v \in Nat : v <= live.at => Ahead(t, v)
  BY <1>5, <1>9, EmptyOrder DEF Ahead
<1> QED
  BY <1>1, <1>7, <1>8, <1>10, <1>11, HandlerStep DEF s

LEMMA ForwardKeeps ==
  ASSUME IInv, NEW b \in Bots, NEW k \in DOMAIN streams[b], Forward(b, k)
  PROVE  IInv'
<1> DEFINE s == streams[b][k]
           ev == Head(s.chan)
           chan == Tail(s.chan)
           wire == Append(s.wire, ev)
           t == [s EXCEPT !.chan = chan, !.wire = wire]
<1>1. /\ Fits(s) /\ Flowing(s, live.at) /\ s \in Stream /\ s.stage = "live"
      /\ s.wire \in Seq(Event) /\ s.chan \in Seq(Event) /\ live.at \in Nat
      /\ s.chan # <<>> /\ Len(s.wire) < Window
      /\ SetStream(b, k, t) /\ UNCHANGED <<live, prior, lock, seq, bots, up>>
  BY StreamFacts DEF Forward
<1> HIDE DEF s
<1>2. Rising(s.wire) /\ Rising(s.chan) /\ Before(s.wire, s.chan) /\ UpTo(s.chan, live.at)
  BY <1>1 DEF Flowing
<1>3. /\ chan \in Seq(Event) /\ Len(chan) = Len(s.chan) - 1
      /\ ev \in Event /\ ev = s.chan[1] /\ 1 \in DOMAIN s.chan
      /\ Rising(chan) /\ From(chan, ev.board.at)
      /\ UpTo(chan, live.at) /\ Before(s.wire, chan)
      /\ \A v : From(s.chan, v) => From(chan, v)
  BY <1>1, <1>2, TailOrder
<1>4. /\ UpTo(s.wire, ev.board.at) /\ ev.board.at <= live.at
      /\ \A v : From(s.chan, v) => v <= ev.board.at
  BY <1>2, <1>3 DEF Before, UpTo, From
<1> HIDE DEF ev, chan
<1>5. /\ wire \in Seq(Event) /\ Len(wire) = Len(s.wire) + 1
      /\ Rising(wire) /\ UpTo(wire, live.at) /\ Before(wire, chan)
      /\ \A v \in Nat : From(s.wire, v) /\ v <= ev.board.at => From(wire, v)
  BY <1>1, <1>2, <1>3, <1>4, AppendOrder
<1> HIDE DEF wire
<1>6. t \in Stream /\ t.stage = "live" /\ t.wire = wire /\ t.chan = chan
  BY <1>1, <1>3, <1>5 DEF Stream
<1>7. Len(s.wire) \in Nat /\ Len(s.chan) \in Nat /\ Len(s.chan) <= Capacity
  BY <1>1 DEF Fits
<1>8. Len(wire) <= Window /\ Len(chan) <= Capacity
  BY <1>1, <1>3, <1>5, <1>7, ServiceAssumption
<1> HIDE DEF t
<1>9. Fits(t)
  BY <1>6, <1>8 DEF Fits
<1>10. Flowing(t, live.at)
  BY <1>3, <1>5, <1>6 DEF Flowing
<1>11. \A v \in Nat : Ahead(s, v) => Ahead(t, v)
  BY <1>3, <1>4, <1>5, <1>6 DEF Ahead
<1> QED
  BY <1>1, <1>9, <1>10, <1>11, HandlerStep DEF s

LEMMA UnregisterKeeps ==
  ASSUME IInv, NEW b \in Bots, NEW k \in DOMAIN streams[b], Unregister(b, k)
  PROVE  IInv'
<1> DEFINE t == [stage |-> "gone", chan |-> <<>>, wire |-> <<>>, full |-> FALSE]
<1>1. SetStream(b, k, t) /\ UNCHANGED <<live, prior, lock, seq, bots, up>>
  BY DEF Unregister
<1>2. t \in Stream /\ t.wire = <<>> /\ t.chan = <<>>
  BY DEF Stream
<1> HIDE DEF t
<1>3. Fits(t)
  BY <1>2, ServiceAssumption DEF Fits
<1>4. Flowing(t, live.at) /\ \A v : Ahead(t, v)
  BY <1>2, EmptyOrder DEF Flowing, Ahead
<1> QED
  BY <1>1, <1>3, <1>4, HandlerStep

-----------------------------------------------------------------------------
(* The steps of a bot.                                                     *)

LEMMA DriveType ==
  ASSUME NEW b \in Bots, NEW r \in Bot, NEW ev \in Event, NEW x \in Drive(b, r, ev)
  PROVE  /\ x \in Bot
         /\ x.view.at = r.view.at \/ x.view.at = ev.board.at
<1> DEFINE s == Reduce(r, ev)
<1>1. s \in Bot /\ (s.view = r.view \/ s.view = ev.board)
  <2>1. CASE ev.kind = "ended"
    BY <2>1 DEF Reduce, Bot, Event
  <2>2. CASE ev.kind # "ended"
    <3> DEFINE t == [r EXCEPT !.lastSeq = ev.seq, !.view = ev.board]
    <3>1. t \in Bot /\ t.view = ev.board /\ (t.raced \/ ev.raced) \in BOOLEAN
      BY DEF Bot, Event
    <3>2. s = [t EXCEPT !.raced = t.raced \/ ev.raced]
      BY <2>2 DEF Reduce, Bot, Event
    <3> HIDE DEF s, t
    <3> QED
      BY <3>1, <3>2 DEF Bot
  <2> QED
    BY <2>1, <2>2
<1>2. Picks(b, s.view) \subseteq {"resolve", "end", "move", "blind"}
  BY DEF Picks
<1>3. \/ x = [r EXCEPT !.status = "subscribing", !.lastSeq = 0]
      \/ x = [s EXCEPT !.status = "done"]
      \/ x = s
      \/ \E p \in Picks(b, s.view) : x = [s EXCEPT !.status = "submitting", !.pick = p]
  BY DEF Drive
<1> HIDE DEF s
<1>4. CASE x = [r EXCEPT !.status = "subscribing", !.lastSeq = 0]
  BY <1>4 DEF Bot
<1>5. CASE x = [s EXCEPT !.status = "done"] \/ x = s
  BY <1>1, <1>5 DEF Bot
<1>6. CASE \E p \in Picks(b, s.view) : x = [s EXCEPT !.status = "submitting", !.pick = p]
  <2>1. PICK p \in {"resolve", "end", "move", "blind"} :
          x = [s EXCEPT !.status = "submitting", !.pick = p]
    BY <1>2, <1>6
  <2> QED
    BY <1>1, <2>1 DEF Bot
<1> QED
  BY <1>3, <1>4, <1>5, <1>6

\* Only the status of a bot changes: it gives up.
LEMMA GiveUpKeeps ==
  ASSUME IInv, NEW b \in Bots, SetBot(b, [bots[b] EXCEPT !.status = "failed"]),
         UNCHANGED <<live, prior, lock, seq, streams, up>>, up => lock # b
  PROVE  IInv'
<1> DEFINE r == [bots[b] EXCEPT !.status = "failed"]
<1>1. bots \in [Bots -> Bot] /\ bots[b] \in Bot
  BY DEF IInv, TypeOK
<1>2. r \in Bot /\ r.view = bots[b].view /\ r.status = "failed"
  BY <1>1 DEF Bot
<1> HIDE DEF r
<1>3. /\ bots' \in [Bots -> Bot] /\ bots'[b] = r
      /\ \A c \in Bots : c # b => bots'[c] = bots[c]
  BY <1>1, <1>2 DEF SetBot, r
<1>4. TypeOK'
  BY <1>3 DEF IInv, TypeOK
<1>5. \A c \in Bots :
        /\ bots'[c].view = bots[c].view
        /\ bots'[c].status \in {"draining", "submitting"} =>
             bots[c].status \in {"draining", "submitting"}
  BY <1>2, <1>3
<1>6. FeedInv'
  BY <1>5 DEF IInv, FeedInv
<1>7. HolderWaits'
  BY <1>3 DEF IInv, HolderWaits, TypeOK
<1> QED
  BY <1>4, <1>6, <1>7 DEF IInv

LEMMA SubscribeKeeps ==
  ASSUME IInv, NEW b \in Bots, Subscribe(b)
  PROVE  IInv'
<1> DEFINE new == [stage |-> "opened", chan |-> <<>>, wire |-> <<>>, full |-> FALSE]
           r == [bots[b] EXCEPT !.status = "draining"]
<1>1. /\ bots \in [Bots -> Bot] /\ bots[b] \in Bot
      /\ streams \in [Bots -> Seq(Stream)] /\ streams[b] \in Seq(Stream)
      /\ streams' = [streams EXCEPT ![b] = Append(streams[b], new)]
      /\ bots' = [bots EXCEPT ![b] = r] /\ UNCHANGED <<live, prior, lock, seq, up>>
  BY DEF IInv, TypeOK, Subscribe, SetBot
<1>2. r \in Bot /\ r.view = bots[b].view
  BY <1>1 DEF Bot
<1>3. new \in Stream /\ new.wire = <<>> /\ new.chan = <<>>
  BY DEF Stream
<1> HIDE DEF new, r
<1>4. Fits(new) /\ Flowing(new, live.at) /\ \A v : Ahead(new, v)
  BY <1>3, EmptyOrder, ServiceAssumption DEF Fits, Flowing, Ahead
<1> DEFINE list == Append(streams[b], new)
<1>5. /\ list \in Seq(Stream) /\ list # <<>> /\ list[Len(list)] = new
      /\ \A k \in DOMAIN list :
           list[k] = new \/ (k \in DOMAIN streams[b] /\ list[k] = streams[b][k])
  BY <1>1, <1>3
<1>6. streams' = [streams EXCEPT ![b] = list]
  BY <1>1
<1> HIDE DEF list
<1>7. /\ streams' \in [Bots -> Seq(Stream)] /\ streams'[b] # <<>>
      /\ streams'[b][Len(streams'[b])] = new
      /\ \A k \in DOMAIN streams'[b] :
           streams'[b][k] = new \/ (k \in DOMAIN streams[b] /\ streams'[b][k] = streams[b][k])
      /\ \A c \in Bots : c # b => streams'[c] = streams[c]
  BY <1>1, <1>5, <1>6
<1>8. /\ bots' \in [Bots -> Bot] /\ bots'[b].view = bots[b].view
      /\ \A c \in Bots : c # b => bots'[c] = bots[c]
  BY <1>1, <1>2
<1>9. \A c \in Bots : \A k \in DOMAIN streams'[c] :
        Fits(streams'[c][k]) /\ Flowing(streams'[c][k], live.at)
  BY <1>4, <1>7, StreamFacts
<1>10. TypeOK'
  BY <1>1, <1>7, <1>8, <1>9 DEF IInv, TypeOK, Fits
<1>11. ASSUME NEW c \in Bots
      PROVE  /\ bots'[c].view.at <= live'.at
             /\ \A k \in DOMAIN streams'[c] : Flowing(streams'[c][k], live'.at)
             /\ streams'[c] # <<>> =>
                  Ahead(streams'[c][Len(streams'[c])], bots'[c].view.at)
             /\ bots'[c].status \in {"draining", "submitting"} => streams'[c] # <<>>
  <2>1. CASE c = b
    BY <1>1, <1>4, <1>7, <1>8, <1>9, <2>1 DEF IInv, FeedInv
  <2>2. CASE c # b
    BY <1>1, <1>7, <1>8, <2>2 DEF IInv, FeedInv
  <2> QED
    BY <2>1, <2>2
<1>12. FeedInv'
  BY <1>11 DEF FeedInv
<1>13. HolderWaits'
  <2>1. bots[b].status = "subscribing"
    BY DEF Subscribe
  <2> QED
    BY <1>1, <1>8, <2>1 DEF IInv, HolderWaits, TypeOK
<1> QED
  BY <1>10, <1>12, <1>13 DEF IInv

\* The board a bot sees next is the oldest on its way, so it is no older than
\* the one it has, and all the others are at least as new.
LEMMA ReceiveKeeps ==
  ASSUME IInv, NEW b \in Bots, Receive(b), UNCHANGED up
  PROVE  /\ IInv'
         /\ bots'[b].view.at \in bots[b].view.at..live.at
         /\ \A c \in Bots : c # b => bots'[c] = bots[c]
<1> DEFINE k == Len(streams[b])
           s == streams[b][k]
           ev == Head(s.wire)
<1>1. /\ bots \in [Bots -> Bot] /\ bots[b] \in Bot /\ bots[b].view.at \in Nat
      /\ streams[b] \in Seq(Stream) /\ streams[b] # <<>> /\ k \in DOMAIN streams[b]
      /\ up \in BOOLEAN
  <2>1. bots \in [Bots -> Bot] /\ bots[b] \in Bot /\ up \in BOOLEAN
    BY DEF IInv, TypeOK
  <2>2. bots[b].view.at \in Nat
    BY <2>1 DEF Bot, Board
  <2>3. streams[b] \in Seq(Stream)
    BY DEF IInv, TypeOK
  <2>4. bots[b].status = "draining"
    BY DEF Receive
  <2>5. streams[b] # <<>>
    BY <2>4 DEF IInv, FeedInv
  <2> QED
    BY <2>1, <2>2, <2>3, <2>5
<1>2. /\ Fits(s) /\ Flowing(s, live.at) /\ s \in Stream
      /\ s.wire \in Seq(Event) /\ s.chan \in Seq(Event) /\ live.at \in Nat
  BY <1>1, StreamFacts
<1>3. Ahead(s, bots[b].view.at) /\ bots[b].view.at <= live.at
  BY <1>1 DEF IInv, FeedInv
<1>4. PICK r \in Drive(b, bots[b], ev) :
        /\ SetBot(b, r)
        /\ SetStream(b, k, [s EXCEPT !.wire =
             IF r.status \in {"draining", "submitting"} THEN Tail(s.wire) ELSE <<>>])
  BY DEF Receive
<1>5. s.wire # <<>> /\ UNCHANGED <<live, prior, lock, seq, up>>
  BY DEF Receive
<1> HIDE DEF s
<1> DEFINE wire == IF r.status \in {"draining", "submitting"} THEN Tail(s.wire) ELSE <<>>
           t == [s EXCEPT !.wire = wire]
<1>6. Rising(s.wire) /\ Rising(s.chan) /\ Before(s.wire, s.chan) /\ UpTo(s.wire, live.at)
  BY <1>2 DEF Flowing
<1>7. /\ Tail(s.wire) \in Seq(Event) /\ Len(Tail(s.wire)) = Len(s.wire) - 1
      /\ ev \in Event /\ ev = s.wire[1] /\ 1 \in DOMAIN s.wire
      /\ Rising(Tail(s.wire)) /\ From(Tail(s.wire), ev.board.at)
      /\ UpTo(Tail(s.wire), live.at) /\ Before(Tail(s.wire), s.chan)
      /\ \A v : From(s.wire, v) => From(Tail(s.wire), v)
  BY <1>2, <1>5, <1>6, TailOrder
<1>8. /\ bots[b].view.at <= ev.board.at /\ ev.board.at <= live.at
      /\ From(s.chan, ev.board.at) /\ ev.board.at \in Nat
  BY <1>3, <1>6, <1>7 DEF Ahead, From, UpTo, Before, Event, Board
<1> HIDE DEF ev
<1>9. r \in Bot /\ (r.view.at = bots[b].view.at \/ r.view.at = ev.board.at)
  BY <1>1, <1>7, DriveType
<1>10. Len(s.wire) \in Nat /\ Len(s.wire) <= Window /\ Len(s.chan) <= Capacity
  BY <1>2 DEF Fits
<1>11. /\ wire \in Seq(Event) /\ Len(wire) <= Window /\ Rising(wire)
       /\ UpTo(wire, live.at) /\ Before(wire, s.chan)
       /\ From(wire, bots[b].view.at) /\ From(wire, ev.board.at)
  <2>1. CASE r.status \in {"draining", "submitting"}
    <3>1. wire = Tail(s.wire)
      BY <2>1
    <3> HIDE DEF wire
    <3> QED
      BY <1>3, <1>7, <1>10, <3>1, ServiceAssumption DEF Ahead
  <2>2. CASE r.status \notin {"draining", "submitting"}
    <3>1. wire = <<>>
      BY <2>2
    <3> HIDE DEF wire
    <3> QED
      BY <3>1, EmptyOrder, ServiceAssumption
  <2> QED
    BY <2>1, <2>2
<1>12. s.wire = <<>> => wire = <<>>
  BY <1>5
<1> HIDE DEF wire
<1>13. t \in Stream /\ t.stage = s.stage /\ t.wire = wire /\ t.chan = s.chan
  BY <1>2, <1>11 DEF Stream
<1>14. SetStream(b, k, t)
  BY <1>4 DEF wire
<1> HIDE DEF t
<1>15. Fits(t)
  BY <1>10, <1>11, <1>13 DEF Fits
<1>16. Flowing(t, live.at)
  BY <1>2, <1>5, <1>6, <1>11, <1>13 DEF Flowing
<1>17. Ahead(t, r.view.at)
  BY <1>3, <1>8, <1>9, <1>11, <1>13 DEF Ahead
<1>18. up' /\ lock = b => r.status = "submitting"
  BY <1>5 DEF Receive, IInv, HolderWaits, Bots, Nobody
<1>19. r.view.at \in bots[b].view.at..live.at
  BY <1>1, <1>2, <1>3, <1>8, <1>9
<1>20. IInv'
  <2>1. IF k = Len(streams[b]) THEN Ahead(t, r.view.at) ELSE r.view = bots[b].view
    BY <1>17
  <2>2. r.view.at <= live.at /\ up' \in BOOLEAN /\ (up' => up) /\ SetBot(b, r)
    BY <1>1, <1>2, <1>4, <1>5, <1>19
  <2> HIDE DEF k
  <2> QED
    BY <1>1, <1>5, <1>9, <1>14, <1>15, <1>16, <1>18, <2>1, <2>2, StreamStep
<1>21. bots'[b] = r /\ \A c \in Bots : c # b => bots'[c] = bots[c]
  BY <1>1, <1>4 DEF SetBot
<1> QED
  BY <1>19, <1>20, <1>21

-----------------------------------------------------------------------------
(* The steps of a submission.                                              *)

LEMMA SubmitKeeps ==
  ASSUME IInv, NEW b \in Bots, SubmitAction(b)
  PROVE  IInv' /\ live'.at = live.at + 1 /\ UNCHANGED bots
<1>1. PICK next \in Accepted(live, b) : live' = [next EXCEPT !.at = @ + 1]
  BY DEF SubmitAction
<1>2. /\ prior' = live /\ lock' = b /\ UNCHANGED <<seq, streams, bots, up>>
      /\ live \in Board /\ live.at \in Nat
  BY DEF SubmitAction, IInv, TypeOK, Board
<1>3. next \in Board /\ next.at = live.at
  BY AcceptedType DEF IInv
<1>4. live' \in Board /\ live'.at = live.at + 1
  BY <1>1, <1>2, <1>3 DEF Board
<1>5. TypeOK'
  BY <1>2, <1>4 DEF IInv, TypeOK
<1>6. \A c \in Bots : \A k \in DOMAIN streams[c] : Flowing(streams[c][k], live'.at)
  BY <1>2, <1>4, StreamFacts, Grows
<1>7. \A c \in Bots : bots[c].view.at \in Nat
  BY DEF IInv, TypeOK, Bot, Board
<1>8. \A c \in Bots : bots[c].view.at <= live'.at
  BY <1>2, <1>4, <1>7 DEF IInv, FeedInv
<1>9. FeedInv'
  BY <1>2, <1>6, <1>8 DEF IInv, FeedInv
<1>10. HolderWaits'
  BY <1>2 DEF SubmitAction, HolderWaits
<1> QED
  BY <1>2, <1>4, <1>5, <1>9, <1>10 DEF IInv

LEMMA FanOutKeeps ==
  ASSUME IInv, NEW b \in Bots, FanOut(b)
  PROVE  IInv' /\ UNCHANGED live /\ \A c \in Bots : bots'[c].view = bots[c].view
<1> DEFINE ev == EventFor(seq + 1)
           after(c) == [k \in DOMAIN streams[c] |-> Offer(streams[c][k], ev)]
           r == [bots[b] EXCEPT !.status = "draining", !.pick = "none"]
<1>1. /\ up /\ lock = b /\ seq' = seq + 1 /\ lock' = Nobody /\ prior' = live
      /\ streams' = [c \in Bots |-> after(c)]
      /\ bots' = [bots EXCEPT ![b] = r] /\ UNCHANGED <<live, up>>
  BY DEF FanOut, SetBot
<1>2. /\ live \in Board /\ live.at \in Nat /\ seq \in Nat /\ seq' \in Nat
      /\ bots \in [Bots -> Bot] /\ bots[b] \in Bot
      /\ streams \in [Bots -> Seq(Stream)]
  BY <1>1 DEF IInv, TypeOK, Board
<1>3. ev \in Event /\ ev.board = live
  BY <1>2, EventForType DEF IInv
<1> HIDE DEF ev
<1>4. r \in Bot /\ r.view = bots[b].view
  BY <1>2 DEF Bot
<1> HIDE DEF r
<1>5. bots' \in [Bots -> Bot] /\ \A c \in Bots : bots'[c].view = bots[c].view
  BY <1>1, <1>2, <1>4
<1>6. ASSUME NEW c \in Bots, NEW k \in DOMAIN streams[c]
      PROVE  /\ Fits(Offer(streams[c][k], ev))
             /\ Flowing(Offer(streams[c][k], ev), live.at)
             /\ \A v \in Nat : Ahead(streams[c][k], v) /\ v <= live.at =>
                  Ahead(Offer(streams[c][k], ev), v)
  BY <1>3, <1>6, StreamFacts, OfferFlows
<1>7. ASSUME NEW c \in Bots
      PROVE  /\ after(c) \in Seq(Stream) /\ DOMAIN after(c) = DOMAIN streams[c]
             /\ Len(after(c)) = Len(streams[c])
             /\ (after(c) = <<>>) <=> (streams[c] = <<>>)
  <2>1. /\ streams[c] \in Seq(Stream) /\ Len(streams[c]) \in Nat
        /\ DOMAIN streams[c] = 1..Len(streams[c])
    BY <1>2
  <2>2. \A k \in DOMAIN streams[c] : Offer(streams[c][k], ev) \in Stream
    BY <1>6 DEF Fits
  <2> QED
    BY <2>1, <2>2
<1>8. \A c \in Bots : streams'[c] = after(c)
  BY <1>1
<1>9. \A c \in Bots : \A k \in DOMAIN streams[c] : after(c)[k] = Offer(streams[c][k], ev)
  OBVIOUS
<1>10. streams' \in [Bots -> Seq(Stream)]
  BY <1>1, <1>7
<1> HIDE DEF after
<1>11. \A c \in Bots : \A k \in DOMAIN streams'[c] :
         Fits(streams'[c][k]) /\ Flowing(streams'[c][k], live.at)
  BY <1>6, <1>7, <1>8, <1>9
<1>12. TypeOK'
  BY <1>1, <1>2, <1>5, <1>10, <1>11 DEF IInv, TypeOK, Fits
<1>13. ASSUME NEW c \in Bots
       PROVE  /\ bots'[c].view.at <= live'.at
              /\ streams'[c] # <<>> =>
                   Ahead(streams'[c][Len(streams'[c])], bots'[c].view.at)
              /\ bots'[c].status \in {"draining", "submitting"} => streams'[c] # <<>>
  <2>1. bots[c].view.at \in Nat /\ bots[c].view.at <= live.at
    BY <1>2 DEF IInv, FeedInv, Bot, Board
  <2>2. streams[c] # <<>> =>
          /\ Len(streams[c]) \in DOMAIN streams[c]
          /\ Ahead(streams[c][Len(streams[c])], bots[c].view.at)
    BY <1>2 DEF IInv, FeedInv
  <2>3. bots'[c].status \in {"draining", "submitting"} =>
          bots[c].status \in {"draining", "submitting"}
    BY <1>1, <1>2 DEF IInv, HolderWaits, Bots, Nobody
  <2>4. bots'[c].status \in {"draining", "submitting"} => streams[c] # <<>>
    BY <2>3 DEF IInv, FeedInv
  <2>5. streams'[c] # <<>> => Ahead(streams'[c][Len(streams'[c])], bots[c].view.at)
    BY <1>6, <1>7, <1>8, <1>9, <2>1, <2>2
  <2> QED
    BY <1>1, <1>5, <1>7, <1>8, <2>1, <2>4, <2>5
<1>14. FeedInv'
  BY <1>1, <1>11, <1>13 DEF FeedInv
<1>15. HolderWaits'
  BY <1>1 DEF HolderWaits
<1> QED
  BY <1>1, <1>5, <1>12, <1>14, <1>15 DEF IInv

-----------------------------------------------------------------------------
(* The theorems.                                                           *)

LEMMA Initially ==
  ASSUME Init
  PROVE  IInv /\ live.at = 0 /\ \A b \in Bots : bots[b].view.at = 0
<1>1. PICK first \in Bots :
        /\ live = NewBoard(first) /\ prior = live
        /\ lock = Nobody /\ seq = 0 /\ up = TRUE
        /\ streams = [b \in Bots |-> <<>>]
        /\ bots = [b \in Bots |->
                     [status |-> "subscribing", lastSeq |-> 0,
                      view |-> NewBoard(first), pick |-> "none", raced |-> FALSE]]
  BY DEF Init
<1>2. NewBoard(first) \in Board /\ NewBoard(first).at = 0
  BY DEF NewBoard, Board, Question, NoQuestion
<1> HIDE DEF NewBoard
<1>3. bots \in [Bots -> Bot]
  BY <1>1, <1>2 DEF Bot
<1>4. TypeOK
  <2>1. streams \in [Bots -> Seq(Stream)] /\ \A b \in Bots : DOMAIN streams[b] = {}
    BY <1>1
  <2>2. live \in Board /\ prior \in Board /\ lock = Nobody /\ seq = 0 /\ up = TRUE
    BY <1>1, <1>2
  <2> QED
    BY <1>3, <2>1, <2>2 DEF TypeOK
<1>5. FeedInv
  BY <1>1, <1>2 DEF FeedInv
<1>6. HolderWaits
  BY <1>1 DEF HolderWaits
<1> QED
  BY <1>1, <1>2, <1>4, <1>5, <1>6 DEF IInv

Sight == [b \in Bots |-> bots[b].view.at]

LEMMA SameSight ==
  ASSUME \A b \in Bots : bots'[b].view.at = bots[b].view.at
  PROVE  Sight' = Sight
BY DEF Sight

\* Every step keeps the invariant and is a step of the feed or none.
LEMMA StepKeeps ==
  ASSUME IInv, [Next]_vars
  PROVE  IInv' /\ [Feed!Next]_<<live.at, Sight>>
<1>1. CASE UNCHANGED vars
  <2>1. UNCHANGED <<live, prior, lock, seq, streams, bots, up>>
    BY <1>1 DEF vars
  <2>2. IInv'
    BY <2>1 DEF IInv, TypeOK, FeedInv, HolderWaits, Flowing, Ahead
  <2> QED
    BY <2>1, <2>2, SameSight
<1>2. ASSUME NEW b \in Bots, SubmitAction(b)
      PROVE  IInv' /\ [Feed!Next]_<<live.at, Sight>>
  <2>1. Sight' = Sight /\ live.at' = live.at + 1
    BY <1>2, SubmitKeeps, SameSight
  <2> QED
    BY <1>2, <2>1, SubmitKeeps DEF Feed!Next, Feed!Advance, Sight
<1>3. ASSUME NEW b \in Bots, SubmitRejected(b)
      PROVE  IInv' /\ [Feed!Next]_<<live.at, Sight>>
  <2>1. /\ lock = Nobody /\ bots[b].status = "submitting"
        /\ SetBot(b, [bots[b] EXCEPT !.status = "failed"])
        /\ UNCHANGED <<live, prior, lock, seq, streams, up>>
    BY <1>3 DEF SubmitRejected
  <2>2. lock # b
    BY SMTT(30), <2>1 DEF Bots, Nobody
  <2>3. IInv'
    BY <2>1, <2>2, GiveUpKeeps
  <2>4. \A c \in Bots : bots'[c].view.at = bots[c].view.at
    BY <2>1 DEF SetBot, IInv, TypeOK, Bot
  <2> QED
    BY <2>1, <2>3, <2>4, SameSight
<1>4. ASSUME NEW b \in Bots, FanOut(b)
      PROVE  IInv' /\ [Feed!Next]_<<live.at, Sight>>
  BY <1>4, FanOutKeeps, SameSight
<1>5. ASSUME NEW b \in Bots, Subscribe(b)
      PROVE  IInv' /\ [Feed!Next]_<<live.at, Sight>>
  <2>1. bots' = [bots EXCEPT ![b] = [bots[b] EXCEPT !.status = "draining"]] /\ live' = live
    BY <1>5 DEF Subscribe, SetBot
  <2>2. \A c \in Bots : bots'[c].view.at = bots[c].view.at
    BY <2>1 DEF IInv, TypeOK, Bot
  <2> QED
    BY <1>5, <2>1, <2>2, SubscribeKeeps, SameSight
<1>6. ASSUME NEW b \in Bots, up, Receive(b)
      PROVE  IInv' /\ [Feed!Next]_<<live.at, Sight>>
  <2>1. UNCHANGED <<live, up>>
    BY <1>6 DEF Receive
  <2>2. /\ IInv' /\ bots'[b].view.at \in bots[b].view.at..live.at
        /\ \A c \in Bots : c # b => bots'[c] = bots[c]
    BY <1>6, <2>1, ReceiveKeeps
  <2>3. Sight' = [Sight EXCEPT ![b] = bots'[b].view.at]
    BY <2>2 DEF Sight
  <2>4. Sight[b] = bots[b].view.at
    BY DEF Sight
  <2>5. Feed!Observe(b)
    BY <2>1, <2>2, <2>3, <2>4 DEF Feed!Observe, Sight
  <2> QED
    BY <2>2, <2>5 DEF Feed!Next
<1>7. ASSUME NEW b \in Bots, ConnectionLost(b)
      PROVE  IInv' /\ [Feed!Next]_<<live.at, Sight>>
  <2>1. /\ ~up
        /\ SetBot(b, [bots[b] EXCEPT !.status = "failed"])
        /\ UNCHANGED <<live, prior, lock, seq, streams, up>>
    BY <1>7 DEF ConnectionLost
  <2>2. IInv'
    BY <2>1, GiveUpKeeps
  <2>3. \A c \in Bots : bots'[c].view.at = bots[c].view.at
    BY <2>1 DEF SetBot, IInv, TypeOK, Bot
  <2> QED
    BY <2>1, <2>2, <2>3, SameSight
<1>8. ASSUME NEW b \in Bots, NEW k \in DOMAIN streams[b], Handling(b, k)
      PROVE  IInv' /\ [Feed!Next]_<<live.at, Sight>>
  <2>1. IInv'
    BY <1>8, GetGameKeeps, SendSnapshotKeeps, RegisterKeeps, ForwardKeeps, UnregisterKeeps
       DEF Handling
  <2>2. UNCHANGED <<live, bots>>
    BY <1>8 DEF Handling, GetGame, SendSnapshot, Register, Forward, Unregister
  <2> QED
    BY <2>1, <2>2, SameSight
<1>9. ASSUME NEW b \in Bots, NEW k \in DOMAIN streams[b], Crash(b, k)
      PROVE  IInv' /\ [Feed!Next]_<<live.at, Sight>>
  <2>1. up' = FALSE /\ UNCHANGED <<live, prior, lock, seq, streams, bots>>
    BY <1>9 DEF Crash
  <2>2. IInv'
    BY <2>1 DEF IInv, TypeOK, FeedInv, HolderWaits, Flowing, Ahead
  <2> QED
    BY <2>1, <2>2, SameSight
<1> QED
  BY <1>1, <1>2, <1>3, <1>4, <1>5, <1>6, <1>7, <1>8, <1>9
     DEF Next, Submitting, Running

\* At every moment the boards on their way to a reader are in order and no older
\* than the one it has.
THEOREM FeedsInOrder == Spec => []IInv
<1>1. Init => IInv
  BY Initially
<1>2. IInv /\ [Next]_vars => IInv'
  BY StepKeeps
<1> QED
  BY <1>1, <1>2, PTL DEF Spec

\* Channels and connections keep within their bounds and every variable keeps
\* its type, for any capacity, window and number of actions and streams.
THEOREM ServiceTypes == Spec => []TypeOK
<1>1. IInv => TypeOK
  BY DEF IInv
<1> QED
  BY <1>1, FeedsInOrder, PTL

\* Whatever is dropped, delayed, read half-way through an action or asked for
\* again after a gap, no bot is ever shown a board the game has not been at (or
\* is not just moving to), nor an older one than it has seen.
THEOREM BoardsNeverGoBack == Spec => MonotoneFeed
<1>1. Init => Feed!Init
  BY Initially DEF Feed!Init
<1>2. IInv /\ [Next]_vars => [Feed!Next]_Feed!vars
  BY StepKeeps DEF Feed!vars, Sight
<1> QED
  BY <1>1, <1>2, FeedsInOrder, PTL DEF Spec, MonotoneFeed, Feed!Spec
=============================================================================
