--------------------------- MODULE DeliveryProofs ---------------------------
(***************************************************************************)
(* What reaches a bot, and what it does about it, for every capacity of    *)
(* the channels and the connections and any number of actions and streams: *)
(* a reader is left behind in silence only by a full channel, and, but for *)
(* a race, a submission is rejected only at a pile the bot did not look at.*)
(*                                                                         *)
(* Only the newest stream of a bot counts, and only while the bot is in    *)
(* its loop.  Two things are kept of it.  Once a number has come through,  *)
(* the last board on its way is the one the last action left, unless the   *)
(* channel was full.  And a board on which the bot has to act is the last  *)
(* on its way: nobody else may act on it, and the bot waits for its answer *)
(* before it reads on.                                                     *)
(***************************************************************************)
EXTENDS GameServiceProofs

Open(r) == r.status \in {"draining", "submitting"}
Newest(b) == streams[b][Len(streams[b])]

\* The board the last finished action left.
Settled == IF lock = Nobody THEN live ELSE prior

\* An event of the fan-out has reached the reader, or will.
Numbered(r, s) ==
  r.lastSeq # 0 \/ s.chan # <<>> \/ \E i \in DOMAIN s.wire : s.wire[i].seq # 0

\* The last board the reader will see, as things stand.
LastBoard(r, s) ==
  IF s.chan # <<>> THEN s.chan[Len(s.chan)].board
  ELSE IF s.wire # <<>> THEN s.wire[Len(s.wire)].board ELSE r.view

Informed(r, s, now) ==
  Numbered(r, s) => s.stage = "live" /\ (s.full \/ LastBoard(r, s) = now)

\* Nothing read during an action has reached the reader, or will.
Honest(r, s) == ~r.raced /\ \A i \in DOMAIN s.wire : ~s.wire[i].raced

\* A race can only be in the snapshot, and the reader waits for that.
RaceFirst(r, s) ==
  /\ \A i \in DOMAIN s.chan : ~s.chan[i].raced
  /\ \A i \in DOMAIN s.wire :
       s.wire[i].raced =>
         i = 1 /\ s.wire[i].kind = "snapshot" /\ r.status = "draining"

\* A board on which b has to act is the game's, and the last on its way.
TurnLast(b, s, holder, now) ==
  /\ \A i \in DOMAIN s.chan :
       Picks(b, s.chan[i].board) # {} =>
         holder = Nobody /\ s.chan[i].board = now /\ i = Len(s.chan)
  /\ \A i \in DOMAIN s.wire :
       Picks(b, s.wire[i].board) # {} =>
         holder = Nobody /\ s.wire[i].board = now /\ i = Len(s.wire) /\ s.chan = <<>>

\* A bot that submits acts on the game's board, and nobody else is acting.
ActsOnNow(b, r, s, holder, now) ==
  r.status = "submitting" =>
    /\ s.wire = <<>> /\ s.chan = <<>> /\ holder \in {Nobody, b}
    /\ r.view = now /\ ~now.ended /\ r.pick \in Picks(b, now)

Served(b, r, s, holder, now) ==
  /\ s.stage # "gone" /\ (r.status = "submitting" => s.stage \in {"sent", "live"})
  /\ RaceFirst(r, s)
  /\ Honest(r, s) =>
       TurnLast(b, s, holder, now) /\ ActsOnNow(b, r, s, holder, now)

Delivered(b, r, s, holder, now) == Informed(r, s, now) /\ Served(b, r, s, holder, now)

DeliveryInv ==
  \A b \in Bots :
    /\ bots[b].status = "subscribing" => bots[b].lastSeq = 0
    /\ Open(bots[b]) => Delivered(b, bots[b], Newest(b), lock, Settled)

\* A bot that has given up without a race was refused a purchase on the game's
\* board, on which none but itself could act.
Stands(b, r, now) ==
  r.pick = "blind" /\ r.view = now /\ r.pick \in Picks(b, now)

RefusedInv ==
  \A b \in Bots :
    up /\ bots[b].status = "failed" /\ ~bots[b].raced => Stands(b, bots[b], live)

DInv == DeliveryInv /\ RefusedInv

-----------------------------------------------------------------------------
(* Positions of events in a queue.                                         *)

LEMMA TailAt ==
  ASSUME NEW q \in Seq(Event), q # <<>>
  PROVE  /\ Head(q) = q[1] /\ 1 \in DOMAIN q /\ Head(q) \in Event
         /\ Tail(q) \in Seq(Event) /\ Len(q) \in Nat /\ Len(Tail(q)) = Len(q) - 1
         /\ (Tail(q) = <<>>) <=> (Len(q) = 1)
         /\ \A i \in DOMAIN Tail(q) :
              i \in Nat /\ i + 1 \in DOMAIN q /\ Tail(q)[i] = q[i + 1]
         /\ Tail(q) # <<>> => Tail(q)[Len(Tail(q))] = q[Len(q)]
<1> DEFINE r == Tail(q)
<1>1. /\ r \in Seq(Event) /\ Len(r) = Len(q) - 1 /\ Len(q) \in Nat /\ Len(q) >= 1
      /\ DOMAIN r = 1..(Len(q) - 1) /\ DOMAIN q = 1..Len(q)
      /\ Head(q) = q[1] /\ Head(q) \in Event
  OBVIOUS
<1>2. \A i \in DOMAIN r : i \in Nat /\ i + 1 \in DOMAIN q /\ r[i] = q[i + 1]
  BY <1>1
<1>3. (r = <<>>) <=> (Len(q) = 1)
  BY <1>1
<1> HIDE DEF r
<1>4. ASSUME r # <<>> PROVE r[Len(r)] = q[Len(q)]
  <2>1. Len(r) \in DOMAIN r /\ Len(r) + 1 = Len(q)
    BY <1>1, <1>3, <1>4
  <2> QED
    BY <1>2, <2>1
<1> QED
  BY <1>1, <1>2, <1>3, <1>4 DEF r

LEMMA AppendAt ==
  ASSUME NEW q \in Seq(Event), NEW e \in Event
  PROVE  /\ Append(q, e) \in Seq(Event) /\ Append(q, e) # <<>>
         /\ Len(q) \in Nat /\ Len(Append(q, e)) = Len(q) + 1
         /\ Append(q, e)[Len(q) + 1] = e
         /\ \A i \in DOMAIN Append(q, e) :
              \/ i \in DOMAIN q /\ Append(q, e)[i] = q[i]
              \/ i = Len(q) + 1 /\ Append(q, e)[i] = e
         /\ \A i \in DOMAIN q : i \in DOMAIN Append(q, e) /\ Append(q, e)[i] = q[i]
<1>1. /\ Append(q, e) \in Seq(Event) /\ Len(Append(q, e)) = Len(q) + 1
      /\ DOMAIN Append(q, e) = 1..(Len(q) + 1) /\ DOMAIN q = 1..Len(q) /\ Len(q) \in Nat
  OBVIOUS
<1>2. Append(q, e)[Len(q) + 1] = e /\ \A i \in DOMAIN q : Append(q, e)[i] = q[i]
  OBVIOUS
<1>3. \A i \in DOMAIN Append(q, e) : i \in DOMAIN q \/ i = Len(q) + 1
  BY <1>1
<1>4. \A i \in DOMAIN q : i \in DOMAIN Append(q, e)
  BY <1>1
<1>5. Append(q, e) # <<>>
  <2> DEFINE r == Append(q, e)
  <2>1. Len(r) # 0 /\ Len(<<>>) = 0
    BY <1>1
  <2> HIDE DEF r
  <2>2. r # <<>>
    BY <2>1
  <2> QED
    BY <2>2 DEF r
<1> QED
  BY <1>1, <1>2, <1>3, <1>4, <1>5

-----------------------------------------------------------------------------
(* The newest stream.                                                      *)

LEMMA NewestFacts ==
  ASSUME IInv, NEW b \in Bots, Open(bots[b])
  PROVE  /\ streams[b] \in Seq(Stream) /\ streams[b] # <<>>
         /\ Len(streams[b]) \in DOMAIN streams[b]
         /\ bots[b] \in Bot /\ Newest(b) \in Stream
         /\ Newest(b).wire \in Seq(Event) /\ Newest(b).chan \in Seq(Event)
         /\ Flowing(Newest(b), live.at)
<1>1. streams[b] \in Seq(Stream) /\ streams[b] # <<>> /\ bots[b] \in Bot
  BY DEF IInv, TypeOK, FeedInv, Open
<1>2. Len(streams[b]) \in DOMAIN streams[b]
  BY <1>1
<1> QED
  BY <1>1, <1>2, StreamFacts DEF Newest

\* A handler's step: the bots and the game stay as they are.
LEMMA HandlerDelivers ==
  ASSUME IInv, DInv, NEW b \in Bots, NEW k \in DOMAIN streams[b], NEW s \in Stream,
         SetStream(b, k, s), UNCHANGED <<live, prior, lock, seq, bots, up>>,
         k = Len(streams[b]) /\ Open(bots[b]) =>
           Delivered(b, bots[b], s, lock, Settled)
  PROVE  DInv'
<1>1. Settled' = Settled
  BY DEF Settled
<1>2. /\ streams \in [Bots -> Seq(Stream)] /\ streams[b] \in Seq(Stream)
      /\ streams' = [streams EXCEPT ![b] = [streams[b] EXCEPT ![k] = s]]
  BY DEF IInv, TypeOK, SetStream
<1>3. /\ \A c \in Bots : c # b => streams'[c] = streams[c]
      /\ streams'[b] = [streams[b] EXCEPT ![k] = s]
      /\ Len(streams'[b]) = Len(streams[b])
  BY <1>2
<1>4. ASSUME NEW c \in Bots, Open(bots[c])
      PROVE  Delivered(c, bots[c], Newest(c)', lock, Settled)
  <2>1. Delivered(c, bots[c], Newest(c), lock, Settled)
    BY <1>4 DEF DInv, DeliveryInv
  <2>2. CASE c # b
    BY <1>3, <2>1, <2>2 DEF Newest
  <2>3. CASE c = b /\ k # Len(streams[b])
    <3>1. Newest(b)' = Newest(b)
      BY <1>2, <1>3, <1>4, <2>3, NewestFacts DEF Newest
    <3> QED
      BY <2>1, <2>3, <3>1
  <2>4. CASE c = b /\ k = Len(streams[b])
    <3>1. Newest(b)' = s
      BY <1>2, <1>3, <2>4 DEF Newest
    <3> QED
      BY <1>4, <2>4, <3>1
  <2> QED
    BY <2>2, <2>3, <2>4
<1>5. DeliveryInv'
  BY <1>1, <1>4 DEF DInv, DeliveryInv, Open
<1> QED
  BY <1>5 DEF DInv, RefusedInv

\* The same events at a later stage of a stream that is not registered.
LEMMA Restaged ==
  ASSUME NEW b, NEW r, NEW s, NEW t, NEW holder, NEW now,
         Delivered(b, r, s, holder, now), s.stage # "live",
         t.wire = s.wire, t.chan = s.chan, t.stage # "gone",
         r.status = "submitting" => t.stage \in {"sent", "live"}
  PROVE  Delivered(b, r, t, holder, now)
<1>1. ~Numbered(r, t)
  BY DEF Delivered, Informed, Numbered
<1> QED
  BY <1>1 DEF Delivered, Informed, Served, RaceFirst, Honest, TurnLast, ActsOnNow

LEMMA GetGameDelivers ==
  ASSUME IInv, DInv, NEW b \in Bots, NEW k \in DOMAIN streams[b], GetGame(b, k)
  PROVE  DInv'
<1> DEFINE s == streams[b][k]
           t == [s EXCEPT !.stage = "got"]
<1>1. /\ s \in Stream /\ s.stage = "opened" /\ SetStream(b, k, t)
      /\ UNCHANGED <<live, prior, lock, seq, bots, up>>
  BY StreamFacts DEF GetGame
<1>2. t \in Stream /\ t.stage = "got" /\ t.wire = s.wire /\ t.chan = s.chan
  BY <1>1 DEF Stream
<1> HIDE DEF t
<1>3. ASSUME k = Len(streams[b]), Open(bots[b])
      PROVE  Delivered(b, bots[b], t, lock, Settled)
  <2>1. Delivered(b, bots[b], s, lock, Settled) /\ bots[b].status # "submitting"
    BY <1>1, <1>3 DEF DInv, DeliveryInv, Newest, Delivered, Served
  <2> HIDE DEF s
  <2> QED
    BY <1>1, <1>2, <2>1, Restaged
<1> QED
  BY <1>1, <1>2, <1>3, HandlerDelivers

LEMMA RegisterDelivers ==
  ASSUME IInv, DInv, NEW b \in Bots, NEW k \in DOMAIN streams[b], Register(b, k)
  PROVE  DInv'
<1> DEFINE s == streams[b][k]
           t == [s EXCEPT !.stage = "live"]
<1>1. /\ s \in Stream /\ s.stage = "sent" /\ SetStream(b, k, t)
      /\ UNCHANGED <<live, prior, lock, seq, bots, up>>
  BY StreamFacts DEF Register
<1>2. t \in Stream /\ t.stage = "live" /\ t.wire = s.wire /\ t.chan = s.chan
  BY <1>1 DEF Stream
<1> HIDE DEF t
<1>3. ASSUME k = Len(streams[b]), Open(bots[b])
      PROVE  Delivered(b, bots[b], t, lock, Settled)
  <2>1. Delivered(b, bots[b], s, lock, Settled)
    BY <1>3 DEF DInv, DeliveryInv, Newest
  <2> HIDE DEF s
  <2> QED
    BY <1>1, <1>2, <2>1, Restaged
<1> QED
  BY <1>1, <1>2, <1>3, HandlerDelivers

\* The first event of a stream.  Read between two actions it shows the board
\* the last one left.
LEMMA SendSnapshotDelivers ==
  ASSUME IInv, DInv, NEW b \in Bots, NEW k \in DOMAIN streams[b], SendSnapshot(b, k)
  PROVE  DInv'
<1> DEFINE s == streams[b][k]
<1>1. /\ s \in Stream /\ s.stage = "got" /\ Flowing(s, live.at)
      /\ live \in Board /\ UNCHANGED <<live, prior, lock, seq, bots, up>>
  BY StreamFacts DEF SendSnapshot
<1>2. PICK board \in IF lock = Nobody THEN {live} ELSE Torn :
        SetStream(b, k,
          [s EXCEPT !.stage = "sent",
                    !.wire = <<SnapshotEvent(0, board, lock # Nobody)>>])
  BY DEF SendSnapshot
<1> DEFINE ev == SnapshotEvent(0, board, lock # Nobody)
           t == [s EXCEPT !.stage = "sent", !.wire = <<ev>>]
<1>3. board \in Board
  BY <1>1, TornType DEF IInv
<1>4. /\ ev \in Event /\ ev.board = board /\ ev.seq = 0 /\ ev.kind = "snapshot"
      /\ ev.raced = (lock # Nobody) /\ (lock = Nobody => board = Settled)
  BY <1>2, <1>3, SnapshotType DEF SnapshotEvent, Settled
<1> HIDE DEF ev
<1>5. t \in Stream /\ t.stage = "sent" /\ t.wire = <<ev>> /\ t.chan = <<>>
  <2>1. s.chan = <<>>
    BY <1>1 DEF Flowing
  <2>2. <<ev>> \in Seq(Event)
    BY <1>4
  <2> HIDE DEF s
  <2> QED
    BY <1>1, <2>1, <2>2 DEF Stream
<1>6. DOMAIN t.wire = {1} /\ t.wire[1] = ev /\ Len(t.wire) = 1 /\ DOMAIN t.chan = {}
  BY <1>5
<1>7. SetStream(b, k, t)
  BY <1>2 DEF ev
<1> HIDE DEF t
<1>8. ASSUME k = Len(streams[b]), Open(bots[b])
      PROVE  Delivered(b, bots[b], t, lock, Settled)
  <2>1. Delivered(b, bots[b], s, lock, Settled)
    BY <1>8 DEF DInv, DeliveryInv, Newest
  <2>2. bots[b].status = "draining" /\ bots[b].lastSeq = 0
    BY <1>1, <1>8, <2>1 DEF Delivered, Informed, Served, Numbered, Open
  <2>3. Informed(bots[b], t, Settled)
    BY <1>4, <1>5, <1>6, <2>2 DEF Informed, Numbered
  <2>4. RaceFirst(bots[b], t)
    BY <1>4, <1>6, <2>2 DEF RaceFirst
  <2>5. Honest(bots[b], t) => TurnLast(b, t, lock, Settled)
    BY <1>4, <1>5, <1>6 DEF Honest, TurnLast
  <2> QED
    BY <1>5, <2>2, <2>3, <2>4, <2>5 DEF Delivered, Served, ActsOnNow
<1> QED
  BY <1>1, <1>5, <1>7, <1>8, HandlerDelivers

\* The head of the channel is the next event of the connection.
LEMMA ForwardDelivers ==
  ASSUME IInv, DInv, NEW b \in Bots, NEW k \in DOMAIN streams[b], Forward(b, k)
  PROVE  DInv'
<1> DEFINE s == streams[b][k]
           ev == Head(s.chan)
           chan == Tail(s.chan)
           wire == Append(s.wire, ev)
           t == [s EXCEPT !.chan = chan, !.wire = wire]
<1>1. /\ s \in Stream /\ s.stage = "live" /\ s.wire \in Seq(Event)
      /\ s.chan \in Seq(Event) /\ s.chan # <<>>
      /\ SetStream(b, k, t) /\ UNCHANGED <<live, prior, lock, seq, bots, up>>
  BY StreamFacts DEF Forward
<1>2. /\ ev \in Event /\ ev = s.chan[1] /\ 1 \in DOMAIN s.chan
      /\ Len(s.chan) \in Nat /\ chan \in Seq(Event) /\ Len(chan) = Len(s.chan) - 1
      /\ (chan = <<>>) <=> (Len(s.chan) = 1)
      /\ \A i \in DOMAIN chan :
           i \in Nat /\ i + 1 \in DOMAIN s.chan /\ chan[i] = s.chan[i + 1]
      /\ chan # <<>> => chan[Len(chan)] = s.chan[Len(s.chan)]
  BY <1>1, TailAt
<1> HIDE DEF ev
<1>9. s.wire \in Seq(Event) /\ ev \in Event
  BY <1>1, <1>2
<1>3. /\ wire \in Seq(Event) /\ wire # <<>> /\ Len(wire) = Len(s.wire) + 1
      /\ wire[Len(s.wire) + 1] = ev /\ Len(s.wire) \in Nat
      /\ \A i \in DOMAIN wire :
           \/ i \in DOMAIN s.wire /\ wire[i] = s.wire[i]
           \/ i = Len(s.wire) + 1 /\ wire[i] = ev
      /\ \A i \in DOMAIN s.wire : i \in DOMAIN wire /\ wire[i] = s.wire[i]
  <2> HIDE DEF s
  <2> QED
    BY <1>9, AppendAt
<1> HIDE DEF ev, chan, wire
<1>4. /\ t \in Stream /\ t.stage = "live" /\ t.wire = wire /\ t.chan = chan
      /\ t.full = s.full
  <2> HIDE DEF s
  <2> QED
    BY <1>1, <1>2, <1>3 DEF Stream
<1> HIDE DEF t
<1>5. ASSUME k = Len(streams[b]), Open(bots[b])
      PROVE  Delivered(b, bots[b], t, lock, Settled)
  <2> DEFINE r == bots[b]
  <2>1. Delivered(b, r, s, lock, Settled)
    BY <1>5 DEF DInv, DeliveryInv, Newest
  <2> HIDE DEF s, r
  <2>2. LastBoard(r, t) = LastBoard(r, s)
    BY <1>1, <1>2, <1>3, <1>4 DEF LastBoard
  <2>3. Informed(r, t, Settled)
    BY <1>1, <1>4, <2>1, <2>2 DEF Delivered, Informed, Numbered
  <2>4. RaceFirst(r, t)
    <3>1. RaceFirst(r, s)
      BY <2>1 DEF Delivered, Served
    <3>2. ~ev.raced
      BY <1>2, <3>1 DEF RaceFirst
    <3>3. \A i \in DOMAIN chan : ~chan[i].raced
      BY <1>2, <3>1 DEF RaceFirst
    <3>4. ASSUME NEW i \in DOMAIN wire, wire[i].raced
          PROVE  i = 1 /\ wire[i].kind = "snapshot" /\ r.status = "draining"
      BY <1>3, <3>1, <3>2, <3>4 DEF RaceFirst
    <3> QED
      BY <1>4, <3>3, <3>4 DEF RaceFirst
  <2>5. ASSUME Honest(r, t)
        PROVE  TurnLast(b, t, lock, Settled) /\ ActsOnNow(b, r, t, lock, Settled)
    <3>1. Honest(r, s)
      BY <1>3, <1>4, <2>5 DEF Honest
    <3>2. TurnLast(b, s, lock, Settled) /\ ActsOnNow(b, r, s, lock, Settled)
      BY <2>1, <3>1 DEF Delivered, Served
    <3>3. ActsOnNow(b, r, t, lock, Settled)
      BY <1>1, <3>2 DEF ActsOnNow
    <3>4. ASSUME NEW i \in DOMAIN t.chan, Picks(b, t.chan[i].board) # {}
          PROVE  lock = Nobody /\ t.chan[i].board = Settled /\ i = Len(t.chan)
      <4>1. i \in DOMAIN chan /\ i \in Nat /\ i + 1 \in DOMAIN s.chan /\ t.chan[i] = s.chan[i + 1]
        BY <1>2, <1>4, <3>4
      <4>2. lock = Nobody /\ s.chan[i + 1].board = Settled /\ i + 1 = Len(s.chan)
        BY <3>2, <3>4, <4>1 DEF TurnLast
      <4> QED
        BY <1>2, <1>4, <4>1, <4>2
    <3>5. ASSUME NEW i \in DOMAIN t.wire, Picks(b, t.wire[i].board) # {}
          PROVE  lock = Nobody /\ t.wire[i].board = Settled /\ i = Len(t.wire) /\ t.chan = <<>>
      BY <1>1, <1>2, <1>3, <1>4, <3>2, <3>5 DEF TurnLast
    <3> QED
      BY <3>3, <3>4, <3>5 DEF TurnLast
  <2> QED
    BY <1>4, <2>1, <2>3, <2>4, <2>5 DEF Delivered, Served, r
<1> QED
  BY <1>1, <1>4, <1>5, HandlerDelivers

\* Only a stream nobody reads any more is given up.
LEMMA UnregisterDelivers ==
  ASSUME IInv, DInv, NEW b \in Bots, NEW k \in DOMAIN streams[b], Unregister(b, k)
  PROVE  DInv'
<1> DEFINE t == [stage |-> "gone", chan |-> <<>>, wire |-> <<>>, full |-> FALSE]
<1>1. SetStream(b, k, t) /\ UNCHANGED <<live, prior, lock, seq, bots, up>>
  BY DEF Unregister
<1>2. t \in Stream
  BY DEF Stream
<1>3. ~(k = Len(streams[b]) /\ Open(bots[b]))
  BY DEF Unregister, Closed, Open
<1> HIDE DEF t
<1> QED
  BY <1>1, <1>2, <1>3, HandlerDelivers

-----------------------------------------------------------------------------
(* The steps of a bot.                                                     *)

\* Bot b changes, and its newest stream with it; the game does not.
LEMMA BotDelivers ==
  ASSUME DInv, NEW b \in Bots, NEW r,
         bots \in [Bots -> Bot], SetBot(b, r), UNCHANGED <<live, prior, lock, up>>,
         \A c \in Bots : c # b => streams'[c] = streams[c],
         r.status = "subscribing" => r.lastSeq = 0,
         up /\ r.status = "failed" /\ ~r.raced => Stands(b, r, live),
         Open(r) => Delivered(b, r, Newest(b)', lock, Settled)
  PROVE  DInv'
<1>1. Settled' = Settled
  BY DEF Settled
<1>2. bots'[b] = r /\ \A c \in Bots : c # b => bots'[c] = bots[c]
  BY DEF SetBot
<1>3. \A c \in Bots : c # b => Newest(c)' = Newest(c)
  BY DEF Newest
<1>4. ASSUME NEW c \in Bots
      PROVE  /\ bots'[c].status = "subscribing" => bots'[c].lastSeq = 0
             /\ Open(bots'[c]) => Delivered(c, bots'[c], Newest(c)', lock', Settled')
             /\ up' /\ bots'[c].status = "failed" /\ ~bots'[c].raced =>
                  Stands(c, bots'[c], live')
  <2>1. CASE c = b
    BY <1>1, <1>2, <2>1
  <2>2. CASE c # b
    BY <1>1, <1>2, <1>3, <2>2 DEF DInv, DeliveryInv, RefusedInv
  <2> QED
    BY <2>1, <2>2
<1> QED
  BY <1>4 DEF DInv, DeliveryInv, RefusedInv

LEMMA SubscribeDelivers ==
  ASSUME IInv, DInv, NEW b \in Bots, Subscribe(b)
  PROVE  DInv'
<1> DEFINE new == [stage |-> "opened", chan |-> <<>>, wire |-> <<>>, full |-> FALSE]
           r == [bots[b] EXCEPT !.status = "draining"]
           list == Append(streams[b], new)
<1>1. /\ bots \in [Bots -> Bot] /\ bots[b] \in Bot /\ streams[b] \in Seq(Stream)
      /\ streams' = [streams EXCEPT ![b] = list] /\ streams \in [Bots -> Seq(Stream)]
      /\ SetBot(b, r) /\ UNCHANGED <<live, prior, lock, up>>
      /\ bots[b].status = "subscribing"
  BY DEF IInv, TypeOK, Subscribe
<1>2. r.status = "draining" /\ r.lastSeq = 0
  BY <1>1 DEF DInv, DeliveryInv, Bot
<1>3. new \in Stream
  BY DEF Stream
<1>4. list[Len(list)] = new
  BY <1>1, <1>3
<1>5. Newest(b)' = new /\ \A c \in Bots : c # b => streams'[c] = streams[c]
  BY <1>1, <1>4 DEF Newest
<1>6. new.wire = <<>> /\ new.chan = <<>> /\ new.stage = "opened"
  OBVIOUS
<1> HIDE DEF new, r, list
<1>7. Delivered(b, r, new, lock, Settled)
  <2>1. ~Numbered(r, new)
    BY <1>2, <1>6 DEF Numbered
  <2> QED
    BY <1>2, <1>6, <2>1
       DEF Delivered, Informed, Served, RaceFirst, TurnLast, ActsOnNow
<1> QED
  BY <1>1, <1>2, <1>5, <1>7, BotDelivers

\* What a bot that goes on reading has made of an event.
LEMMA DriveOn ==
  ASSUME NEW b \in Bots, NEW r \in Bot, r.status = "draining",
         NEW ev \in Event, NEW x \in Drive(b, r, ev)
  PROVE  /\ x.status = "subscribing" => x.lastSeq = 0
         /\ x.status # "failed"
         /\ Open(x) => /\ x.view = ev.board /\ x.lastSeq = ev.seq
                       /\ x.raced = (r.raced \/ ev.raced) /\ ~ev.board.ended
                       /\ x.status = "submitting" => x.pick \in Picks(b, ev.board)
<1> DEFINE s == Reduce(r, ev)
<1>1. /\ s \in Bot /\ s.status = "draining" /\ s.lastSeq = ev.seq
      /\ ev.kind # "ended" => s.view = ev.board /\ s.raced = (r.raced \/ ev.raced)
  <2>1. CASE ev.kind = "ended"
    BY <2>1 DEF Reduce, Bot, Event
  <2>2. CASE ev.kind # "ended"
    <3> DEFINE t == [r EXCEPT !.lastSeq = ev.seq, !.view = ev.board]
    <3>1. /\ t \in Bot /\ t.view = ev.board /\ t.lastSeq = ev.seq
          /\ t.status = "draining" /\ t.raced = r.raced /\ (t.raced \/ ev.raced) \in BOOLEAN
      BY DEF Bot, Event
    <3>2. s = [t EXCEPT !.raced = t.raced \/ ev.raced]
      BY <2>2 DEF Reduce, Bot, Event
    <3> HIDE DEF s, t
    <3> QED
      BY <2>2, <3>1, <3>2 DEF Bot
  <2> QED
    BY <2>1, <2>2
<1> HIDE DEF s
<1>2. CASE Gap(r, ev)
  <2>1. x = [r EXCEPT !.status = "subscribing", !.lastSeq = 0]
    BY <1>2 DEF Drive
  <2> QED
    BY <2>1 DEF Bot, Open
<1>3. CASE ~Gap(r, ev) /\ (ev.kind = "ended" \/ s.view.ended)
  <2>1. x = [s EXCEPT !.status = "done"]
    BY <1>3 DEF Drive, s
  <2> QED
    BY <1>1, <2>1 DEF Bot, Open
<1>4. CASE ~Gap(r, ev) /\ ev.kind # "ended" /\ ~s.view.ended
  <2>1. s.view = ev.board /\ s.raced = (r.raced \/ ev.raced)
    BY <1>1, <1>4
  <2>2. \/ x = s
        \/ \E p \in Picks(b, s.view) : x = [s EXCEPT !.status = "submitting", !.pick = p]
    BY <1>4 DEF Drive, s
  <2>3. CASE x = s
    BY <1>1, <1>4, <2>1, <2>3
  <2>4. CASE \E p \in Picks(b, s.view) : x = [s EXCEPT !.status = "submitting", !.pick = p]
    <3>1. PICK p \in Picks(b, ev.board) : x = [s EXCEPT !.status = "submitting", !.pick = p]
      BY <2>1, <2>4
    <3> QED
      BY <1>1, <1>4, <2>1, <3>1 DEF Bot
  <2> QED
    BY <2>2, <2>3, <2>4
<1> QED
  BY <1>2, <1>3, <1>4

LEMMA ReceiveDelivers ==
  ASSUME IInv, DInv, NEW b \in Bots, Receive(b), UNCHANGED up
  PROVE  DInv'
<1> DEFINE k == Len(streams[b])
           s == streams[b][k]
           ev == Head(s.wire)
           r == bots[b]
<1>1. /\ bots \in [Bots -> Bot] /\ streams \in [Bots -> Seq(Stream)] /\ r \in Bot
      /\ streams[b] \in Seq(Stream) /\ k \in DOMAIN streams[b]
      /\ r.status = "draining" /\ Open(r) /\ s \in Stream /\ s = Newest(b)
      /\ s.wire \in Seq(Event) /\ s.chan \in Seq(Event) /\ Flowing(s, live.at)
      /\ s.wire # <<>> /\ UNCHANGED <<live, prior, lock, up>>
  <2>1. Open(r) /\ r.status = "draining" /\ s.wire # <<>>
    BY DEF Receive, Open
  <2> QED
    BY <2>1, NewestFacts DEF Receive, Newest, IInv, TypeOK
<1>2. PICK x \in Drive(b, r, ev) :
        /\ SetBot(b, x)
        /\ SetStream(b, k, [s EXCEPT !.wire =
             IF x.status \in {"draining", "submitting"} THEN Tail(s.wire) ELSE <<>>])
  BY DEF Receive
<1> DEFINE t == [s EXCEPT !.wire = IF Open(x) THEN Tail(s.wire) ELSE <<>>]
<1>3. Newest(b)' = t /\ \A c \in Bots : c # b => streams'[c] = streams[c]
  <2>1. SetStream(b, k, t)
    BY <1>2 DEF Open
  <2>2. streams' = [streams EXCEPT ![b] = [streams[b] EXCEPT ![k] = t]]
    BY <2>1 DEF SetStream
  <2> HIDE DEF t
  <2>3. streams'[b] = [streams[b] EXCEPT ![k] = t] /\ Len(streams'[b]) = k
    BY <1>1, <2>2
  <2> QED
    BY <1>1, <2>2, <2>3 DEF Newest
<1>4. Delivered(b, r, s, lock, Settled)
  BY <1>1 DEF DInv, DeliveryInv
<1>5. SetBot(b, x)
  BY <1>2
<1> HIDE DEF s, r
<1>6. /\ ev \in Event /\ ev = s.wire[1] /\ 1 \in DOMAIN s.wire
      /\ Len(s.wire) \in Nat /\ Tail(s.wire) \in Seq(Event)
      /\ Len(Tail(s.wire)) = Len(s.wire) - 1
      /\ (Tail(s.wire) = <<>>) <=> (Len(s.wire) = 1)
      /\ \A i \in DOMAIN Tail(s.wire) :
           i \in Nat /\ i + 1 \in DOMAIN s.wire /\ Tail(s.wire)[i] = s.wire[i + 1]
      /\ Tail(s.wire) # <<>> => Tail(s.wire)[Len(Tail(s.wire))] = s.wire[Len(s.wire)]
  BY <1>1, TailAt
<1> HIDE DEF ev
<1>7. /\ x.status = "subscribing" => x.lastSeq = 0
      /\ x.status # "failed"
      /\ Open(x) => /\ x.view = ev.board /\ x.lastSeq = ev.seq
                    /\ x.raced = (r.raced \/ ev.raced) /\ ~ev.board.ended
                    /\ x.status = "submitting" => x.pick \in Picks(b, ev.board)
  BY <1>1, <1>2, <1>6, DriveOn
<1>8. ASSUME Open(x) PROVE Delivered(b, x, t, lock, Settled)
  <2> DEFINE wire == Tail(s.wire)
  <2>1. /\ t.wire = wire /\ t.chan = s.chan /\ t.stage = s.stage /\ t.full = s.full
    BY <1>1, <1>8 DEF Stream
  <2> HIDE DEF t
  <2>2. Numbered(x, t) => Numbered(r, s)
    BY <1>6, <1>7, <1>8, <2>1 DEF Numbered
  <2>3. LastBoard(x, t) = LastBoard(r, s)
    BY <1>1, <1>6, <1>7, <1>8, <2>1 DEF LastBoard
  <2>4. Informed(x, t, Settled)
    BY <1>4, <2>1, <2>2, <2>3 DEF Delivered, Informed
  <2>5. RaceFirst(r, s) /\ s.stage # "gone"
    BY <1>4 DEF Delivered, Served
  <2>6. t.stage \in {"sent", "live"}
    BY <1>1, <2>1, <2>5 DEF Stream, Flowing
  <2>7. \A i \in DOMAIN wire : ~wire[i].raced
    <3> SUFFICES ASSUME NEW i \in DOMAIN wire, wire[i].raced PROVE FALSE
      OBVIOUS
    <3>1. i \in Nat /\ i + 1 = 1 /\ i # 0
      BY <1>1, <1>6, <2>5 DEF RaceFirst
    <3> QED
      BY <3>1
  <2>8. RaceFirst(x, t)
    BY <2>1, <2>5, <2>7 DEF RaceFirst
  <2>9. ASSUME Honest(x, t)
        PROVE  TurnLast(b, t, lock, Settled) /\ ActsOnNow(b, x, t, lock, Settled)
    <3>1. ~r.raced /\ ~ev.raced
      BY <1>7, <1>8, <2>9 DEF Honest
    <3>2. Honest(r, s)
      BY <1>6, <2>5, <3>1 DEF Honest, RaceFirst
    <3>3. TurnLast(b, s, lock, Settled)
      BY <1>4, <3>2 DEF Delivered, Served
    <3>4. ASSUME NEW i \in DOMAIN wire, Picks(b, wire[i].board) # {}
          PROVE  /\ lock = Nobody /\ wire[i].board = Settled /\ i = Len(wire)
                 /\ s.chan = <<>>
      <4>1. /\ i \in Nat /\ lock = Nobody /\ wire[i].board = Settled
            /\ i + 1 = Len(s.wire) /\ s.chan = <<>>
        BY <1>6, <3>3, <3>4 DEF TurnLast
      <4> QED
        BY <1>6, <4>1
    <3>5. TurnLast(b, t, lock, Settled)
      BY <2>1, <3>3, <3>4 DEF TurnLast
    <3>6. ASSUME x.status = "submitting"
          PROVE  /\ wire = <<>> /\ s.chan = <<>> /\ lock = Nobody /\ x.view = Settled
                 /\ ~Settled.ended /\ x.pick \in Picks(b, Settled)
      <4>1. /\ Picks(b, ev.board) # {} /\ x.pick \in Picks(b, ev.board)
            /\ x.view = ev.board /\ ~ev.board.ended
        BY <1>7, <1>8, <3>6
      <4>2. lock = Nobody /\ ev.board = Settled /\ 1 = Len(s.wire) /\ s.chan = <<>>
        BY <1>6, <3>3, <4>1 DEF TurnLast
      <4> QED
        BY <1>6, <4>1, <4>2
    <3> QED
      BY <2>1, <3>5, <3>6 DEF ActsOnNow
  <2> QED
    BY <2>1, <2>4, <2>5, <2>6, <2>8, <2>9 DEF Delivered, Served
<1> HIDE DEF t
<1> QED
  BY <1>1, <1>3, <1>5, <1>7, <1>8, BotDelivers

\* The bot gives up.
LEMMA GiveUpDelivers ==
  ASSUME IInv, DInv, NEW b \in Bots, UNCHANGED <<live, prior, lock, streams, up>>,
         SetBot(b, [bots[b] EXCEPT !.status = "failed"]),
         up /\ ~bots[b].raced => Stands(b, bots[b], live)
  PROVE  DInv'
<1> DEFINE r == [bots[b] EXCEPT !.status = "failed"]
<1>1. bots \in [Bots -> Bot] /\ bots[b] \in Bot
  BY DEF IInv, TypeOK
<1>2. /\ r.status = "failed" /\ r.raced = bots[b].raced /\ ~Open(r)
      /\ r.pick = bots[b].pick /\ r.view = bots[b].view
  BY <1>1 DEF Bot, Open
<1> HIDE DEF r
<1>3. up /\ ~r.raced => Stands(b, r, live)
  BY <1>2 DEF Stands
<1> QED
  BY <1>1, <1>2, <1>3, BotDelivers DEF r

-----------------------------------------------------------------------------
(* The steps of a submission.                                              *)

\* A board is one bot's to act on.
LEMMA OneActor ==
  ASSUME NEW g, NEW b \in Bots, NEW c \in Bots,
         Accepted(g, b) # {}, Picks(c, g) # {}
  PROVE  c = b
BY DEF Accepted, Picks

\* What a bot picks on the game's board is accepted, unless it is a purchase
\* without a look at the pile.
LEMMA PickStands ==
  ASSUME NEW b \in Bots, ~live.ended, bots[b].view = live,
         bots[b].pick \in Picks(b, live), MayReject(live, b)
  PROVE  Stands(b, bots[b], live)
<1>1. Moves(live) # {} /\ Answered(live) # {} /\ Ended(live) # {}
  BY DEF Moves, Answered, Ended
<1>2. Accepted(live, b) # {}
  BY <1>1 DEF Accepted, Picks
<1> QED
  BY <1>2 DEF MayReject, Stands

LEMMA SubmitDelivers ==
  ASSUME IInv, DInv, NEW b \in Bots, SubmitAction(b)
  PROVE  DInv'
<1>1. /\ lock = Nobody /\ bots[b].status = "submitting" /\ Accepted(live, b) # {}
      /\ prior' = live /\ lock' = b /\ UNCHANGED <<streams, bots, up>>
  BY DEF SubmitAction
<1>2. Settled = live /\ Settled' = live
  BY <1>1 DEF Settled, Bots, Nobody
<1>3. ASSUME NEW c \in Bots, Open(bots[c])
      PROVE  Delivered(c, bots[c], Newest(c), b, live)
  <2> DEFINE r == bots[c]
             s == Newest(c)
  <2>1. Delivered(c, r, s, Nobody, live)
    BY <1>1, <1>2, <1>3 DEF DInv, DeliveryInv
  <2>2. ASSUME Honest(r, s), Picks(c, live) # {}
        PROVE  r.status = "submitting" /\ DOMAIN s.chan = {} /\ DOMAIN s.wire = {}
    <3>1. c = b
      BY <1>1, <2>2, OneActor
    <3>2. r.status = "submitting"
      BY <1>1, <3>1
    <3> HIDE DEF r, s
    <3> QED
      BY <2>1, <2>2, <3>2 DEF Delivered, Served, ActsOnNow
  <2>3. Honest(r, s) => TurnLast(c, s, b, live)
    <3> HIDE DEF r, s
    <3> QED
      BY <2>1, <2>2 DEF Delivered, Served, TurnLast
  <2>4. Honest(r, s) => ActsOnNow(c, r, s, b, live)
    <3>1. Picks(c, live) # {} => c = b
      BY <1>1, OneActor
    <3> HIDE DEF r, s
    <3> QED
      BY <2>1, <3>1 DEF Delivered, Served, ActsOnNow
  <2> HIDE DEF r, s
  <2>5. Delivered(c, r, s, b, live)
    BY <2>1, <2>3, <2>4 DEF Delivered, Served
  <2> QED
    BY <2>5 DEF r, s
<1>4. \A c \in Bots : Newest(c)' = Newest(c)
  BY <1>1 DEF Newest
<1>5. ASSUME NEW c \in Bots, up, bots[c].status = "failed", ~bots[c].raced PROVE FALSE
  <2>1. Picks(c, live) # {} /\ c # b
    BY <1>1, <1>5 DEF DInv, RefusedInv, Stands
  <2> QED
    BY <1>1, <2>1, OneActor
<1>6. RefusedInv'
  BY <1>1, <1>5 DEF RefusedInv
<1> QED
  BY <1>1, <1>2, <1>3, <1>4, <1>6 DEF DInv, DeliveryInv

LEMMA RejectedDelivers ==
  ASSUME IInv, DInv, NEW b \in Bots, SubmitRejected(b)
  PROVE  DInv'
<1>1. /\ lock = Nobody /\ bots[b].status = "submitting" /\ MayReject(live, b)
      /\ SetBot(b, [bots[b] EXCEPT !.status = "failed"])
      /\ UNCHANGED <<live, prior, lock, streams, up>>
  BY DEF SubmitRejected
<1>2. Open(bots[b]) /\ Delivered(b, bots[b], Newest(b), Nobody, live)
  BY <1>1 DEF DInv, DeliveryInv, Open, Settled
<1>3. ASSUME ~bots[b].raced PROVE Stands(b, bots[b], live)
  <2>1. Honest(bots[b], Newest(b))
    BY <1>1, <1>2, <1>3 DEF Delivered, Served, RaceFirst, Honest
  <2>2. ~live.ended /\ bots[b].view = live /\ bots[b].pick \in Picks(b, live)
    BY <1>1, <1>2, <2>1 DEF Delivered, Served, ActsOnNow
  <2> QED
    BY <1>1, <2>2, PickStands
<1> QED
  BY <1>1, <1>3, GiveUpDelivers

\* The one event of an action is the last on every registered stream, or finds
\* its channel full.
LEMMA OfferDelivers ==
  ASSUME NEW b \in Bots, NEW c \in Bots, NEW r, NEW q, NEW s \in Stream,
         NEW now, NEW was, NEW ev \in Event, ev.board = now, ~ev.raced,
         Delivered(c, r, s, b, was),
         q.raced = r.raced, q.lastSeq = r.lastSeq,
         q.status = IF c = b THEN "draining" ELSE r.status
  PROVE  Delivered(c, q, Offer(s, ev), Nobody, now)
<1> DEFINE t == Offer(s, ev)
           chan == Append(s.chan, ev)
<1>1. s.chan \in Seq(Event) /\ s.wire \in Seq(Event) /\ b # Nobody
  BY DEF Stream, Bots, Nobody
<1>2. /\ chan \in Seq(Event) /\ chan # <<>> /\ Len(chan) = Len(s.chan) + 1
      /\ chan[Len(s.chan) + 1] = ev
      /\ \A i \in DOMAIN chan :
           \/ i \in DOMAIN s.chan /\ chan[i] = s.chan[i]
           \/ i = Len(s.chan) + 1 /\ chan[i] = ev
  BY <1>1, AppendAt
<1> HIDE DEF chan
<1>3. \/ s.stage # "live" /\ t = s
      \/ s.stage = "live" /\ t = [s EXCEPT !.chan = chan, !.full = FALSE]
      \/ s.stage = "live" /\ t = [s EXCEPT !.full = TRUE]
  BY DEF Offer, chan
<1>4. /\ t.stage = s.stage /\ t.wire = s.wire
      /\ \/ t.chan = s.chan /\ (s.stage # "live" \/ t.full)
         \/ t.chan = chan /\ s.stage = "live"
  BY <1>3 DEF Stream
<1> HIDE DEF t
<1>5. Informed(q, t, now)
  BY <1>2, <1>4 DEF Delivered, Informed, Numbered, LastBoard
<1>6. RaceFirst(q, t)
  BY <1>2, <1>4 DEF Delivered, Served, RaceFirst
<1>7. ASSUME Honest(q, t)
      PROVE  TurnLast(c, t, Nobody, now) /\ ActsOnNow(c, q, t, Nobody, now)
  <2>1. TurnLast(c, s, b, was) /\ ActsOnNow(c, r, s, b, was)
    BY <1>4, <1>7 DEF Honest, Delivered, Served
  <2>2. /\ \A i \in DOMAIN s.chan : Picks(c, s.chan[i].board) = {}
        /\ \A i \in DOMAIN s.wire : Picks(c, s.wire[i].board) = {}
    BY <1>1, <2>1 DEF TurnLast
  <2>3. TurnLast(c, t, Nobody, now)
    BY <1>2, <1>4, <2>2 DEF TurnLast
  <2>4. q.status # "submitting"
    BY <1>1, <2>1 DEF ActsOnNow
  <2> QED
    BY <2>3, <2>4 DEF ActsOnNow
<1> QED
  BY <1>4, <1>5, <1>6, <1>7 DEF Delivered, Served, t

LEMMA FanOutDelivers ==
  ASSUME IInv, DInv, NEW b \in Bots, FanOut(b)
  PROVE  DInv'
<1> DEFINE ev == EventFor(seq + 1)
           r == [bots[b] EXCEPT !.status = "draining", !.pick = "none"]
<1>1. /\ up /\ lock = b /\ lock' = Nobody /\ UNCHANGED <<live, up>>
      /\ streams' = [c \in Bots |-> [k \in DOMAIN streams[c] |-> Offer(streams[c][k], ev)]]
      /\ bots' = [bots EXCEPT ![b] = r] /\ seq + 1 \in Nat
      /\ bots \in [Bots -> Bot] /\ bots[b] \in Bot
  BY DEF FanOut, SetBot, IInv, TypeOK
<1>2. ev \in Event /\ ev.board = live /\ ~ev.raced
  BY <1>1, EventForType DEF IInv, EventFor, SnapshotEvent
<1> HIDE DEF ev
<1>3. r.status = "draining" /\ r.raced = bots[b].raced /\ r.lastSeq = bots[b].lastSeq
  BY <1>1 DEF Bot
<1> HIDE DEF r
<1>4. bots[b].status = "submitting"
  BY <1>1 DEF IInv, HolderWaits, Bots, Nobody
<1>5. Settled' = live
  BY <1>1 DEF Settled
<1>6. ASSUME NEW c \in Bots
      PROVE  /\ bots'[c].raced = bots[c].raced /\ bots'[c].lastSeq = bots[c].lastSeq
             /\ bots'[c].status = IF c = b THEN "draining" ELSE bots[c].status
  BY <1>1, <1>3
<1>7. ASSUME NEW c \in Bots, Open(bots'[c])
      PROVE  Delivered(c, bots'[c], Newest(c)', Nobody, live)
  <2>1. Open(bots[c])
    BY <1>4, <1>6, <1>7 DEF Open
  <2>2. /\ streams[c] \in Seq(Stream) /\ Len(streams[c]) \in DOMAIN streams[c]
        /\ Newest(c) \in Stream
    BY <2>1, NewestFacts
  <2>3. Newest(c)' = Offer(Newest(c), ev)
    <3>1. streams'[c] = [k \in DOMAIN streams[c] |-> Offer(streams[c][k], ev)]
      BY <1>1
    <3>2. Len(streams'[c]) = Len(streams[c])
      BY <2>2, <3>1
    <3> QED
      BY <2>2, <3>1, <3>2 DEF Newest
  <2>4. Delivered(c, bots[c], Newest(c), b, Settled)
    BY <1>1, <2>1 DEF DInv, DeliveryInv
  <2> QED
    BY <1>2, <1>6, <2>2, <2>3, <2>4, OfferDelivers
<1>8. DeliveryInv'
  <2>1. \A c \in Bots : bots'[c].status = "subscribing" => bots'[c].lastSeq = 0
    BY <1>6 DEF DInv, DeliveryInv
  <2> QED
    BY <1>1, <1>5, <1>7, <2>1 DEF DeliveryInv
<1>9. RefusedInv'
  <2>1. \A c \in Bots : bots'[c].status = "failed" => bots'[c] = bots[c]
    BY <1>1, <1>6, <1>3
  <2> QED
    BY <1>1, <2>1 DEF DInv, RefusedInv
<1> QED
  BY <1>8, <1>9 DEF DInv

-----------------------------------------------------------------------------
(* The theorems.                                                           *)

LEMMA DeliveryStep ==
  ASSUME IInv, DInv, [Next]_vars
  PROVE  DInv'
<1>1. CASE UNCHANGED vars
  BY <1>1 DEF vars, DInv, DeliveryInv, RefusedInv, Newest, Settled
<1>2. ASSUME NEW b \in Bots, Submitting(b) PROVE DInv'
  BY <1>2, SubmitDelivers, RejectedDelivers, FanOutDelivers DEF Submitting
<1>3. ASSUME NEW b \in Bots, Running(b) PROVE DInv'
  <2>1. CASE ConnectionLost(b)
    BY <2>1, GiveUpDelivers DEF ConnectionLost
  <2>2. CASE Receive(b)
    BY <2>2, ReceiveDelivers DEF Receive
  <2> QED
    BY <1>3, <2>1, <2>2, SubscribeDelivers DEF Running
<1>4. ASSUME NEW b \in Bots, NEW k \in DOMAIN streams[b], Handling(b, k) PROVE DInv'
  BY <1>4, GetGameDelivers, SendSnapshotDelivers, RegisterDelivers, ForwardDelivers,
     UnregisterDelivers DEF Handling
<1>5. ASSUME NEW b \in Bots, NEW k \in DOMAIN streams[b], Crash(b, k) PROVE DInv'
  BY <1>5 DEF Crash, DInv, DeliveryInv, RefusedInv, Newest, Settled
<1> QED
  BY <1>1, <1>2, <1>3, <1>4, <1>5 DEF Next

\* The inductive invariant: what is still on its way to a bot, and where a bot that
\* was refused without a race stands.
THEOREM DeliveryInvariant == Spec => []DInv
<1>1. Init => DInv
  BY DEF Init, DInv, DeliveryInv, RefusedInv, Open
<1>2. IInv /\ DInv /\ [Next]_vars => DInv'
  BY DeliveryStep
<1> QED
  BY <1>1, <1>2, FeedsInOrder, PTL DEF Spec

\* However small the channels and the windows, a reader past its first numbered
\* event is left on an old board in one way only, which the numbers can never
\* tell it: the newest event found its channel full.
THEOREM SilenceNeedsAFullChannel == Spec => []SilentOnlyAtFull
<1>1. DInv => SilentOnlyAtFull
  <2> SUFFICES ASSUME DInv, NEW b \in Bots, Behind(b), bots[b].lastSeq # 0
               PROVE  Newest(b).full
    BY DEF SilentOnlyAtFull, Newest
  <2>1. /\ lock = Nobody /\ Open(bots[b]) /\ bots[b].view # live
        /\ Newest(b).chan = <<>> /\ Newest(b).wire = <<>>
    BY DEF Behind, Open, Newest
  <2>2. Informed(bots[b], Newest(b), live)
    BY <2>1 DEF DInv, DeliveryInv, Delivered, Settled
  <2> QED
    BY <2>1, <2>2 DEF Informed, Numbered, LastBoard
<1> QED
  BY <1>1, DeliveryInvariant, PTL

\* A bot acts once on every board on which it has to, and its choice stands: while
\* the server lives, one that was never shown a board read during an action is
\* rejected only at a pile it has not looked at, on the board the game is at.
THEOREM ChoicesStand == Spec => []RejectedOnTheBoard
<1>1. DInv => RejectedOnTheBoard
  BY DEF DInv, RefusedInv, Stands, RejectedOnTheBoard
<1> QED
  BY <1>1, DeliveryInvariant, PTL
=============================================================================
