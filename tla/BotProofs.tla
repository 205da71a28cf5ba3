------------------------------ MODULE BotProofs ------------------------------
(***************************************************************************)
(* The games of two bots, for every pairing of the strategies and every    *)
(* kingdom: that the engine turns a bot away in one case only, that what a *)
(* bot notes stays true, and that such a game is a game of the engine.     *)
(***************************************************************************)
EXTENDS AnswerProofs, BotGame

\* The actions a strategy plays, and those of them that ask their player.
Plays(name) ==
  CASE name = "throneroom_bm" -> {"throne_room", "witch"}
    [] name \in {"bigmoney", "gardens_bm"} -> {}
    [] OTHER -> {Signature[name]}

AsksPlayer == {"chapel", "remodel", "library", "sentry", "throne_room"}

(***************************************************************************)
(* The inductive invariant.  A bot has rules for few prompts, so what      *)
(* keeps its answers legal is that nothing but the cards it plays itself   *)
(* asks it, and a Militia; what keeps the Remodel's second answer legal is *)
(* that the game is not over yet, so that one of three cheap piles is left.*)
(***************************************************************************)

\* The prompt of game g in the turn of a bot of the name given.
Expected(g, name) ==
  LET d == g.decision
      p == g.current
  IN  \/ /\ d.player = p /\ d.card \in Plays(name) \cap AsksPlayer
         /\ d.card = "remodel" =>
              IF d.step = 0 THEN g.players[p].inPlay["remodel"] > 0 ELSE d.limit >= 2
      \/ d.player = Opponent(p) /\ d.card = "militia" /\ name = "militia_bm"

\* What is asked and what is owed comes from the cards the bot plays.
Familiar(g, name) ==
  /\ g.decision # NoDecision => Expected(g, name)
  /\ \A i \in DOMAIN g.pendingPlays :
       g.pendingPlays[i].card \in {"throne_room", "witch"}
  /\ g.pendingPlays # <<>> => name = "throneroom_bm"

\* A Remodel is played with the one Action of a turn, and resolved, before
\* anything is gained in it.
RemodelInTime(g, name) ==
  LET left == g.players[g.current].actions
  IN  name = "remodel_bm" /\ ~g.ended =>
        /\ g.decision # NoDecision => left = 0 /\ ~IsGameOver(g)
        /\ g.decision = NoDecision /\ g.phase = "action" /\ left > 0 =>
             left = 1 /\ ~IsGameOver(g)

\* Turns are counted as the engine counts them.
ClockAgrees(b, p, g) ==
  ~g.ended =>
    /\ b.turns = b.lastTurn
    /\ b.turns = IF p \in {g.starting, g.current} THEN g.turn ELSE g.turn - 1

\* What a bot of this name owns, apart from what its notes say.
OwnsWhatItKnows(b, q) ==
  /\ b.name = "throneroom_bm" =>
       \A c \in Cards : HasType(c, "action") /\ c \notin {"throne_room", "witch"}
                          => Owned(q, c) = 0
  /\ b.name = "remodel_bm" => b.bought <= 1

\* The notes of bot b on the cards of player p in game g.
NotesHold(b, p, g) ==
  LET q == g.players[p]
      card == NotedCard(b.name)
  IN  /\ card \in Cards /\ (b.name = "remodel_bm" => g.supply["silver"] > 0)
           => Owned(q, card) = StartDeck[p][card] + b.bought
      /\ b.name = "chapel_bm" =>
           /\ Owned(q, "copper") = StartDeck[p]["copper"] - b.trashed
           /\ b.trashed <= 4

\* The position in which a bot is turned away.
TurnedAway(b, p, g) ==
  /\ b.name \in {"bigmoney", "smithy_bm"}
  /\ g.current = p /\ g.phase = "buy" /\ g.decision = NoDecision
  /\ \E c \in {"province", "gold", "silver"} :
       g.supply[c] = 0 /\ g.players[p].coins >= Cost[c]

BotHolds(b, p, g) ==
  /\ b.stopped => TurnedAway(b, p, g)
  /\ ClockAgrees(b, p, g)
  /\ ~b.stopped => NotesHold(b, p, g) /\ OwnsWhatItKnows(b, g.players[p])

GameHolds(g, name) == Familiar(g, name) /\ RemodelInTime(g, name)

BotsHold(g, bs) ==
  /\ GameHolds(g, bs[g.current].name)
  /\ \A p \in Players : BotHolds(bs[p], p, g)

BInv ==
  AInv /\ bots \in [Players -> Bot] /\ BotsHold(gs, bots)

-----------------------------------------------------------------------------
(***************************************************************************)
(* What the cards the bots play leave to the players.                      *)
(***************************************************************************)

\* Player q owns as many cards as before, but for those of a set.
OwnsSame(q, r, X) == \A c \in Cards \ X : Owned(r, c) = Owned(q, c)

\* Nothing is gained and nothing is trashed.
Untouched(g, h) == h.supply = g.supply /\ h.trash = g.trash

\* When the other player's zones are as they were, what a player no longer owns
\* is in the supply or in the trash.
LEMMA OwnerBalance ==
  ASSUME NEW g \in GameStates, NEW h \in GameStates, SameExisting(g, h),
         NEW p \in Players,
         h.players[Opponent(p)] = g.players[Opponent(p)], NEW c \in Cards
  PROVE  /\ Owned(h.players[p], c) + h.supply[c] + h.trash[c]
              = Owned(g.players[p], c) + g.supply[c] + g.trash[c]
         /\ Owned(h.players[p], c) \in Nat /\ Owned(g.players[p], c) \in Nat
         /\ h.supply[c] \in Nat /\ g.supply[c] \in Nat
         /\ h.trash[c] \in Nat /\ g.trash[c] \in Nat
<1>1. \A i \in Players : Owned(g.players[i], c) \in Nat /\ Owned(h.players[i], c) \in Nat
  BY PlayersFact, OwnedIsNat
<1>2. /\ g.supply[c] \in Nat /\ g.trash[c] \in Nat
      /\ h.supply[c] \in Nat /\ h.trash[c] \in Nat
  BY DEF GameStates, Bag
<1>3. Existing(h, c) = Existing(g, c)
  BY DEF SameExisting
<1>4. \/ p = 0 /\ h.players[1] = g.players[1]
      \/ p = 1 /\ h.players[0] = g.players[0]
  BY DEF Players, Opponent
<1> QED
  BY <1>1, <1>2, <1>3, <1>4 DEF Existing, Players

LEMMA OwnerStays ==
  ASSUME NEW g \in GameStates, NEW h \in GameStates, SameExisting(g, h),
         NEW p \in Players,
         h.players[Opponent(p)] = g.players[Opponent(p)],
         NEW c \in Cards, h.supply[c] = g.supply[c], h.trash[c] = g.trash[c]
  PROVE  \A i \in Players : Owned(h.players[i], c) = Owned(g.players[i], c)
<1>1. Owned(h.players[p], c) = Owned(g.players[p], c)
  BY OwnerBalance
<1>2. \A i \in Players : i = p \/ i = Opponent(p)
  BY DEF Players, Opponent
<1> QED
  BY <1>1, <1>2

\* Cards that neither leave the supply nor reach the trash stay with their owner.
LEMMA OwnersStay ==
  ASSUME NEW g \in GameStates, NEW h \in GameStates, SameExisting(g, h),
         Untouched(g, h), NEW p \in Players,
         h.players[Opponent(p)] = g.players[Opponent(p)]
  PROVE  \A i \in Players : SameOwned(g.players[i], h.players[i])
  BY OwnerStays DEF Untouched, SameOwned

\* The treasures, and the actions some strategy plays.
BotPlays ==
  {"copper", "silver", "gold", "smithy", "chapel", "remodel", "witch", "militia",
   "throne_room", "library", "sentry", "merchant"}

\* What playing card c may ask.
AskedBy(h, c, p) ==
  \/ /\ h.decision.player = p /\ h.decision.card = c /\ c \in AsksPlayer
     /\ h.decision.step = 0
  \/ h.decision.player = Opponent(p) /\ h.decision.card = "militia" /\ c = "militia"

\* The outcomes of playing card c: but for a Witch's Curse, nobody gains or loses
\* a card.
Played(g, c) ==
  {h \in Quiet(g) :
     /\ \A i \in Players : OwnsSame(g.players[i], h.players[i], {"curse"})
     /\ \A x \in Cards : h.supply[x] <= g.supply[x]
     /\ h.decision # NoDecision => AskedBy(h, c, g.current)}

LEMMA UntouchedPlayed ==
  ASSUME NEW g, Ready(g), NEW c, NEW h \in Quiet(g), Untouched(g, h),
         h.players[Opponent(g.current)] = g.players[Opponent(g.current)],
         h.decision # NoDecision => AskedBy(h, c, g.current)
  PROVE  h \in Played(g, c)
<1>1. g \in GameStates /\ h \in GameStates /\ SameExisting(g, h) /\ g.current \in Players
  BY PlayersFact DEF Ready, Quiet, Gentle, Outcome
<1>2. \A i \in Players : SameOwned(g.players[i], h.players[i])
  BY <1>1, OwnersStay
<1>3. \A x \in Cards : g.supply[x] \in Nat
  BY <1>1 DEF GameStates, Bag
<1> QED
  BY <1>2, <1>3 DEF Played, OwnsSame, SameOwned, Untouched

LEMMA PlusUntouched ==
  ASSUME NEW g \in GameStates, NEW p, NEW n, NEW a, NEW b, NEW m,
         NEW h \in Plus(g, p, n, a, b, m)
  PROVE  Untouched(g, h)
<1>1. PICK q : h = AddResources([g EXCEPT !.players[p] = q], p, a, b, m)
  BY DEF Plus, WithPlayer
<1> QED
  BY <1>1 DEF AddResources, GameStates, Untouched

LEMMA PlainPlayed ==
  ASSUME NEW g, Ready(g), NEW c \in {"copper", "silver", "gold", "smithy", "merchant"}
  PROVE  OnPlay(g, g.current, c) \subseteq Played(g, c)
<1> SUFFICES ASSUME NEW h \in OnPlay(g, g.current, c)
             PROVE  h \in Played(g, c)
  OBVIOUS
<1>1. h \in LocalTo(g, g.current)
  BY PlainQuiet DEF Plain
<1>2. /\ h \in Quiet(g) /\ h.decision = NoDecision
      /\ h.players[Opponent(g.current)] = g.players[Opponent(g.current)]
  BY <1>1, LocalQuiet DEF LocalTo, Beside
<1>3. Untouched(g, h)
  <2>1. g \in GameStates
    BY DEF Ready
  <2>2. CASE c \in {"copper", "gold", "smithy"}
    BY <2>1, <2>2, PlusUntouched DEF OnPlay, CopperOnPlay, GoldOnPlay, SmithyOnPlay
  <2>3. CASE c = "silver"
    <3> DEFINE q == g.players[g.current]
               r == [q EXCEPT !.silver = TRUE]
               s == [g EXCEPT !.players[g.current] = r]
    <3>1. g.current \in Players /\ q \in PlayerState
      BY <2>1, PlayersFact
    <3>2. r \in PlayerState
      BY <3>1 DEF PlayerState
    <3>3. s \in GameStates /\ s.supply = g.supply /\ s.trash = g.trash
      <4> HIDE DEF r
      <4> QED
        BY <2>1, <3>1, <3>2 DEF GameStates
    <3>4. s = [g EXCEPT !.players[g.current].silver = TRUE]
      BY <2>1, <3>1 DEF GameStates
    <3>5. \E m : h \in Plus(s, g.current, 0, 0, 0, m)
      BY <2>3, <3>4 DEF OnPlay, SilverOnPlay
    <3> HIDE DEF s
    <3> QED
      BY <3>3, <3>5, PlusUntouched DEF Untouched
  <2>4. CASE c = "merchant"
    <3>1. PICK k \in Plus(g, g.current, 1, 1, 0, 0) :
            h = [k EXCEPT !.players[g.current].charges = @ + 1]
      BY <2>4 DEF OnPlay, MerchantOnPlay
    <3>2. Untouched(g, k) /\ k \in GameStates
      BY <2>1, <3>1, PlusUntouched, PlusTypes
    <3> QED
      BY <3>1, <3>2 DEF Untouched, GameStates
  <2> QED
    BY <2>2, <2>3, <2>4
<1> QED
  BY <1>2, <1>3, UntouchedPlayed

LEMMA AskingPlayed ==
  ASSUME NEW g, Ready(g), NEW c \in {"chapel", "remodel", "throne_room"}
  PROVE  OnPlay(g, g.current, c) \subseteq Played(g, c)
<1> SUFFICES ASSUME NEW h \in OnPlay(g, g.current, c)
             PROVE  h \in Played(g, c)
  OBVIOUS
<1>1. h \in Quiet(g)
  BY OnPlayQuiet
<1>2. h = g \/ \E prompt : h = RequestDecision(g, g.current, c, 0, prompt)
  BY DEF OnPlay, ChapelOnPlay, RemodelOnPlay, ThroneRoomOnPlay
<1>3. g \in GameStates /\ g.decision = NoDecision
  BY DEF Ready
<1>4. CASE h = g
  BY <1>1, <1>3, <1>4, UntouchedPlayed DEF Untouched
<1>5. CASE \E prompt : h = RequestDecision(g, g.current, c, 0, prompt)
  <2>1. PICK prompt : h = RequestDecision(g, g.current, c, 0, prompt)
    BY <1>5
  <2>2. h.players = g.players /\ Untouched(g, h)
    BY <1>3, <2>1 DEF RequestDecision, GameStates, Untouched
  <2>3. h.decision.player = g.current /\ h.decision.card = c /\ h.decision.step = 0
    BY <1>3, <2>1 DEF RequestDecision, GameStates
  <2> QED
    BY <1>1, <2>2, <2>3, UntouchedPlayed DEF AskedBy, AsksPlayer
<1> QED
  BY <1>2, <1>4, <1>5

LEMMA FlushUntouched ==
  ASSUME NEW g \in GameStates, NEW p
  PROVE  /\ Untouched(g, FlushSetAside(g, p))
         /\ FlushSetAside(g, p).decision = g.decision
  BY DEF FlushSetAside, GameStates, Untouched

\* A Library asks its player only, about one card at a time.
LEMMA LibraryUntouched ==
  ASSUME NEW g, Ready(g), NEW k \in LibraryStep(g, g.current)
  PROVE  /\ Untouched(g, k)
         /\ k.decision # NoDecision =>
              /\ k.decision.card = "library" /\ k.decision.step = 0
              /\ k.decision.player = g.current
<1> DEFINE p == g.current
           Asked1(h) == h.decision # NoDecision =>
                          h.decision.card = "library" /\ h.decision.step = 0
           S == {h \in Browsed(g) : Untouched(g, h) /\ Asked1(h)}
<1>1. g \in S
  BY MovedSelf, LocalSelf, BesideBrowsed DEF Ready, LocalTo, Untouched
<1>2. ASSUME NEW h \in S, NEW a \in LibraryDraw(h, p)
      PROVE  a \in S
  <2>1. CASE h.decision # NoDecision
    BY <1>2, <2>1 DEF LibraryDraw, LibraryStops
  <2>2. CASE h.decision = NoDecision
    <3>1. Ready(h) /\ h.current = p /\ h \in GameStates
      BY <1>2, <2>2 DEF Browsed, Outcome, Ready, SameTurn
    <3>2. a \in Browsed(g)
      BY <1>2, <2>2, <3>1, LibraryDrawBrowses, BrowsedTwice
    <3>3. \/ a = h
          \/ \E q : a = [h EXCEPT !.players[p] = q]
          \/ \E q, prompt : a = RequestDecision([h EXCEPT !.players[p] = q], p,
                                                "library", 0, prompt)
      BY <1>2 DEF LibraryDraw
    <3>4. Untouched(h, a) /\ Asked1(a)
      <4>1. CASE a = h
        BY <1>2, <4>1 DEF Untouched
      <4>2. CASE \E q : a = [h EXCEPT !.players[p] = q]
        BY <2>2, <3>1, <4>2 DEF Untouched, GameStates
      <4>3. CASE \E q, prompt : a = RequestDecision([h EXCEPT !.players[p] = q], p,
                                                    "library", 0, prompt)
        BY <3>1, <4>3 DEF Untouched, GameStates, RequestDecision
      <4> QED
        BY <3>3, <4>1, <4>2, <4>3
    <3> QED
      BY <1>2, <3>2, <3>4 DEF Untouched
  <2> QED
    BY <2>1, <2>2
<1>3. PICK h \in S : k = IF h.decision # NoDecision THEN h ELSE FlushSetAside(h, p)
  <2> HIDE DEF S
  <2> QED
    BY <1>1, <1>2, LibraryStepStays
<1>4. h \in GameStates
  BY DEF Browsed, Outcome
<1>5. Untouched(g, k) /\ Asked1(k)
  BY <1>3, <1>4, FlushUntouched DEF Untouched
<1>6. k.decision # NoDecision => k.decision.player = g.current
  BY LibraryBrowses DEF Browsed
<1> QED
  BY <1>5, <1>6

LEMMA LibraryPlayed ==
  ASSUME NEW g, Ready(g)
  PROVE  OnPlay(g, g.current, "library") \subseteq Played(g, "library")
<1> SUFFICES ASSUME NEW h \in LibraryStep(g, g.current)
             PROVE  h \in Played(g, "library")
  BY DEF OnPlay, LibraryOnPlay
<1>1. h \in Quiet(g)
  BY LibraryQuiet DEF LibraryOnPlay
<1>2. h.players[Opponent(g.current)] = g.players[Opponent(g.current)]
  BY LibraryBrowses DEF Browsed
<1> QED
  BY <1>1, <1>2, LibraryUntouched, UntouchedPlayed DEF AskedBy, AsksPlayer

LEMMA SentryPlayed ==
  ASSUME NEW g, Ready(g)
  PROVE  OnPlay(g, g.current, "sentry") \subseteq Played(g, "sentry")
<1> SUFFICES ASSUME NEW k \in SentryOnPlay(g, g.current)
             PROVE  k \in Played(g, "sentry")
  BY DEF OnPlay
<1> DEFINE p == g.current
           revealed(h, q) ==
             SubSeq(q.setAside, Len(h.players[p].setAside) + 1, Len(q.setAside))
           after(h, q) == [h EXCEPT !.players[p] = q]
           asked(h, q) ==
             IF revealed(h, q) = <<>> THEN after(h, q)
             ELSE RequestDecision(after(h, q), p, "sentry", 0, ShownPrompt(revealed(h, q)))
<1>a. PICK h \in Plus(g, p, 1, 1, 0, 0) : \E q, prompt :
        \/ k = [h EXCEPT !.players[p] = q]
        \/ k = RequestDecision([h EXCEPT !.players[p] = q], p, "sentry", 0, prompt)
  <2>1. SentryOnPlay(g, p) =
          UNION {{asked(h, q) : q \in PeelToSetAside(h.players[p])} :
                   h \in Plus(g, p, 1, 1, 0, 0)}
    BY DEF SentryOnPlay
  <2>2. PICK h \in Plus(g, p, 1, 1, 0, 0) :
          \E q \in PeelToSetAside(h.players[p]) : k = asked(h, q)
    <3> HIDE DEF asked
    <3> QED
      BY <2>1
  <2>3. PICK q \in PeelToSetAside(h.players[p]) : k = asked(h, q)
    BY <2>2
  <2>4. \/ k = after(h, q)
        \/ k = RequestDecision(after(h, q), p, "sentry", 0, ShownPrompt(revealed(h, q)))
    BY <2>3
  <2> QED
    BY <2>4
<1>1. PICK q, prompt :
        \/ k = [h EXCEPT !.players[p] = q]
        \/ k = RequestDecision([h EXCEPT !.players[p] = q], p, "sentry", 0, prompt)
  BY <1>a
<1>2. /\ h \in GameStates /\ Untouched(g, h) /\ h.decision = NoDecision
      /\ h.players[Opponent(p)] = g.players[Opponent(p)]
  <2>1. h \in LocalTo(g, p)
    BY <1>1, PlusLocal
  <2> QED
    BY <1>1, <2>1, LocalQuiet, PlusUntouched DEF LocalTo, Beside, Moved, Ready
<1>3. p \in Players /\ Opponent(p) # p /\ Opponent(p) \in Players
  BY PlayersFact DEF Ready
<1>4. /\ Untouched(h, k)
      /\ k.players[Opponent(p)] = h.players[Opponent(p)]
      /\ k.decision # NoDecision =>
           k.decision.card = "sentry" /\ k.decision.step = 0 /\ k.decision.player = p
  <2>1. CASE k = [h EXCEPT !.players[p] = q]
    BY <1>2, <1>3, <2>1 DEF Untouched, GameStates
  <2>2. CASE k = RequestDecision([h EXCEPT !.players[p] = q], p, "sentry", 0, prompt)
    BY <1>2, <1>3, <2>2 DEF Untouched, GameStates, RequestDecision
  <2> QED
    BY <1>1, <2>1, <2>2
<1>5. k \in Quiet(g)
  BY SentryQuiet
<1>6. Untouched(g, k) /\ k.players[Opponent(p)] = g.players[Opponent(p)]
  BY <1>2, <1>4 DEF Untouched
<1> QED
  BY <1>4, <1>5, <1>6, UntouchedPlayed DEF AskedBy, AsksPlayer

LEMMA MilitiaPlayed ==
  ASSUME NEW g, Ready(g)
  PROVE  OnPlay(g, g.current, "militia") \subseteq Played(g, "militia")
<1> SUFFICES ASSUME NEW k \in MilitiaOnPlay(g, g.current)
             PROVE  k \in Played(g, "militia")
  BY DEF OnPlay
<1> DEFINE p == g.current
<1>1. PICK h \in Plus(g, p, 0, 0, 0, 2) : k = MilitiaQueue(h, AttackVictims(h, p))
  BY DEF MilitiaOnPlay
<1>2. /\ h \in GameStates /\ Untouched(g, h) /\ h.decision = NoDecision
      /\ h.players[Opponent(p)] = g.players[Opponent(p)]
  <2>1. h \in LocalTo(g, p)
    BY <1>1, PlusLocal
  <2> QED
    BY <1>1, <2>1, LocalQuiet, PlusUntouched DEF LocalTo, Beside, Moved, Ready
<1>3. k = h \/ \E prompt : k = RequestDecision(h, Opponent(p), "militia", 0, prompt)
  <2> DEFINE toAsk == {v \in AttackVictims(h, p) : Size(h.players[v].hand) > 3}
             w == CHOOSE v \in toAsk : TRUE
  <2>1. CASE toAsk = {}
    BY <1>1, <2>1 DEF MilitiaQueue
  <2>2. CASE toAsk # {}
    <3>1. w \in toAsk
      BY <2>2
    <3>2. w = Opponent(p)
      BY <3>1 DEF AttackVictims
    <3> QED
      BY <1>1, <2>2, <3>2 DEF MilitiaQueue
  <2> QED
    BY <2>1, <2>2
<1>4. /\ k.players = h.players /\ Untouched(h, k)
      /\ k.decision # NoDecision =>
           k.decision.card = "militia" /\ k.decision.player = Opponent(p)
  <2>1. CASE k = h
    BY <1>2, <2>1 DEF Untouched
  <2>2. CASE \E prompt : k = RequestDecision(h, Opponent(p), "militia", 0, prompt)
    <3>1. PICK prompt : k = RequestDecision(h, Opponent(p), "militia", 0, prompt)
      BY <2>2
    <3>2. k.players = h.players /\ Untouched(h, k)
      BY <1>2, <3>1 DEF RequestDecision, GameStates, Untouched
    <3>3. k.decision.card = "militia" /\ k.decision.player = Opponent(p)
      BY <1>2, <3>1 DEF RequestDecision, GameStates
    <3> QED
      BY <3>2, <3>3
  <2> QED
    BY <1>3, <2>1, <2>2
<1>5. k \in Quiet(g)
  BY MilitiaQuiet
<1>6. Untouched(g, k) /\ k.players[Opponent(p)] = g.players[Opponent(p)]
  BY <1>2, <1>4 DEF Untouched
<1> QED
  BY <1>4, <1>5, <1>6, UntouchedPlayed DEF AskedBy

\* What a gain to the discard pile changes.
LEMMA GainOwned ==
  ASSUME NEW g \in GameStates, NEW p \in Players, NEW c,
         NEW h, h = GainCard(g, p, c, "discard")
  PROVE  /\ \A i \in Players : OwnsSame(g.players[i], h.players[i], {c})
         /\ \A x \in Cards : h.supply[x] <= g.supply[x]
         /\ c \in Cards /\ g.supply[c] > 0 =>
              Owned(h.players[p], c) = Owned(g.players[p], c) + 1
         /\ h.players[p].actions = g.players[p].actions
<1>0. /\ \A i \in Players : g.players[i] \in PlayerState
      /\ Opponent(p) # p /\ Opponent(p) \in Players
      /\ g.supply \in Bag
  BY PlayersFact DEF GameStates
<1>1. CASE ~(c \in Cards /\ g.supply[c] > 0)
  <2>1. h = g
    BY <1>1 DEF GainCard
  <2> QED
    BY <1>0, <1>1, <2>1 DEF OwnsSame, SameTurn, Bag
<1>2. CASE c \in Cards /\ g.supply[c] > 0
  <2> DEFINE q == g.players[p]
             r == [q EXCEPT !.discard = AddOne(@, c)]
  <2>1. h = [g EXCEPT !.supply = DropOne(@, c), !.players[p] = r]
    BY <1>2 DEF GainCard
  <2>2. q \in PlayerState /\ r.discard = AddOne(q.discard, c) /\ r.actions = q.actions
    BY <1>0 DEF PlayerState
  <2>3. \A x \in Cards : Owned(r, x) = Owned(q, x) + OneOf(c)[x]
    <3> SUFFICES ASSUME NEW x \in Cards PROVE Owned(r, x) = Owned(q, x) + OneOf(c)[x]
      OBVIOUS
    <3>1. r.discard[x] = q.discard[x] + OneOf(c)[x] /\ OneOf(c)[x] \in Nat
      BY <2>2 DEF AddOne, BagPlus, OneOf
    <3>2. /\ q.hand[x] \in Nat /\ q.deck[x] \in Nat /\ q.discard[x] \in Nat
          /\ q.inPlay[x] \in Nat /\ BagOfSeq(q.top)[x] \in Nat
          /\ BagOfSeq(q.setAside)[x] \in Nat
      BY <2>2, CountsAreNat
    <3>3. /\ r.hand = q.hand /\ r.deck = q.deck /\ r.inPlay = q.inPlay
          /\ r.top = q.top /\ r.setAside = q.setAside
      BY <2>2 DEF PlayerState
    <3> HIDE DEF r, q
    <3> QED
      BY <3>1, <3>2, <3>3 DEF Owned
  <2>4. /\ h.players[p] = r /\ h.supply = DropOne(g.supply, c)
        /\ \A i \in Players : i # p => h.players[i] = g.players[i]
        /\ h.decision = g.decision /\ h.err = g.err
        /\ h.pendingPlays = g.pendingPlays /\ SameTurn(g, h)
    <3> HIDE DEF r
    <3>1. h.players = [g.players EXCEPT ![p] = r] /\ h.supply = DropOne(g.supply, c)
      BY <2>1 DEF GameStates
    <3>2. /\ h.decision = g.decision /\ h.err = g.err
          /\ h.pendingPlays = g.pendingPlays /\ SameTurn(g, h)
      BY <2>1 DEF GameStates, SameTurn
    <3>3. g.players \in [Players -> PlayerState]
      BY DEF GameStates
    <3> QED
      BY <3>1, <3>2, <3>3
  <2>5. \A x \in Cards : Owned(q, x) \in Nat
    BY <2>2, OwnedIsNat
  <2>6. \A x \in Cards : h.supply[x] = g.supply[x] - OneOf(c)[x] /\ g.supply[x] \in Nat
    BY <1>0, <2>4 DEF DropOne, BagMinus, Bag
  <2>7. \A i \in Players : OwnsSame(g.players[i], h.players[i], {c})
    <3> HIDE DEF r, q
    <3>1. OwnsSame(q, r, {c})
      BY <2>3, <2>5 DEF OwnsSame, OneOf
    <3> QED
      BY <2>4, <3>1 DEF OwnsSame, q
  <2>8. \A x \in Cards : h.supply[x] <= g.supply[x] /\ (x # c => h.supply[x] = g.supply[x])
    BY <2>6 DEF OneOf
  <2>9. Owned(h.players[p], c) = Owned(g.players[p], c) + 1
    <3> HIDE DEF r
    <3> QED
      BY <1>2, <2>3, <2>4 DEF OneOf
  <2> HIDE DEF r
  <2> QED
    BY <2>2, <2>4, <2>7, <2>8, <2>9
<1> QED
  BY <1>1, <1>2

LEMMA WitchPlayed ==
  ASSUME NEW g, Ready(g)
  PROVE  OnPlay(g, g.current, "witch") \subseteq Played(g, "witch")
<1> SUFFICES ASSUME NEW k \in WitchOnPlay(g, g.current)
             PROVE  k \in Played(g, "witch")
  BY DEF OnPlay
<1> DEFINE p == g.current
<1>1. PICK h \in Plus(g, p, 2, 0, 0, 0) :
        k = h \/ k = GainCard(h, Opponent(p), "curse", "discard")
  BY DEF WitchOnPlay
<1>2. /\ h \in GameStates /\ Untouched(g, h) /\ h.decision = NoDecision
      /\ h \in Quiet(g) /\ h.players[Opponent(p)] = g.players[Opponent(p)]
  <2>1. h \in LocalTo(g, p)
    BY <1>1, PlusLocal
  <2> QED
    BY <1>1, <2>1, LocalQuiet, PlusUntouched DEF LocalTo, Beside, Moved, Ready
<1>3. CASE k = h
  BY <1>2, <1>3, UntouchedPlayed
<1>4. CASE k = GainCard(h, Opponent(p), "curse", "discard")
  <2>1. h \in Played(g, "witch")
    BY <1>2, UntouchedPlayed
  <2>2. Opponent(p) \in Players /\ \A x \in Cards : h.supply[x] \in Nat /\ g.supply[x] \in Nat
    BY <1>2, PlayersFact DEF Ready, GameStates, Bag
  <2>3. /\ \A i \in Players : OwnsSame(h.players[i], k.players[i], {"curse"})
        /\ \A x \in Cards : k.supply[x] <= h.supply[x]
        /\ k.decision = h.decision
    <3> DEFINE v == Opponent(p)
    <3> HIDE DEF v, p
    <3>1. v \in Players /\ k = GainCard(h, v, "curse", "discard")
      BY <1>4, <2>2 DEF v
    <3>2. h \in GameStates
      BY <1>2
    <3>3. \A i \in Players : OwnsSame(h.players[i], k.players[i], {"curse"})
      BY <3>1, <3>2, GainOwned
    <3>4. \A x \in Cards : k.supply[x] <= h.supply[x]
      BY <3>1, <3>2, GainOwned
    <3>5. k.decision = h.decision
      BY <3>1, GainCardMoves, <3>2 DEF Moved
    <3> QED
      BY <3>3, <3>4, <3>5
  <2>4. \A x \in Cards : k.supply[x] \in Nat
    BY WitchQuiet DEF Quiet, Gentle, Outcome, GameStates, Bag
  <2>5. \A i \in Players : OwnsSame(g.players[i], k.players[i], {"curse"})
    BY <2>1, <2>3 DEF Played, OwnsSame
  <2>6. \A x \in Cards : k.supply[x] <= g.supply[x]
    BY <2>1, <2>2, <2>3, <2>4 DEF Played
  <2> QED
    BY <1>2, <2>3, <2>5, <2>6, WitchQuiet DEF Played
<1> QED
  BY <1>1, <1>3, <1>4

LEMMA BotsPlay ==
  ASSUME NEW g, Ready(g), NEW c \in BotPlays
  PROVE  OnPlay(g, g.current, c) \subseteq Played(g, c)
  BY PlainPlayed, AskingPlayed, LibraryPlayed, SentryPlayed, MilitiaPlayed, WitchPlayed
     DEF BotPlays

LEMMA PlayedTwice ==
  ASSUME NEW g, Ready(g), NEW c, NEW h \in Played(g, c), h.decision = NoDecision,
         NEW k \in Played(h, c)
  PROVE  k \in Played(g, c)
<1>1. k \in Quiet(g) /\ h.current = g.current
  BY QuietTwice DEF Played, Quiet, Gentle, Outcome, SameTurn
<1>2. \A i \in Players : OwnsSame(g.players[i], k.players[i], {"curse"})
  BY DEF Played, OwnsSame
<1>3. g \in GameStates /\ h \in GameStates /\ k \in GameStates
  BY DEF Ready, Played, Quiet, Gentle, Outcome
<1>4. \A x \in Cards : g.supply[x] \in Nat /\ h.supply[x] \in Nat /\ k.supply[x] \in Nat
  BY <1>3 DEF GameStates, Bag
<1>5. \A x \in Cards : k.supply[x] <= g.supply[x]
  BY <1>4 DEF Played
<1> QED
  BY <1>1, <1>2, <1>5 DEF Played

LEMMA InPlayPlayed ==
  ASSUME NEW g, Ready(g), NEW c, Holds(g, c, "hand"),
         NEW h, h = InPlayFrom(g, c, "hand")
  PROVE  /\ Ready(h) /\ h.current = g.current /\ h \in Played(g, c)
         /\ Untouched(g, h)
         /\ h.players[g.current].inPlay[c] > 0
         /\ h.players[g.current].actions = g.players[g.current].actions
<1> DEFINE p == g.current
           q == g.players[p]
           r == [[q EXCEPT !.hand = DropOne(@, c)] EXCEPT !.inPlay = AddOne(@, c)]
<1>1. Ready(h) /\ h \in Quiet(g) /\ h.current = p /\ h.decision = NoDecision
  BY InPlayQuiet DEF Ready
<1>2. h.players[Opponent(p)] = g.players[Opponent(p)]
  BY InPlayTouches DEF Ready
<1>3. h = [g EXCEPT !.players[p] = r]
  BY DEF InPlayFrom
<1>4. g \in GameStates /\ q \in PlayerState /\ p \in Players /\ c \in Cards
  BY PlayersFact DEF Ready, Holds
<1>5. Untouched(g, h) /\ h.players[p] = r
  <2> HIDE DEF r
  <2> QED
    BY <1>3, <1>4 DEF GameStates, Untouched
<1>6. r.actions = q.actions /\ r.inPlay = AddOne(q.inPlay, c)
  BY <1>4 DEF PlayerState
<1>7. AddOne(q.inPlay, c)[c] > 0
  <2>1. q.inPlay[c] \in Nat
    BY <1>4, CountsAreNat
  <2>2. AddOne(q.inPlay, c)[c] = q.inPlay[c] + 1
    BY <1>4 DEF AddOne, BagPlus, OneOf
  <2> QED
    BY <2>1, <2>2
<1> HIDE DEF r
<1> QED
  BY <1>1, <1>2, <1>5, <1>6, <1>7, UntouchedPlayed

\* A Remodel, played, changes neither the supply nor the Actions left.
LEMMA RemodelPlays ==
  ASSUME NEW g, Ready(g), NEW k \in OnPlay(g, g.current, "remodel")
  PROVE  k.players = g.players /\ k.supply = g.supply
<1>1. k = g \/ \E prompt : k = RequestDecision(g, g.current, "remodel", 0, prompt)
  BY DEF OnPlay, RemodelOnPlay
<1> QED
  BY <1>1 DEF Ready, RequestDecision, GameStates

LEMMA FromHandPlayed ==
  ASSUME NEW g, Ready(g), NEW c \in BotPlays, Holds(g, c, "hand"),
         NEW k \in PlayCardFromZone(g, g.current, c, "hand")
  PROVE  /\ k \in Played(g, c)
         /\ c = "remodel" =>
              /\ k.supply = g.supply
              /\ k.players[g.current].inPlay["remodel"] > 0
              /\ k.players[g.current].actions = g.players[g.current].actions
<1> DEFINE h == InPlayFrom(g, c, "hand")
<1>1. k \in OnPlay(h, g.current, c)
  BY DEF PlayCardFromZone, PlayCardInPlace, InPlayFrom, Holds
<1>2. /\ Ready(h) /\ h.current = g.current /\ h \in Played(g, c)
      /\ Untouched(g, h) /\ h.decision = NoDecision
      /\ h.players[g.current].inPlay[c] > 0
      /\ h.players[g.current].actions = g.players[g.current].actions
  BY InPlayPlayed DEF Ready
<1> HIDE DEF h
<1>3. k \in Played(h, c)
  BY <1>1, <1>2, BotsPlay
<1>4. c = "remodel" => k.players = h.players /\ k.supply = h.supply
  BY SMTT(30), <1>1, <1>2, RemodelPlays
<1> QED
  BY <1>2, <1>3, <1>4, PlayedTwice DEF Untouched

LEMMA ActionSpent ==
  ASSUME NEW g, Ready(g), g.players[g.current].actions > 0,
         NEW h, h = [g EXCEPT !.players[g.current].actions = @ - 1]
  PROVE  /\ Ready(h) /\ h.current = g.current /\ h \in Quiet(g) /\ Untouched(g, h)
         /\ h.players[Opponent(g.current)] = g.players[Opponent(g.current)]
         /\ h.players[g.current].hand = g.players[g.current].hand
         /\ h.players[g.current].actions = g.players[g.current].actions - 1
<1> DEFINE p == g.current
           q == g.players[p]
           r == [q EXCEPT !.actions = @ - 1]
<1>1. p \in Players /\ q \in PlayerState /\ g \in GameStates
  BY PlayersFact DEF Ready
<1>2. r \in PlayerState /\ SameOwned(q, r) /\ r.inPlay = q.inPlay
      /\ r.setAside = q.setAside /\ r.hand = q.hand /\ r.actions = q.actions - 1
  <2>1. q.actions - 1 \in Nat
    BY <1>1 DEF PlayerState
  <2> HIDE DEF q
  <2> QED
    BY <1>1, <2>1 DEF PlayerState, SameOwned, Owned
<1>3. h = [g EXCEPT !.players[p] = r]
  BY <1>1 DEF GameStates
<1> HIDE DEF r
<1>4. h \in LocalTo(g, p)
  BY <1>1, <1>2, <1>3, LocalChange
<1>5. h.players[p] = r /\ Untouched(g, h)
  BY <1>1, <1>3 DEF GameStates, Untouched
<1> QED
  BY <1>2, <1>4, <1>5, LocalQuiet DEF LocalTo, Beside

\* A card a bot plays, from the hand.
LEMMA CardPlayed ==
  ASSUME NEW g, Ready(g), NEW c \in BotPlays, Holds(g, c, "hand"),
         IF g.phase = "action"
         THEN HasType(c, "action") /\ g.players[g.current].actions > 0
         ELSE HasType(c, "treasure"),
         NEW k \in ApplyPlayCard(g, g.current, c)
  PROVE  /\ k \in Played(g, c)
         /\ g.phase = "action" /\ c = "remodel" =>
              /\ k.supply = g.supply
              /\ k.players[g.current].inPlay["remodel"] > 0
              /\ k.players[g.current].actions = g.players[g.current].actions - 1
<1> DEFINE p == g.current
           spent == [g EXCEPT !.players[p].actions = @ - 1]
<1>1. CASE g.phase = "action"
  <2>1. k \in PlayCardFromZone(spent, p, c, "hand")
    BY <1>1 DEF ApplyPlayCard
  <2>2. /\ Ready(spent) /\ spent.current = p /\ spent \in Quiet(g)
        /\ Untouched(g, spent)
        /\ spent.players[Opponent(p)] = g.players[Opponent(p)]
        /\ spent.players[p].hand = g.players[p].hand
        /\ spent.players[p].actions = g.players[p].actions - 1
        /\ spent.decision = NoDecision
    BY <1>1, ActionSpent DEF Ready
  <2> HIDE DEF spent
  <2>3. Holds(spent, c, "hand")
    BY <2>2 DEF Holds
  <2>4. spent \in Played(g, c)
    BY <2>2, UntouchedPlayed
  <2> QED
    BY <2>1, <2>2, <2>3, <2>4, FromHandPlayed, PlayedTwice DEF Untouched
<1>2. CASE g.phase # "action"
  <2>1. k \in PlayCardFromZone(g, p, c, "hand")
    BY <1>2 DEF ApplyPlayCard
  <2> QED
    BY <1>2, <2>1, FromHandPlayed
<1> QED
  BY <1>1, <1>2

-----------------------------------------------------------------------------
(***************************************************************************)
(* What the answers of the bots do.                                        *)
(***************************************************************************)

\* Of the cards outside X player p owns as many as before, the other one of all
\* but Curses, and no pile grows.
Changes(g, h, p, X) ==
  /\ OwnsSame(g.players[p], h.players[p], X)
  /\ OwnsSame(g.players[Opponent(p)], h.players[Opponent(p)], {"curse"})
  /\ \A x \in Cards : h.supply[x] <= g.supply[x]

LEMMA PlayedChanges ==
  ASSUME NEW g, Ready(g), NEW c, NEW h \in Played(g, c), NEW p \in Players
  PROVE  Changes(g, h, p, {"curse"})
  BY PlayersFact DEF Played, Changes

LEMMA UntouchedChanges ==
  ASSUME NEW g \in GameStates, NEW p \in Players, NEW h \in Beside(g, p),
         Untouched(g, h)
  PROVE  Changes(g, h, p, {}) /\ h.decision = g.decision
         /\ h.pendingPlays = g.pendingPlays
<1>1. /\ h \in GameStates /\ SameExisting(g, h) /\ h.decision = g.decision
      /\ h.pendingPlays = g.pendingPlays
      /\ h.players[Opponent(p)] = g.players[Opponent(p)]
  BY DEF Beside, Moved
<1>2. \A i \in Players : SameOwned(g.players[i], h.players[i])
  BY <1>1, OwnersStay
<1>3. \A x \in Cards : g.supply[x] \in Nat
  BY DEF GameStates, Bag
<1> QED
  BY <1>1, <1>2, <1>3, PlayersFact DEF Changes, OwnsSame, SameOwned, Untouched

LEMMA UnwindNothing ==
  ASSUME NEW g, g.pendingPlays = <<>>, NEW k \in Unwind(g)
  PROVE  k = g
<1>1. g.pendingPlays \in Seq(PendingPlay) /\ Len(g.pendingPlays) = 0
  OBVIOUS
<1>2. UnwindOne(g) = {g}
  BY <1>1 DEF UnwindOne
<1> DEFINE S == {g}
<1>3. g \in S /\ \A h \in S : UnwindOne(h) \subseteq S
  BY <1>2
<1>4. Unwind(g) \subseteq S
  <2> HIDE DEF S
  <2> QED
    BY <1>1, <1>3, UnwindStays
<1> QED
  BY <1>4

LEMMA MilitiaAnswered ==
  ASSUME NEW g, Ready(g), NEW p \in Players, NEW answer, answer.list \in Bag,
         NEW h \in MilitiaOnResolve(g, p, answer), ~h.err
  PROVE  /\ Changes(g, h, p, {}) /\ h.decision = NoDecision
         /\ h.pendingPlays = g.pendingPlays
<1>1. g \in GameStates /\ g.decision = NoDecision
  BY DEF Ready
<1>2. h = DiscardFromHand(g, p, answer.list)
  BY <1>1 DEF MilitiaOnResolve, Fail, GameStates
<1>3. h \in Beside(g, p)
  BY <1>1, <1>2, DiscardFromHandLocal DEF LocalTo
<1>4. Untouched(g, h)
  BY <1>1, <1>2 DEF DiscardFromHand, Untouched, GameStates
<1> QED
  BY <1>1, <1>3, <1>4, UntouchedChanges

\* Cards named in the hand, trashed.
LEMMA TrashOwned ==
  ASSUME NEW g \in GameStates, NEW p \in Players, NEW list \in Bag,
         \A c \in Cards : list[c] <= g.players[p].hand[c],
         NEW h, h = TrashFromHand(g, p, list)
  PROVE  /\ h \in LocalTo(g, p) /\ h.supply = g.supply
         /\ h.players[p].actions = g.players[p].actions
         /\ \A c \in Cards : Owned(h.players[p], c) = Owned(g.players[p], c) - list[c]
<1> DEFINE hand == g.players[p].hand
           moved == AtMost(list, hand)
           q == g.players[p]
           r == [q EXCEPT !.hand = BagMinus(@, moved)]
<1>1. h \in LocalTo(g, p)
  BY TrashFromHandLocal
<1>2. q \in PlayerState
  BY PlayersFact
<1>3. h = [g EXCEPT !.players[p] = r, !.trash = BagPlus(@, moved)]
  BY <1>2 DEF TrashFromHand, GameStates, PlayerState
<1>4. /\ h.supply = g.supply /\ h.trash = BagPlus(g.trash, moved)
      /\ h.players[p] = r
  <2> HIDE DEF r, moved
  <2> QED
    BY <1>3 DEF GameStates
<1>5. r.actions = q.actions
  BY <1>2 DEF PlayerState
<1>6. \A c \in Cards : moved[c] = list[c]
  BY DEF AtMost
<1>7. /\ h \in GameStates /\ SameExisting(g, h)
      /\ h.players[Opponent(p)] = g.players[Opponent(p)]
  BY <1>1 DEF LocalTo, Beside, Moved
<1>8. ASSUME NEW c \in Cards
      PROVE  Owned(h.players[p], c) = Owned(g.players[p], c) - list[c]
  <2>1. /\ Owned(h.players[p], c) + h.supply[c] + h.trash[c]
              = Owned(g.players[p], c) + g.supply[c] + g.trash[c]
        /\ Owned(h.players[p], c) \in Nat /\ Owned(g.players[p], c) \in Nat
        /\ g.supply[c] \in Nat /\ g.trash[c] \in Nat
    BY <1>7, OwnerBalance
  <2>2. h.supply[c] = g.supply[c] /\ h.trash[c] = g.trash[c] + list[c]
    BY <1>4, <1>6 DEF BagPlus
  <2>3. list[c] \in Nat
    BY DEF Bag
  <2> QED
    BY <2>1, <2>2, <2>3
<1> HIDE DEF r
<1> QED
  BY <1>1, <1>4, <1>5, <1>8

LEMMA ChapelAnswered ==
  ASSUME NEW g, Ready(g), NEW p \in Players, NEW answer, answer.list \in Bag,
         \A c \in Cards : answer.list[c] <= g.players[p].hand[c],
         NEW h \in ChapelOnResolve(g, p, answer)
  PROVE  /\ h.decision = NoDecision /\ h.pendingPlays = g.pendingPlays
         /\ h.supply = g.supply
         /\ h.players[Opponent(p)] = g.players[Opponent(p)]
         /\ \A c \in Cards :
              Owned(h.players[p], c) = Owned(g.players[p], c) - answer.list[c]
<1>1. h = TrashFromHand(g, p, answer.list)
  BY DEF ChapelOnResolve
<1> QED
  BY <1>1, TrashOwned DEF Ready, LocalTo, Beside, Moved

\* What a Remodel makes of game g: once card c is trashed it asks for a gain,
\* and what is gained, card c, ends it.
RemodelAsks(g, h, p, c) ==
  /\ h.decision.card = "remodel" /\ h.decision.player = p
  /\ h.decision.step = 1 /\ h.decision.limit >= 2
  /\ h.pendingPlays = g.pendingPlays /\ h.supply = g.supply
  /\ h.players[p].actions = g.players[p].actions
  /\ h.players[Opponent(p)] = g.players[Opponent(p)]
  /\ OwnsSame(g.players[p], h.players[p], {c})

RemodelEnds(g, h, p, c) ==
  /\ h.decision = NoDecision /\ h.pendingPlays = g.pendingPlays
  /\ \A x \in Cards : h.supply[x] <= g.supply[x]
  /\ h.players[p].actions = g.players[p].actions
  /\ h.players[Opponent(p)] = g.players[Opponent(p)]
  /\ OwnsSame(g.players[p], h.players[p], {c})

LEMMA RemodelTrashed ==
  ASSUME NEW g, Ready(g), NEW p \in Players, NEW d, d.step = 0,
         NEW c \in Cards, g.players[p].hand[c] > 0,
         NEW answer, answer.list = OneOf(c),
         NEW h \in RemodelOnResolve(g, p, d, answer)
  PROVE  RemodelAsks(g, h, p, c)
<1> DEFINE k == TrashFromHand(g, p, OneOf(c))
<1>1. OneOf(c) \in Bag /\ Size(OneOf(c)) = 1
  <2>1. g.players[p].hand \in Bag
    BY PlayersFact DEF Ready, PlayerState
  <2> QED
    BY <2>1, OneIsPart
<1>2. \A x \in Cards : OneOf(x) = OneOf(c) => x = c
  <2> SUFFICES ASSUME NEW x \in Cards, OneOf(x) = OneOf(c) PROVE x = c
    OBVIOUS
  <2>1. OneOf(x)[c] = OneOf(c)[c]
    OBVIOUS
  <2> QED
    BY <2>1 DEF OneOf
<1>3. h = RequestDecision(k, p, "remodel", 1, GainPrompt(Cost[c] + 2))
  BY <1>1, <1>2 DEF RemodelOnResolve
<1>4. \A x \in Cards : OneOf(c)[x] <= g.players[p].hand[x]
  <2>1. \A x \in Cards : g.players[p].hand[x] \in Nat
    BY HandsAreNat DEF Ready
  <2> QED
    BY <2>1 DEF OneOf
<1>5. /\ k \in LocalTo(g, p) /\ k.supply = g.supply
      /\ k.players[p].actions = g.players[p].actions
      /\ \A x \in Cards : Owned(k.players[p], x) = Owned(g.players[p], x) - OneOf(c)[x]
  BY <1>1, <1>4, TrashOwned DEF Ready
<1>6. /\ k \in GameStates /\ k.pendingPlays = g.pendingPlays
      /\ k.players[Opponent(p)] = g.players[Opponent(p)]
  BY <1>5 DEF LocalTo, Beside, Moved
<1> HIDE DEF k
<1>7. /\ h.decision.card = "remodel" /\ h.decision.player = p
      /\ h.decision.step = 1 /\ h.decision.limit = Cost[c] + 2
      /\ h.pendingPlays = k.pendingPlays /\ h.supply = k.supply
      /\ h.players = k.players
  BY <1>3, <1>6 DEF RequestDecision, GameStates, GainPrompt, NoPrompt
<1>8. Cost[c] \in Nat
  BY CostIsNat, CardsAssumption
<1>9. OwnsSame(g.players[p], k.players[p], {c})
  <2>1. \A x \in Cards : Owned(g.players[p], x) \in Nat
    BY PlayersFact, OwnedIsNat DEF Ready
  <2> QED
    BY <1>5, <2>1 DEF OwnsSame, OneOf
<1> QED
  BY <1>5, <1>6, <1>7, <1>8, <1>9 DEF RemodelAsks

LEMMA RemodelGained ==
  ASSUME NEW g, Ready(g), NEW p \in Players, NEW d, d.step # 0, NEW answer,
         NEW h \in RemodelOnResolve(g, p, d, answer), ~h.err
  PROVE  RemodelEnds(g, h, p, answer.choice)
<1>1. g \in GameStates /\ g.decision = NoDecision
  BY DEF Ready
<1>2. h = GainCard(g, p, answer.choice, "discard")
  BY <1>1 DEF RemodelOnResolve, Fail, GameStates
<1>3. h.decision = g.decision /\ h.pendingPlays = g.pendingPlays
  BY <1>1, <1>2, GainCardMoves DEF Moved
<1>4. /\ \A x \in Cards : h.supply[x] <= g.supply[x]
      /\ h.players[p].actions = g.players[p].actions
      /\ h.players[Opponent(p)] = g.players[Opponent(p)]
  <2>1. \A x \in Cards : h.supply[x] <= g.supply[x]
    BY <1>1, <1>2, GainOwned
  <2>2. h.players[p].actions = g.players[p].actions
    BY <1>1, <1>2, GainOwned
  <2>3. h.players[Opponent(p)] = g.players[Opponent(p)]
    BY <1>1, <1>2, GainCardLocal DEF LocalTo, Beside
  <2> QED
    BY <2>1, <2>2, <2>3
<1>5. OwnsSame(g.players[p], h.players[p], {answer.choice})
  BY <1>1, <1>2, GainOwned
<1> QED
  BY <1>1, <1>3, <1>4, <1>5 DEF RemodelEnds

LEMMA LibraryAnswered ==
  ASSUME NEW g, Ready(g), NEW d, NEW answer, answer.yes = FALSE,
         InSeq(d.shown[1], g.players[g.current].setAside),
         NEW h \in LibraryOnResolve(g, g.current, d, answer)
  PROVE  /\ Changes(g, h, g.current, {}) /\ h.pendingPlays = g.pendingPlays
         /\ h.decision # NoDecision =>
              h.decision.card = "library" /\ h.decision.player = g.current
<1> DEFINE p == g.current
           k == Kept(g, d.shown[1])
<1>1. h \in LibraryStep(k, p)
  BY DEF LibraryOnResolve, Kept
<1>2. g \in GameStates /\ p \in Players
  BY SMTT(30), PlayersFact DEF Ready
<1>3. k \in Beside(g, p) /\ Untouched(g, k)
  BY <1>2, KeptBeside DEF Kept, Untouched, GameStates
<1> HIDE DEF k
<1>4. Ready(k) /\ k.current = p /\ k.decision = NoDecision
  BY <1>3, BesideBrowsed DEF Ready
<1>5. /\ h \in Browsed(k) /\ Untouched(k, h)
      /\ h.decision # NoDecision =>
           h.decision.card = "library" /\ h.decision.player = p
  BY <1>1, <1>4, LibraryBrowses, LibraryUntouched
<1>6. h \in Browsed(g)
  BY <1>3, <1>4, <1>5, BesideBrowsed, BrowsedTwice
<1>7. /\ h \in GameStates /\ SameExisting(g, h) /\ h.pendingPlays = g.pendingPlays
      /\ h.players[Opponent(p)] = g.players[Opponent(p)]
  BY <1>6 DEF Browsed, Outcome
<1>8. Untouched(g, h)
  BY <1>3, <1>5 DEF Untouched
<1>9. \A i \in Players : SameOwned(g.players[i], h.players[i])
  BY <1>2, <1>7, <1>8, OwnersStay
<1>10. \A x \in Cards : g.supply[x] \in Nat
  BY <1>2 DEF GameStates, Bag
<1> QED
  BY <1>2, <1>5, <1>7, <1>8, <1>9, <1>10, PlayersFact
     DEF Changes, OwnsSame, SameOwned, Untouched

\* What a SentryBM trashes.
Junk == {"curse", "estate"}

LEMMA SentryMovesOwned ==
  ASSUME NEW g \in GameStates, NEW p, p = g.current, NEW names \in Seq(Cards),
         NEW step \in 0..2, step = 0 => \A i \in DOMAIN names : names[i] \in Junk,
         NEW h, h = SentryMoves(g, p, names, step)
  PROVE  /\ h \in Moved(g) /\ h.supply = g.supply
         /\ h.players[Opponent(p)] = g.players[Opponent(p)]
         /\ OwnsSame(g.players[p], h.players[p], Junk)
<1> DEFINE other == Opponent(p)
           Kin(k) == /\ k.supply = g.supply /\ k.players[other] = g.players[other]
                     /\ OwnsSame(g.players[p], k.players[p], Junk)
           S == Moved(g)
           T == {k \in S : Kin(k)}
           R == [i \in 0..Len(names) |-> T]
<1>0. p \in Players /\ names \in Seq(Cards \cup {NoCard})
  BY PlayersFact
<1>1. \A k \in S, x \in Cards \cup {NoCard} : SentryMove(k, p, x, step) \in S
  <2> SUFFICES ASSUME NEW k \in S, NEW x \in Cards \cup {NoCard}
               PROVE  SentryMove(k, p, x, step) \in S
    OBVIOUS
  <2>1. k \in GameStates /\ k.current = p
    BY DEF Moved, SameTurn
  <2> QED
    BY <2>1, SentryMoveMoves, MovedTwice
<1>2. g \in T
  BY MovedSelf DEF OwnsSame
<1>3. ASSUME NEW k \in T, NEW x \in Cards, step = 0 => x \in Junk
      PROVE  SentryMove(k, p, x, step) \in T
  <2> DEFINE a == SentryMove(k, p, x, step)
  <2>1. k \in GameStates /\ k.current = p
    BY DEF Moved, SameTurn
  <2>2. a \in Moved(k) /\ a.players[other] = k.players[other] /\ a \in S
    BY <2>1, <1>1, SentryMoveMoves, SentryMoveWaits
  <2>3. /\ a.supply = k.supply
        /\ \A c \in Cards : (step = 0 /\ c = x) \/ a.trash[c] = k.trash[c]
    <3> DEFINE out == [k EXCEPT !.players[p].setAside = WithoutCard(@, x)]
    <3>1. out.supply = k.supply /\ out.trash = k.trash
      BY <2>1 DEF GameStates
    <3>2. \/ a = k \/ a = Fail(k)
          \/ step = 0 /\ a = [out EXCEPT !.trash = AddOne(@, x)]
          \/ a = [out EXCEPT !.players[p].discard = AddOne(@, x)]
          \/ a = [out EXCEPT !.players[p].top = Append(@, x)]
      <4>1. step = 0 \/ step = 1 \/ step = 2
        OBVIOUS
      <4> HIDE DEF out
      <4> QED
        BY <4>1 DEF SentryMove, out
    <3>3. /\ {"supply", "trash", "players"} \subseteq DOMAIN out
          /\ {"supply", "trash", "players"} \subseteq DOMAIN k
      BY <2>1 DEF GameStates
    <3>4. k.trash \in Bag
      BY <2>1 DEF GameStates
    <3> HIDE DEF out
    <3>5. CASE a = k
      BY <3>5
    <3>6. CASE a = Fail(k)
      BY <2>1, <3>6 DEF Fail, GameStates
    <3>7. CASE step = 0 /\ a = [out EXCEPT !.trash = AddOne(@, x)]
      <4>1. a.supply = out.supply /\ a.trash = AddOne(out.trash, x)
        BY <3>3, <3>7
      <4>2. \A c \in Cards : c # x => a.trash[c] = k.trash[c]
        BY <3>1, <3>4, <4>1 DEF AddOne, BagPlus, OneOf, Bag
      <4> QED
        BY <3>1, <3>7, <4>1, <4>2
    <3>8. CASE a = [out EXCEPT !.players[p].discard = AddOne(@, x)]
      BY <3>1, <3>3, <3>8
    <3>9. CASE a = [out EXCEPT !.players[p].top = Append(@, x)]
      BY <3>1, <3>3, <3>9
    <3> QED
      BY <3>2, <3>5, <3>6, <3>7, <3>8, <3>9
  <2>4. a \in GameStates /\ SameExisting(k, a)
    BY <2>2 DEF Moved
  <2> HIDE DEF a
  <2>5. ASSUME NEW c \in Cards \ Junk
        PROVE  Owned(a.players[p], c) = Owned(k.players[p], c)
    <3>1. a.supply[c] = k.supply[c] /\ a.trash[c] = k.trash[c]
      BY <1>3, <2>3, <2>5
    <3> QED
      BY <1>0, <2>1, <2>2, <2>4, <3>1, OwnerStays
  <2>6. Kin(a)
    BY <2>2, <2>3, <2>5 DEF OwnsSame
  <2> QED
    BY <2>2, <2>6 DEF a
<1> HIDE DEF Kin, S
<1>4. R \in [0..Len(names) -> SUBSET S] /\ g \in R[0]
  BY <1>2
<1>5. \A i \in 0..(Len(names) - 1) : \A k \in R[i] :
        SentryMove(k, p, names[i + 1], step) \in R[i + 1]
  <2> SUFFICES ASSUME NEW i \in 0..(Len(names) - 1), NEW k \in R[i]
               PROVE  SentryMove(k, p, names[i + 1], step) \in R[i + 1]
    OBVIOUS
  <2>1. k \in T /\ names[i + 1] \in Cards /\ i + 1 \in DOMAIN names
        /\ R[i + 1] = T
    OBVIOUS
  <2> HIDE DEF T, R
  <2> QED
    BY <1>3, <2>1
<1>6. h \in R[Len(names)]
  <2> HIDE DEF R
  <2> QED
    BY <1>0, <1>1, <1>4, <1>5, SentryMovesRounds
<1> QED
  BY <1>6 DEF Kin, S

LEMMA SentryAnswered ==
  ASSUME NEW g, Ready(g), NEW d \in Decision, NEW answer, answer.order \in Seq(Cards),
         d.step = 0 => \A i \in DOMAIN answer.order : answer.order[i] \in Junk,
         NEW h \in SentryOnResolve(g, g.current, d, answer)
  PROVE  /\ Changes(g, h, g.current, Junk) /\ h.pendingPlays = g.pendingPlays
         /\ h.decision # NoDecision =>
              h.decision.card = "sentry" /\ h.decision.player = g.current
<1> DEFINE p == g.current
           k == SentryMoves(g, p, answer.order, d.step)
<1>0. g \in GameStates /\ p \in Players /\ d.step \in 0..2 /\ g.decision = NoDecision
  BY PlayersFact DEF Ready, Decision
<1>1. /\ k \in Moved(g) /\ k.supply = g.supply
      /\ k.players[Opponent(p)] = g.players[Opponent(p)]
      /\ OwnsSame(g.players[p], k.players[p], Junk)
  BY <1>0, SentryMovesOwned
<1>2. /\ k \in GameStates /\ k.current = p /\ k.decision = NoDecision
      /\ k.pendingPlays = g.pendingPlays
  BY <1>0, <1>1 DEF Moved, SameTurn
<1>3. \/ h = k \/ h = SetAsideToDeck(k, p)
      \/ \E s, prompt : h = RequestDecision(k, p, "sentry", s, prompt)
  <2> HIDE DEF k
  <2> QED
    BY DEF SentryOnResolve, SentryAdvance, k
<1> HIDE DEF k
<1>4. \A x \in Cards : g.supply[x] \in Nat
  BY <1>0 DEF GameStates, Bag
<1>5. CASE h = k
  BY <1>1, <1>2, <1>4, <1>5 DEF Changes, OwnsSame
<1>6. CASE h = SetAsideToDeck(k, p)
  <2>1. h \in Beside(k, p)
    BY <1>2, <1>6, SetAsideToDeckBeside
  <2>2. Untouched(k, h)
    BY <1>2, <1>6 DEF SetAsideToDeck, Untouched, GameStates
  <2>3. /\ Changes(k, h, p, {}) /\ h.decision = NoDecision
        /\ h.pendingPlays = g.pendingPlays
    BY <1>0, <1>2, <2>1, <2>2, UntouchedChanges
  <2> QED
    BY <1>1, <2>3 DEF Changes, OwnsSame
<1>7. CASE \E s, prompt : h = RequestDecision(k, p, "sentry", s, prompt)
  <2>1. PICK s, prompt : h = RequestDecision(k, p, "sentry", s, prompt)
    BY <1>7
  <2>2. /\ h.players = k.players /\ h.supply = k.supply
        /\ h.pendingPlays = k.pendingPlays
        /\ h.decision.card = "sentry" /\ h.decision.player = p
    BY <1>2, <2>1 DEF RequestDecision, GameStates
  <2> QED
    BY <1>1, <1>2, <1>4, <2>2 DEF Changes, OwnsSame
<1> QED
  BY <1>3, <1>5, <1>6, <1>7

\* Every replay owed is of a card ThroneRoomBM doubles.
Doubles(g) ==
  \A i \in DOMAIN g.pendingPlays : g.pendingPlays[i].card \in {"throne_room", "witch"}

\* What may come of doubling these cards: another Throne Room may ask.
Doubling(g) ==
  {h \in Outcome(g) :
     /\ Doubles(h) /\ Changes(g, h, g.current, {"curse"})
     /\ h.decision # NoDecision =>
          h.decision.card = "throne_room" /\ h.decision.player = g.current}

LEMMA ChangesTwice ==
  ASSUME NEW g \in GameStates, NEW h \in GameStates, NEW k \in GameStates,
         NEW p \in Players, NEW X, Changes(g, h, p, X), Changes(h, k, p, X)
  PROVE  Changes(g, k, p, X)
<1>1. \A x \in Cards : g.supply[x] \in Nat /\ h.supply[x] \in Nat /\ k.supply[x] \in Nat
  BY DEF GameStates, Bag
<1>2. \A x \in Cards : k.supply[x] <= g.supply[x]
  BY <1>1 DEF Changes
<1> QED
  BY <1>2 DEF Changes, OwnsSame

LEMMA DoublingSelf ==
  ASSUME NEW g, Ready(g), Doubles(g)
  PROVE  g \in Doubling(g)
<1>1. g \in Outcome(g) /\ g.decision = NoDecision /\ g \in GameStates
  BY MovedSelf, MovedReady DEF Ready
<1>2. \A x \in Cards : g.supply[x] \in Nat
  BY <1>1 DEF GameStates, Bag
<1> QED
  BY <1>1, <1>2 DEF Doubling, Changes, OwnsSame

LEMMA DoublingTwice ==
  ASSUME NEW g, Ready(g), NEW h \in Doubling(g), h.decision = NoDecision,
         NEW k \in Doubling(h)
  PROVE  k \in Doubling(g)
<1>1. h \in Outcome(g) /\ k \in Outcome(h) /\ k \in Outcome(g) /\ h.current = g.current
  BY OutcomeTwice, OutcomeTypes DEF Doubling
<1>2. g \in GameStates /\ h \in GameStates /\ k \in GameStates /\ g.current \in Players
  BY <1>1, PlayersFact, OutcomeTypes DEF Ready
<1>3. Changes(g, k, g.current, {"curse"})
  BY <1>1, <1>2, ChangesTwice DEF Doubling
<1> QED
  BY <1>1, <1>3 DEF Doubling

LEMMA UnwindOneDoubles ==
  ASSUME NEW g, Ready(g), Doubles(g), NEW k \in UnwindOne(g)
  PROVE  k \in Doubling(g)
<1> DEFINE s == g.pendingPlays
           n == Len(s)
           last == s[n]
           h == [g EXCEPT !.pendingPlays = Front(@)]
<1>1. CASE n = 0
  <2>1. k = g
    BY <1>1 DEF UnwindOne
  <2> QED
    BY <2>1, DoublingSelf
<1>2. CASE n # 0
  <2>1. /\ Ready(h) /\ h.current = g.current /\ h \in Outcome(g)
        /\ h.players = g.players
    BY <1>2, UnwindOnePlays
  <2>2. /\ s \in Seq(PendingPlay) /\ n \in 1..n /\ n \in Nat /\ DOMAIN s = 1..n
        /\ g \in GameStates
    BY <1>2 DEF Ready, GameStates
  <2>3. last.player = g.current /\ last.card \in {"throne_room", "witch"}
    BY <2>2 DEF Ready, ReplaysInPlay, Doubles
  <2>4. k \in OnPlay(h, g.current, last.card)
    BY <1>2, <2>3 DEF UnwindOne, PlayCardInPlace, Ready
  <2>5. h.pendingPlays = Front(s) /\ h.supply = g.supply
    BY <2>2 DEF GameStates
  <2>6. Doubles(h)
    <3>1. Front(s) = SubSeq(s, 1, n - 1)
      BY DEF Front
    <3>2. DOMAIN Front(s) = 1..(n - 1) /\ \A i \in 1..(n - 1) : i \in 1..n /\ Front(s)[i] = s[i]
      <4> HIDE DEF s, n
      <4>1. \A i \in 1..(n - 1) : s[i] \in PendingPlay
        BY <2>2
      <4> QED
        BY <2>2, <3>1, <4>1 DEF n
    <3> QED
      BY <2>2, <2>5, <3>2 DEF Doubles
  <2> HIDE DEF h
  <2>7. k \in Played(h, last.card)
    BY <2>1, <2>3, <2>4, BotsPlay DEF BotPlays
  <2>8. /\ k \in Outcome(h) /\ k.pendingPlays = h.pendingPlays
        /\ h.decision = NoDecision /\ g.current \in Players
    BY <2>1, <2>2, <2>7, PlayersFact DEF Played, Quiet, Gentle, Ready
  <2>9. k \in Outcome(g)
    BY <2>1, <2>8, OutcomeTwice
  <2>10. Changes(h, k, g.current, {"curse"})
    BY <2>1, <2>7, <2>8, PlayedChanges
  <2>11. Changes(g, k, g.current, {"curse"})
    BY <2>1, <2>5, <2>10 DEF Changes
  <2>12. Doubles(k)
    BY <2>6, <2>8 DEF Doubles
  <2>13. k.decision # NoDecision =>
           k.decision.card = "throne_room" /\ k.decision.player = g.current
    BY <2>1, <2>3, <2>7 DEF Played, AskedBy, AsksPlayer
  <2> QED
    BY <2>9, <2>11, <2>12, <2>13 DEF Doubling
<1> QED
  BY <1>1, <1>2

LEMMA UnwindDoubles ==
  ASSUME NEW g, Ready(g), NEW h \in Doubling(g), NEW k \in Unwind(h)
  PROVE  k \in Doubling(g)
<1>1. ASSUME NEW a \in Doubling(g), NEW b \in UnwindOne(a)
      PROVE  b \in Doubling(g)
  <2>1. CASE a.decision # NoDecision
    BY <1>1, <2>1 DEF UnwindOne
  <2>2. CASE a.decision = NoDecision
    <3>1. Ready(a) /\ Doubles(a)
      BY <2>2 DEF Doubling, Outcome, Ready
    <3> QED
      BY <1>1, <2>2, <3>1, UnwindOneDoubles, DoublingTwice
  <2> QED
    BY <2>1, <2>2
<1>2. h.pendingPlays \in Seq(PendingPlay)
  BY DEF Doubling, Outcome, GameStates
<1>3. Unwind(h) \subseteq Doubling(g)
  BY <1>1, <1>2, UnwindStays
<1> QED
  BY <1>3

LEMMA ThroneAnswered ==
  ASSUME NEW g, Ready(g), Doubles(g), NEW answer,
         answer.choice \in {"throne_room", "witch"},
         InHand(g, g.current, answer.choice),
         NEW k \in ThroneRoomOnResolve(g, g.current, answer)
  PROVE  k \in Doubling(g)
<1> DEFINE p == g.current
           c == answer.choice
           queued == [g EXCEPT !.pendingPlays = Append(@, [player |-> p, card |-> c])]
           h == Doubled(g, c)
<1>1. /\ Ready(h) /\ h \in Outcome(g) /\ h.current = p
      /\ ThroneRoomOnResolve(g, p, answer) = OnPlay(h, p, c)
  BY DoubledReady
<1>2. g \in GameStates /\ p \in Players /\ c \in Cards
  BY PlayersFact DEF Ready, InHand
<1>3. /\ queued \in GameStates /\ queued.current = p /\ queued.supply = g.supply
      /\ queued.trash = g.trash /\ queued.players = g.players
      /\ queued.pendingPlays = Append(g.pendingPlays, [player |-> p, card |-> c])
  <2> DEFINE longer == Append(g.pendingPlays, [player |-> p, card |-> c])
  <2>1. [player |-> p, card |-> c] \in PendingPlay /\ g.pendingPlays \in Seq(PendingPlay)
    BY <1>2 DEF GameStates, PendingPlay
  <2>2. longer \in Seq(PendingPlay)
    BY <2>1
  <2>3. queued = [g EXCEPT !.pendingPlays = longer]
    BY <1>2 DEF GameStates
  <2> HIDE DEF longer, queued
  <2>4. queued \in GameStates /\ queued.pendingPlays = longer
    BY <1>2, <2>2, <2>3 DEF GameStates
  <2>5. /\ queued.current = p /\ queued.supply = g.supply
        /\ queued.trash = g.trash /\ queued.players = g.players
    BY <1>2, <2>3 DEF GameStates
  <2> QED
    BY <2>4, <2>5 DEF longer
<1>4. h = InPlayFrom(queued, c, "hand")
  BY DEF Doubled
<1>5. /\ h.pendingPlays = queued.pendingPlays
      /\ h.players[Opponent(p)] = g.players[Opponent(p)]
  <2> HIDE DEF queued, h
  <2> QED
    BY <1>3, <1>4, InPlayTouches
<1>6. Untouched(g, h)
  <2>1. \E r : h = [queued EXCEPT !.players[p] = r]
    BY <1>3, <1>4 DEF InPlayFrom
  <2> HIDE DEF queued, h
  <2> QED
    BY <1>3, <2>1 DEF Untouched, GameStates
<1>7. Doubles(h)
  <2>1. g.pendingPlays \in Seq(PendingPlay)
    BY <1>2 DEF GameStates
  <2>2. \A i \in DOMAIN h.pendingPlays :
          \/ i \in DOMAIN g.pendingPlays /\ h.pendingPlays[i] = g.pendingPlays[i]
          \/ h.pendingPlays[i] = [player |-> p, card |-> c]
    <3> HIDE DEF h
    <3> QED
      BY <1>3, <1>5, <2>1
  <2> HIDE DEF h
  <2> QED
    BY <2>2 DEF Doubles
<1> HIDE DEF h, queued
<1>8. h \in Doubling(g)
  <2>1. h \in GameStates /\ SameExisting(g, h)
    BY <1>1 DEF Outcome
  <2>2. \A i \in Players : SameOwned(g.players[i], h.players[i])
    BY <1>2, <1>5, <1>6, <2>1, OwnersStay
  <2>3. \A x \in Cards : g.supply[x] \in Nat
    BY <1>2 DEF GameStates, Bag
  <2>4. Changes(g, h, p, {"curse"})
    BY <1>2, <1>6, <2>2, <2>3, PlayersFact DEF Changes, OwnsSame, SameOwned, Untouched
  <2> QED
    BY <1>1, <1>7, <2>4 DEF Doubling, Ready
<1>9. k \in Played(h, c)
  BY <1>1, BotsPlay DEF BotPlays
<1>10. k \in Doubling(h)
  <2>1. k \in Outcome(h) /\ k.pendingPlays = h.pendingPlays
    BY <1>9 DEF Played, Quiet, Gentle
  <2>2. Changes(h, k, p, {"curse"})
    BY <1>1, <1>2, <1>9, PlayedChanges
  <2>3. k.decision # NoDecision =>
           k.decision.card = "throne_room" /\ k.decision.player = p
    BY <1>1, <1>9 DEF Played, AskedBy, AsksPlayer
  <2>4. Doubles(k)
    BY <1>7, <2>1 DEF Doubles
  <2> QED
    BY <1>1, <2>1, <2>2, <2>3, <2>4 DEF Doubling
<1> QED
  BY <1>1, <1>8, <1>10, DoublingTwice DEF Ready

-----------------------------------------------------------------------------
(***************************************************************************)
(* The answers of a bot obey the prompts it is asked.                      *)
(***************************************************************************)

\* A bag below another is one of its parts.
LEMMA LowerIsPart ==
  ASSUME NEW a \in Bag, NEW b \in Bag, \A c \in Cards : a[c] <= b[c]
  PROVE  a \in SubBags(b)
<1>1. Copies(a) \subseteq Copies(b)
  BY DEF Copies, Bag
<1>2. Counted(Copies(a)) = a
  BY CopiesOfOne DEF Counted, Bag
<1> QED
  BY <1>1, <1>2 DEF SubBags, Counted

LEMMA SizeOfTwo ==
  ASSUME NEW b \in Bag, NEW x \in Cards, NEW y \in Cards, x # y,
         \A c \in Cards \ {x, y} : b[c] = 0
  PROVE  Size(b) = b[x] + b[y]
<1> DEFINE S(c) == {u \in Copies(b) : u[1] = c}
<1>1. \A c \in Cards : Cardinality(S(c)) = b[c] /\ b[c] \in Nat
  BY CopiesOfOne DEF Bag
<1>2. IsFiniteSet(Copies(b))
  BY SizeIsNat
<1>3. \A c : IsFiniteSet(S(c))
  BY <1>2, FS_Subset
<1>4. Copies(b) = S(x) \cup S(y)
  <2>1. ASSUME NEW u \in Copies(b) PROVE u[1] = x \/ u[1] = y
    <3>1. PICK c \in Cards : u \in {c} \X (1..b[c])
      BY DEF Copies
    <3>2. u[1] = c /\ 1..b[c] # {}
      BY <3>1
    <3> QED
      BY <3>2
  <2> QED
    BY <2>1
<1>5. S(x) \cap S(y) = {}
  OBVIOUS
<1> HIDE DEF S
<1>6. Cardinality(S(x) \cup S(y)) = Cardinality(S(x)) + Cardinality(S(y)) - Cardinality(S(x) \cap S(y))
  BY <1>3, FS_Union
<1>7. Cardinality(S(x) \cap S(y)) = 0
  BY <1>5, FS_EmptySet
<1> QED
  BY <1>1, <1>4, <1>6, <1>7 DEF Size

\* What a Sentry bot trashes of the cards it is shown.
LEMMA SentryTrashesJunk ==
  ASSUME NEW s \in Seq(Cards), NEW d, d.shown = s
  PROVE  /\ SentryTrashes(d) \in Seq(Cards)
         /\ \A i \in DOMAIN SentryTrashes(d) : SentryTrashes(d)[i] \in Junk
         /\ SameNames(SentryTrashes(d), s) /\ Len(SentryTrashes(d)) <= Len(s)
<1> DEFINE n == Len(s)
           more(t, c) == IF c \in Junk THEN Append(t, c) ELSE t
           step == [k \in 1..n |-> [t \in Seq(Cards) |-> more(t, s[k])]]
           Def(f) == f = [k \in 0..n |-> IF k = 0 THEN <<>>
                                         ELSE IF s[k] \in Junk
                                         THEN Append(f[k - 1], s[k]) ELSE f[k - 1]]
           trashed == CHOOSE f : Def(f)
           Fits(t, k) == /\ t \in Seq(Cards) /\ Len(t) <= k
                         /\ \A i \in DOMAIN t : t[i] \in Junk
                         /\ \A c \in Cards : BagOfSeq(t)[c] <= CountUpTo(s, c, k)
<1>1. n \in Nat /\ \A k \in 1..n : s[k] \in Cards
  BY LenProperties
<1>2. step \in [1..n -> [Seq(Cards) -> Seq(Cards)]]
  <2> HIDE DEF n
  <2>1. \A k \in 1..n, t \in Seq(Cards) : more(t, s[k]) \in Seq(Cards)
    BY <1>1
  <2> HIDE DEF more
  <2> QED
    BY <2>1
<1>3. PICK f \in [0..n -> Seq(Cards)] :
        f[0] = <<>> /\ \A k \in 1..n : f[k] = step[k][f[k - 1]]
  <2> HIDE DEF step, n
  <2>1. <<>> \in Seq(Cards)
    OBVIOUS
  <2>2. Loops(n, Seq(Cards), <<>>, step) # {}
    BY <1>1, <1>2, <2>1, Rounds
  <2> QED
    BY <2>2 DEF Loops
<1>4. Def(f)
  <2> HIDE DEF n
  <2>1. ASSUME NEW k \in 0..n, k # 0
        PROVE  f[k] = more(f[k - 1], s[k])
    <3>1. k - 1 \in 0..n /\ k \in 1..n
      BY <1>1, <2>1
    <3>2. f[k - 1] \in Seq(Cards)
      BY SMTT(30), <3>1
    <3> HIDE DEF more
    <3> QED
      BY <1>3, <3>1, <3>2
  <2> QED
    BY <1>3, <2>1
<1>5. Def(trashed)
  BY <1>4
<1>6. ASSUME NEW t, NEW k \in 0..(n - 1), Fits(t, k)
      PROVE  Fits(more(t, s[k + 1]), k + 1)
  <2> DEFINE x == s[k + 1]
  <2>1. k + 1 \in 1..n /\ x \in Cards /\ k \in 0..n
    BY <1>1
  <2>2. \A c \in Cards :
          /\ CountUpTo(s, c, k + 1) = CountUpTo(s, c, k) + OneOf(x)[c]
          /\ CountUpTo(s, c, k) \in Nat /\ OneOf(x)[c] \in Nat
    <3>1. \A c \in Cards : OneOf(x)[c] \in Nat
      BY DEF OneOf
    <3> QED
      BY <2>1, <3>1, CountsUpTo
  <2>3. \A c \in Cards : BagOfSeq(t)[c] \in Nat
    BY <1>6, SeqIsBag DEF Bag
  <2> HIDE DEF x
  <2>4. CASE x \in Junk
    <3>1. \A c \in Cards : BagOfSeq(Append(t, x))[c] = BagOfSeq(t)[c] + OneOf(x)[c]
      BY <1>6, <2>1, CountAppend
    <3>2. \A i \in DOMAIN Append(t, x) : Append(t, x)[i] \in Junk
      BY <1>6, <2>4
    <3>3. Append(t, x) \in Seq(Cards) /\ Len(Append(t, x)) <= k + 1
      BY <1>6, <2>1
    <3>4. ASSUME NEW c \in Cards
          PROVE  BagOfSeq(Append(t, x))[c] <= CountUpTo(s, c, k + 1)
      <4>1. BagOfSeq(t)[c] <= CountUpTo(s, c, k)
        BY <1>6
      <4>2. /\ BagOfSeq(Append(t, x))[c] = BagOfSeq(t)[c] + OneOf(x)[c]
            /\ CountUpTo(s, c, k + 1) = CountUpTo(s, c, k) + OneOf(x)[c]
            /\ BagOfSeq(t)[c] \in Nat /\ CountUpTo(s, c, k) \in Nat
            /\ OneOf(x)[c] \in Nat
        BY <2>2, <2>3, <3>1
      <4> HIDE DEF Fits, more
      <4> QED
        BY <4>1, <4>2
    <3> QED
      BY <2>4, <3>2, <3>3, <3>4 DEF x
  <2>5. CASE x \notin Junk
    <3>1. \A c \in Cards : BagOfSeq(t)[c] <= CountUpTo(s, c, k + 1)
      <4>1. \A c \in Cards : BagOfSeq(t)[c] <= CountUpTo(s, c, k)
        BY <1>6
      <4> HIDE DEF Fits, more
      <4> QED
        BY <2>2, <2>3, <4>1
    <3>2. Len(t) <= k + 1
      BY <1>1, <1>6
    <3> QED
      BY <1>6, <2>5, <3>1, <3>2 DEF x
  <2> QED
    BY <2>4, <2>5
<1>7. 0..n \subseteq {k \in 0..n : Fits(trashed[k], k)}
  <2> DEFINE T == {k \in 0..n : Fits(trashed[k], k)}
  <2>0. Fits(<<>>, 0)
    <3>1. \A c \in Cards : BagOfSeq(<<>>)[c] = 0
      BY CountEmpty DEF EmptyBag
    <3>2. \A c \in Cards : CountUpTo(s, c, 0) = 0
      BY CountsUpTo
    <3> QED
      BY <3>1, <3>2
  <2> HIDE DEF trashed, n
  <2>1. 0 \in T
    <3>1. 0 \in 0..n /\ trashed[0] = <<>>
      BY <1>1, <1>5
    <3> HIDE DEF Fits
    <3> QED
      BY <2>0, <3>1
  <2>2. ASSUME NEW k \in 0..(n - 1), k \in T PROVE k + 1 \in T
    <3>1. k + 1 \in 0..n /\ k + 1 # 0 /\ (k + 1) - 1 = k
      BY <1>1
    <3>2. trashed[k + 1] = more(trashed[k], s[k + 1])
      BY <1>5, <3>1
    <3> HIDE DEF Fits, more
    <3>3. Fits(trashed[k], k)
      BY <2>2
    <3>4. Fits(more(trashed[k], s[k + 1]), k + 1)
      BY <1>6, <3>3
    <3> QED
      BY <3>1, <3>2, <3>4
  <2> HIDE DEF T
  <2>3. 0..n \subseteq T
    BY <1>1, <2>1, <2>2, UpTo
  <2> QED
    BY <2>3 DEF T
<1>8. SentryTrashes(d) = trashed[n]
  BY DEF SentryTrashes, Junk
<1>9. Fits(trashed[n], n)
  <2> HIDE DEF Fits, trashed, n
  <2> QED
    BY <1>1, <1>7
<1> HIDE DEF trashed
<1>10. \A c \in Cards : CountUpTo(s, c, n) <= BagOfSeq(s)[c] /\ CountUpTo(s, c, n) \in Nat
                        /\ BagOfSeq(s)[c] \in Nat
  <2>1. n \in 0..Len(s)
    BY <1>1
  <2>2. \A c \in Cards : BagOfSeq(s)[c] \in Nat
    BY SeqIsBag DEF Bag
  <2> HIDE DEF n
  <2> QED
    BY <2>1, <2>2, CountsUpTo
<1>11. \A c \in Cards : BagOfSeq(trashed[n])[c] \in Nat
  BY <1>9, SeqIsBag DEF Bag
<1> HIDE DEF n
<1>12. SameNames(trashed[n], s)
  BY <1>9, <1>10, <1>11 DEF SameNames
<1> QED
  BY <1>8, <1>9, <1>12 DEF n

\* The prompt a bot answers and the hand it answers from.
LEMMA PromptRead ==
  ASSUME NEW g \in GameStates, g.decision # NoDecision
  PROVE  LET d == g.decision
             v == Snapshot(g, d.player)
             hand == g.players[d.player].hand
         IN  /\ d \in Decision /\ d.player \in Players
             /\ v.decision = d /\ v.hand = hand /\ v.supply = g.supply
             /\ hand \in Bag /\ \A c \in Cards : hand[c] \in Nat
             /\ InHandOf(v) = {c \in Cards : hand[c] > 0}
             /\ \A c \in Cards : HandContains(v, c) <=> hand[c] > 0
<1> DEFINE d == g.decision
           v == Snapshot(g, d.player)
           hand == g.players[d.player].hand
<1>1. d \in Decision
  BY DEF GameStates
<1>2. d.player \in Players
  BY <1>1 DEF Decision
<1>3. g.players[d.player] \in PlayerState
  BY <1>2, PlayersFact
<1>4. hand \in Bag
  BY <1>3 DEF PlayerState
<1>5. v.decision = d /\ v.hand = hand /\ v.supply = g.supply
  BY DEF Snapshot
<1> HIDE DEF d, v, hand
<1>6. \A c \in Cards : hand[c] \in Nat
  BY <1>4 DEF Bag
<1>7. /\ InHandOf(v) = {c \in Cards : hand[c] > 0}
      /\ \A c \in Cards : HandContains(v, c) <=> hand[c] > 0
  BY <1>4, <1>5 DEF InHandOf, HandContains, Bag
<1> QED
  BY <1>1, <1>2, <1>4, <1>5, <1>6, <1>7 DEF d, v, hand

LEMMA MilitiaObeyed ==
  ASSUME NEW g \in GameStates, g.decision # NoDecision, g.decision.card = "militia",
         Answerable(g.players[g.decision.player], g.decision), NEW b \in Bot,
         NEW answer \in Resolve(b, Snapshot(g, g.decision.player))
  PROVE  Obeys(g, g.decision, answer) /\ answer.list \in Bag
<1>1. b.name \in Names
  BY DEF Bot
<1>2. Resolve(b, Snapshot(g, g.decision.player))
        = Resolve(NewBot(b.name), Snapshot(g, g.decision.player))
  <2>1. NewBot(b.name).name = b.name
    BY DEF NewBot
  <2>2. Snapshot(g, g.decision.player).decision.card = "militia"
    BY DEF Snapshot
  <2> QED
    BY <2>1, <2>2 DEF Resolve
<1> QED
  BY <1>1, <1>2, AttackAnswersObey DEF ListPrompt

\* A list prompt for cards of the hand is obeyed by any part of it of a size
\* asked for.
LEMMA PartObeys ==
  ASSUME NEW g \in GameStates, g.decision # NoDecision,
         g.decision.card \in {"chapel", "remodel"}, AsksForList(g.decision),
         NEW answer, answer.list \in Bag,
         \A c \in Cards : answer.list[c] <= g.players[g.decision.player].hand[c],
         g.decision.min <= Size(answer.list), Size(answer.list) <= g.decision.max
  PROVE  Obeys(g, g.decision, answer)
<1>1. /\ g.decision \in Decision /\ g.players[g.decision.player].hand \in Bag
  BY PromptRead
<1>2. Offered(g, g.decision) = g.players[g.decision.player].hand
  BY <1>1, WholeHandOffered
<1>3. answer.list \in SubBags(g.players[g.decision.player].hand)
  BY <1>1, LowerIsPart
<1> QED
  BY <1>2, <1>3 DEF Obeys, ObedientLists

LEMMA LeastOfThree ==
  ASSUME NEW x \in Nat, NEW y \in Nat, NEW z \in Nat, NEW m \in Nat, z <= m
  PROVE  \E n \in 0..m : /\ n <= x /\ n <= y /\ n <= z
                         /\ \/ n = x \/ n = y \/ n = z
<1>1. CASE x <= y /\ x <= z
  <2>1. x \in 0..m
    BY <1>1
  <2> QED
    BY <1>1, <2>1
<1>2. CASE y <= x /\ y <= z
  <2>1. y \in 0..m
    BY <1>2
  <2> QED
    BY <1>2, <2>1
<1>3. CASE z <= x /\ z <= y
  <2>1. z \in 0..m
    OBVIOUS
  <2> QED
    BY <1>3, <2>1
<1> QED
  BY <1>1, <1>2, <1>3

LEMMA ChapelObeyed ==
  ASSUME NEW g \in GameStates, g.decision # NoDecision, g.decision.card = "chapel",
         Answerable(g.players[g.decision.player], g.decision),
         NEW b \in Bot, b.name = "chapel_bm",
         NEW answer \in Resolve(b, Snapshot(g, g.decision.player))
  PROVE  /\ Obeys(g, g.decision, answer) /\ answer.list \in Bag
         /\ \A c \in Cards : answer.list[c] <= g.players[g.decision.player].hand[c]
         /\ \A c \in Cards \ {"estate", "copper"} : answer.list[c] = 0
         /\ b.trashed <= 4 => b.trashed + answer.list["copper"] <= 4
<1> DEFINE d == g.decision
           v == Snapshot(g, d.player)
           hand == g.players[d.player].hand
           spare == IF b.trashed < 4 THEN 4 - b.trashed ELSE 0
           estates == IF hand["estate"] < d.max THEN hand["estate"] ELSE d.max
           Fits(n) == /\ n <= hand["copper"] /\ n <= spare /\ n <= d.max - estates
                      /\ \/ n = hand["copper"] \/ n = spare \/ n = d.max - estates
           coppers == CHOOSE n \in 0..d.max : Fits(n)
           list == [c \in Cards |-> CASE c = "estate" -> estates
                                      [] c = "copper" -> coppers [] OTHER -> 0]
<1>1. /\ d \in Decision /\ hand \in Bag /\ v.decision = d /\ v.hand = hand
      /\ \A c \in Cards : hand[c] \in Nat
  BY PromptRead
<1>2. "estate" \in Cards /\ "copper" \in Cards
  BY CardsAssumption DEF BasicCards
<1>3. d.max \in Nat /\ d.min = 0 /\ AsksForList(d)
  BY <1>1 DEF Decision, Answerable, AsksForList, ListCards
<1>4. b.trashed \in Nat
  BY DEF Bot
<1>5. answer = [list |-> list]
  <2>1. answer \in Resolve(b, v)
    OBVIOUS
  <2>2. ChapelTrashes(b, v, d) = list
    BY <1>1 DEF ChapelTrashes
  <2>3. d.card = "chapel"
    OBVIOUS
  <2> HIDE DEF list, v, d
  <2> QED
    BY <1>1, <2>1, <2>2, <2>3 DEF Resolve
<1> HIDE DEF d, v, hand
<1>6. /\ hand["estate"] \in Nat /\ hand["copper"] \in Nat
  BY <1>1, <1>2
<1>7. spare \in Nat /\ (b.trashed <= 4 => b.trashed + spare <= 4)
  BY <1>4
<1> HIDE DEF spare
<1>8. estates \in Nat /\ estates <= hand["estate"] /\ estates <= d.max
      /\ d.max - estates \in 0..d.max
  BY <1>3, <1>6
<1> HIDE DEF estates
<1>9. \E n \in 0..d.max : Fits(n)
  <2> DEFINE x == hand["copper"]
             z == d.max - estates
  <2>1. x \in Nat /\ spare \in Nat /\ z \in Nat /\ z <= d.max /\ d.max \in Nat
    BY <1>3, <1>6, <1>7, <1>8
  <2> HIDE DEF x, z
  <2>2. \E n \in 0..d.max : /\ n <= x /\ n <= spare /\ n <= z
                            /\ \/ n = x \/ n = spare \/ n = z
    BY <2>1, LeastOfThree
  <2> QED
    BY <2>2 DEF x, z
<1>10. coppers \in 0..d.max /\ Fits(coppers)
  BY <1>9
<1> HIDE DEF coppers
<1>11. /\ coppers \in Nat /\ coppers <= hand["copper"] /\ coppers <= spare
       /\ estates + coppers <= d.max
  BY <1>3, <1>8, <1>10
<1>12. /\ list["estate"] = estates /\ list["copper"] = coppers
       /\ \A c \in Cards \ {"estate", "copper"} : list[c] = 0
       /\ list \in [Cards -> Nat]
  BY <1>2, <1>8, <1>11
<1> HIDE DEF list
<1>13. \A c \in Cards : list[c] <= hand[c]
  <2> SUFFICES ASSUME NEW c \in Cards PROVE list[c] <= hand[c]
    OBVIOUS
  <2>1. CASE c = "estate"
    BY <2>1, <1>8, <1>12
  <2>2. CASE c = "copper"
    BY <2>2, <1>11, <1>12
  <2>3. CASE c \notin {"estate", "copper"}
    BY <2>3, <1>1, <1>12
  <2> QED
    BY <2>1, <2>2, <2>3
<1>14. Size(list) = estates + coppers
  BY <1>2, <1>12, SizeOfTwo DEF Bag
<1>15. d.min <= Size(list) /\ Size(list) <= d.max
  BY <1>3, <1>8, <1>11, <1>14
<1>16. b.trashed <= 4 => b.trashed + coppers <= 4
  BY <1>4, <1>7, <1>11
<1>17. answer.list = list
  BY <1>5
<1>18. Obeys(g, d, answer)
  BY <1>3, <1>12, <1>13, <1>15, <1>17, PartObeys DEF d, hand, Bag
<1> QED
  BY <1>12, <1>13, <1>16, <1>17, <1>18 DEF Bag, hand, d

LEMMA RemodelTrashObeyed ==
  ASSUME NEW g \in GameStates, g.decision # NoDecision, g.decision.card = "remodel",
         g.decision.step = 0,
         Answerable(g.players[g.decision.player], g.decision),
         NEW b \in Bot, b.name = "remodel_bm",
         NEW answer \in Resolve(b, Snapshot(g, g.decision.player))
  PROVE  /\ Obeys(g, g.decision, answer) /\ answer.list \in Bag
         /\ \E c \in Cards : /\ g.players[g.decision.player].hand[c] > 0
                             /\ answer.list = OneOf(c)
<1> DEFINE d == g.decision
           v == Snapshot(g, d.player)
           hand == g.players[d.player].hand
<1>1. /\ d \in Decision /\ hand \in Bag /\ v.decision = d /\ v.hand = hand
      /\ InHandOf(v) = {c \in Cards : hand[c] > 0}
      /\ \A c \in Cards : HandContains(v, c) <=> hand[c] > 0
      /\ \A c \in Cards : hand[c] \in Nat
  BY PromptRead
<1>2. d.min = 1 /\ d.max = 1 /\ AsksForList(d)
  BY DEF Answerable, AsksForList
<1>3. answer \in RemodelAnswers(v, d)
  <2>1. answer \in Resolve(b, v) /\ d.card = "remodel"
    OBVIOUS
  <2> HIDE DEF v, d
  <2> QED
    BY <1>1, <2>1 DEF Resolve
<1>4. \E c \in Cards : hand[c] > 0 /\ answer = [list |-> OneOf(c)]
  <2> DEFINE S == IF HandContains(v, "estate") THEN {"estate"} ELSE Cheapest(InHandOf(v))
  <2>1. d.step = 0
    OBVIOUS
  <2> HIDE DEF d, v, hand
  <2>2. PICK c \in S : answer = [list |-> OneOf(c)]
    BY <1>3, <2>1 DEF RemodelAnswers
  <2>3. "estate" \in Cards
    BY CardsAssumption DEF BasicCards
  <2>4. c \in Cards /\ hand[c] > 0
    BY <1>1, <2>2, <2>3 DEF Cheapest
  <2> QED
    BY <2>2, <2>4
<1>5. PICK c \in Cards : hand[c] > 0 /\ answer = [list |-> OneOf(c)]
  BY <1>4
<1>6. OneOf(c) \in Bag /\ Size(OneOf(c)) = 1
  BY <1>1, <1>5, OneIsPart
<1>7. \A x \in Cards : OneOf(c)[x] <= hand[x]
  BY <1>1, <1>5 DEF OneOf
<1>8. answer.list = OneOf(c)
  BY <1>5
<1> HIDE DEF d, hand, v
<1>9. Obeys(g, d, answer)
  BY <1>2, <1>6, <1>7, <1>8, PartObeys DEF d, hand
<1> QED
  BY <1>5, <1>6, <1>8, <1>9 DEF d, hand

\* The bots' own table never has a card for less than it costs.
LEMMA TablePrices ==
  ASSUME NEW c \in Cards
  PROVE  /\ Cost[c] <= CardCost(c) /\ Cost[c] \in Nat
         /\ CardCost(c) \in {0, 2, 3, 4, 5, 6, 8}
<1>1. c \in Registered
  BY CardsAssumption
<1>2. Cost[c] \in Nat
  BY <1>1, CostIsNat
<1>3. Cost[c] <= CardCost(c) /\ CardCost(c) \in {0, 2, 3, 4, 5, 6, 8}
  BY <1>1 DEF Registered, CardTypes, Cost, CardCost
<1> QED
  BY <1>2, <1>3

LEMMA SomeDearest ==
  ASSUME NEW S \in SUBSET Cards, S # {}
  PROVE  Dearest(S) # {}
<1>1. \A c \in S : CardCost(c) \in {0, 2, 3, 4, 5, 6, 8}
  BY TablePrices
<1> DEFINE Top(n) == \A c \in S : CardCost(c) <= n
           Has(n) == \E c \in S : CardCost(c) = n
<1>2. Top(8)
  BY <1>1
<1>3. \A n \in {0, 2, 3, 4, 5, 6, 8} : Top(n) /\ Has(n) => Dearest(S) # {}
  BY DEF Dearest
<1>4. /\ Top(8) /\ ~Has(8) => Top(6)
      /\ Top(6) /\ ~Has(6) => Top(5)
      /\ Top(5) /\ ~Has(5) => Top(4)
      /\ Top(4) /\ ~Has(4) => Top(3)
      /\ Top(3) /\ ~Has(3) => Top(2)
      /\ Top(2) /\ ~Has(2) => Top(0)
      /\ Top(0) => Has(0)
  BY <1>1
<1> HIDE DEF Top, Has
<1> QED
  BY <1>2, <1>3, <1>4

\* Before the game is over, one of three cheap piles is left.
LEMMA CheapPileLeft ==
  ASSUME NEW g \in GameStates, ~IsGameOver(g), NEW n \in Nat, n >= 2,
         NEW v, v.supply = g.supply
  PROVE  /\ WithinCost(v, n) # {}
         /\ WithinCost(v, n) = {c \in Cards : g.supply[c] > 0 /\ CardCost(c) <= n}
<1>1. WithinCost(v, n) = {c \in Cards : g.supply[c] > 0 /\ CardCost(c) <= n}
  BY DEF WithinCost, GameStates, Bag
<1>2. {"copper", "curse", "estate"} \subseteq Cards
  BY CardsAssumption DEF BasicCards
<1>3. ~(g.supply["copper"] = 0 /\ g.supply["curse"] = 0 /\ g.supply["estate"] = 0)
  BY <1>2, GameOverMeans
<1>4. \A c \in Cards : g.supply[c] \in Nat
  BY DEF GameStates, Bag
<1>5. CardCost("copper") = 0 /\ CardCost("curse") = 0 /\ CardCost("estate") = 2
  BY DEF CardCost
<1> QED
  BY <1>1, <1>2, <1>3, <1>4, <1>5

LEMMA RemodelGainObeyed ==
  ASSUME NEW g \in GameStates, g.decision # NoDecision, g.decision.card = "remodel",
         g.decision.step # 0, g.decision.limit >= 2, ~IsGameOver(g),
         NEW b \in Bot, b.name = "remodel_bm",
         NEW answer \in Resolve(b, Snapshot(g, g.decision.player))
  PROVE  /\ Obeys(g, g.decision, answer) /\ answer.choice \in Cards
         /\ g.supply["silver"] > 0 => answer.choice # "remodel"
<1> DEFINE d == g.decision
           v == Snapshot(g, d.player)
           priorities == <<"province", "gold", "silver", "duchy">>
           within(c) == CardCost(c) <= d.limit /\ SupplyCount(v, c) > 0
           wanted == {i \in 1..4 : within(priorities[i])}
           first == CHOOSE i \in wanted : \A j \in wanted : i <= j
           S == WithinCost(v, d.limit)
<1>1. d \in Decision /\ v.decision = d /\ v.supply = g.supply
  BY PromptRead
<1>2. d.limit \in Nat
  BY <1>1 DEF Decision
<1>3. answer \in RemodelAnswers(v, d) /\ d.step # 0 /\ d.limit >= 2
  <2>1. answer \in Resolve(b, v) /\ d.card = "remodel"
    OBVIOUS
  <2>2. d.step # 0 /\ d.limit >= 2
    OBVIOUS
  <2> HIDE DEF v, d
  <2> QED
    BY <1>1, <2>1, <2>2 DEF Resolve
<1>4. /\ ~AsksForList(d)
      /\ ObedientChoices(g, d) = {c \in Cards : g.supply[c] > 0 /\ Cost[c] <= d.limit}
  <2>1. d.card = "remodel"
    OBVIOUS
  <2> HIDE DEF d
  <2> QED
    BY <1>3, <2>1 DEF AsksForList, ListCards, ObedientChoices
<1>5. S # {} /\ S = {c \in Cards : g.supply[c] > 0 /\ CardCost(c) <= d.limit}
  BY <1>1, <1>2, <1>3, CheapPileLeft
<1> HIDE DEF v, d
<1>6. answer.choice \in IF wanted # {} THEN {priorities[first]}
                        ELSE OrElse(Dearest(S), {"copper"})
  BY <1>3 DEF RemodelAnswers
<1> HIDE DEF S
<1>7. {"province", "gold", "silver", "duchy"} \subseteq Cards
  BY CardsAssumption DEF BasicCards
<1>8. \A c \in Cards : SupplyCount(v, c) = g.supply[c]
  BY <1>1 DEF SupplyCount, GameStates, Bag
<1>9. CASE wanted # {}
  <2>1. first \in wanted
    <3>1. wanted \subseteq 1..4
      OBVIOUS
    <3> HIDE DEF wanted
    <3>2. \A i \in wanted : i = 1 \/ i = 2 \/ i = 3 \/ i = 4
      BY <3>1
    <3>3. CASE 1 \in wanted
      BY <3>2, <3>3
    <3>4. CASE 1 \notin wanted /\ 2 \in wanted
      BY <3>2, <3>4
    <3>5. CASE 1 \notin wanted /\ 2 \notin wanted /\ 3 \in wanted
      BY <3>2, <3>5
    <3>6. CASE 1 \notin wanted /\ 2 \notin wanted /\ 3 \notin wanted
      BY <1>9, <3>2, <3>6
    <3> QED
      BY <3>3, <3>4, <3>5, <3>6
  <2> HIDE DEF first
  <2>2. first \in 1..4 /\ within(priorities[first])
    BY <2>1
  <2>3. priorities[first] \in {"province", "gold", "silver", "duchy"}
    BY <2>2
  <2>4. answer.choice = priorities[first]
    BY <1>6, <1>9
  <2> HIDE DEF wanted, priorities
  <2>5. /\ answer.choice \in Cards /\ answer.choice # "remodel"
        /\ g.supply[answer.choice] > 0 /\ CardCost(answer.choice) <= d.limit
    BY <1>7, <1>8, <2>2, <2>3, <2>4
  <2> QED
    BY <1>2, <1>4, <2>5, TablePrices DEF Obeys, d
<1>10. CASE wanted = {}
  <2>1. Dearest(S) # {}
    BY <1>5, SomeDearest
  <2>2. answer.choice \in S
    BY <1>6, <1>10, <2>1 DEF OrElse, Dearest
  <2>3. /\ answer.choice \in Cards /\ g.supply[answer.choice] > 0
        /\ CardCost(answer.choice) <= d.limit
    BY <1>5, <2>2
  <2>4. CardCost("silver") = 3 /\ CardCost("remodel") = 4
    BY DEF CardCost
  <2>5. g.supply["silver"] > 0 => ~(3 <= d.limit)
    <3>1. ~within(priorities[3]) /\ priorities[3] = "silver"
      BY <1>10
    <3> QED
      BY <1>7, <1>8, <2>4, <3>1
  <2> HIDE DEF wanted
  <2>6. g.supply["silver"] > 0 => answer.choice # "remodel"
    BY <1>2, <2>3, <2>4, <2>5
  <2>7. Cost[answer.choice] <= d.limit
    <3>1. CardCost(answer.choice) \in Nat
      BY <2>3, TablePrices
    <3> QED
      BY <1>2, <2>3, <3>1, TablePrices
  <2> QED
    BY <1>4, <2>3, <2>6, <2>7 DEF Obeys, d
<1> QED
  BY <1>9, <1>10

LEMMA LibraryObeyed ==
  ASSUME NEW g \in GameStates, g.decision # NoDecision, g.decision.card = "library",
         NEW b, NEW answer \in Resolve(b, Snapshot(g, g.decision.player))
  PROVE  Obeys(g, g.decision, answer) /\ answer.yes = FALSE
<1> DEFINE d == g.decision
           v == Snapshot(g, d.player)
<1>1. v.decision = d
  BY PromptRead
<1>2. answer \in Resolve(b, v) /\ d.card = "library"
  OBVIOUS
<1> HIDE DEF d, v
<1>3. answer \in SafeRefusal(v, d)
  BY <1>1, <1>2 DEF Resolve
<1>4. answer = [yes |-> FALSE]
  BY <1>2, <1>3 DEF SafeRefusal, PromptKind
<1>5. Obeys(g, d, answer)
  BY <1>2 DEF Obeys, AsksForList, ListCards, YesNoCards
<1> QED
  BY <1>4, <1>5 DEF d

LEMMA SentryObeyed ==
  ASSUME NEW g \in GameStates, g.decision # NoDecision, g.decision.card = "sentry",
         NEW b \in Bot, b.name = "sentry_bm",
         NEW answer \in Resolve(b, Snapshot(g, g.decision.player))
  PROVE  /\ Obeys(g, g.decision, answer) /\ answer.order \in Seq(Cards)
         /\ SameNames(answer.order, g.decision.shown)
         /\ Len(answer.order) <= Len(g.decision.shown)
         /\ answer = [order |-> answer.order]
         /\ g.decision.step = 0 =>
              \A i \in DOMAIN answer.order : answer.order[i] \in Junk
<1> DEFINE d == g.decision
           v == Snapshot(g, d.player)
<1>1. d \in Decision /\ v.decision = d
  BY PromptRead
<1>2. answer \in Resolve(b, v) /\ d.card = "sentry"
  OBVIOUS
<1>3. d.shown \in Seq(Cards) /\ d.step \in 0..2
  BY <1>1 DEF Decision
<1> HIDE DEF d, v
<1>4. ~AsksForList(d)
  BY <1>2 DEF AsksForList, ListCards
<1>5. \A c \in Cards : BagOfSeq(d.shown)[c] \in Nat
  BY <1>3, SeqIsBag DEF Bag
<1>6. CASE d.step = 0
  <2>1. answer = [order |-> SentryTrashes(d)]
    BY <1>1, <1>2, <1>6 DEF Resolve
  <2> QED
    BY <1>2, <1>3, <1>4, <1>6, <2>1, SentryTrashesJunk DEF Obeys, d
<1>7. CASE d.step # 0
  <2>1. answer \in SafeRefusal(v, d)
    BY <1>1, <1>2, <1>7 DEF Resolve
  <2>2. PromptKind(d) = <<"TrashFromRevealed", "DiscardFromRevealed",
                          "ReorderCards">>[d.step + 1]
    BY <1>2 DEF PromptKind
  <2>3. CASE d.step = 1
    <3>1. PromptKind(d) = "DiscardFromRevealed"
      BY <2>2, <2>3
    <3>2. answer = [order |-> <<>>]
      BY <2>1, <3>1 DEF SafeRefusal
    <3>3. SameNames(<<>>, d.shown)
      BY <1>5, CountEmpty DEF SameNames, EmptyBag
    <3>4. <<>> \in Seq(Cards)
      OBVIOUS
    <3> QED
      BY <1>2, <1>4, <2>3, <3>2, <3>3, <3>4 DEF Obeys, d
  <2>4. CASE d.step = 2
    <3>1. PromptKind(d) = "ReorderCards"
      BY <2>2, <2>4
    <3>2. answer = [order |-> d.shown]
      BY <2>1, <3>1 DEF SafeRefusal
    <3>3. SameNames(d.shown, d.shown)
      BY <1>5 DEF SameNames
    <3> QED
      BY <1>2, <1>3, <1>4, <2>4, <3>2, <3>3 DEF Obeys, d
  <2> QED
    BY <1>3, <1>7, <2>3, <2>4
<1> QED
  BY <1>6, <1>7

LEMMA HeldIsOwned ==
  ASSUME NEW q \in PlayerState, NEW c \in Cards
  PROVE  q.hand[c] \in Nat /\ q.hand[c] <= Owned(q, c)
BY CountsAreNat DEF Owned

LEMMA BotsKnowActions ==
  ASSUME NEW c \in Cards
  PROVE  IsAction(c) <=> HasType(c, "action")
<1>1. c \in Registered
  BY CardsAssumption
<1> QED
  BY <1>1 DEF Registered, CardTypes, IsAction, HasType

\* The actions in the hand of a ThroneRoomBM.
LEMMA ThroneRoomHand ==
  ASSUME NEW g \in GameStates, NEW p \in Players, NEW b, b.name = "throneroom_bm",
         OwnsWhatItKnows(b, g.players[p])
  PROVE  \A c \in Cards : g.players[p].hand[c] > 0 /\ HasType(c, "action") =>
                            c \in {"throne_room", "witch"}
<1>1. g.players[p] \in PlayerState
  BY PlayersFact
<1> QED
  BY <1>1, HeldIsOwned DEF OwnsWhatItKnows

LEMMA ThroneObeyed ==
  ASSUME NEW g \in GameStates, g.decision # NoDecision, g.decision.card = "throne_room",
         Answerable(g.players[g.decision.player], g.decision),
         NEW b \in Bot, b.name = "throneroom_bm",
         OwnsWhatItKnows(b, g.players[g.decision.player]),
         NEW answer \in Resolve(b, Snapshot(g, g.decision.player))
  PROVE  /\ Obeys(g, g.decision, answer) /\ answer.choice \in {"throne_room", "witch"}
         /\ InHand(g, g.decision.player, answer.choice)
<1> DEFINE d == g.decision
           v == Snapshot(g, d.player)
           q == g.players[d.player]
           actions == {c \in InHandOf(v) : IsAction(c)}
<1>1. /\ d \in Decision /\ v.decision = d /\ d.player \in Players
      /\ InHandOf(v) = {c \in Cards : q.hand[c] > 0}
      /\ \A c \in Cards : HandContains(v, c) <=> q.hand[c] > 0
  BY PromptRead
<1>2. actions = {c \in Cards : q.hand[c] > 0 /\ HasType(c, "action")}
  BY <1>1, BotsKnowActions
<1>3. HasCardOf(q, "action") /\ d.card = "throne_room"
  BY DEF Answerable
<1>4. actions # {} /\ actions \subseteq {"throne_room", "witch"}
  BY <1>1, <1>2, <1>3, ThroneRoomHand DEF HasCardOf
<1>5. "witch" \in actions => HandContains(v, "witch")
  BY <1>1, <1>2
<1>6. HandContains(v, "witch") => "witch" \in actions
  <2>1. HandContains(v, "witch") => "witch" \in InHandOf(v)
    BY DEF HandContains, InHandOf
  <2> QED
    BY <2>1 DEF IsAction
<1>a. answer \in Resolve(b, v)
  OBVIOUS
<1>7. ObedientChoices(g, d) = actions /\ ~AsksForList(d) /\ d.card \notin YesNoCards
  BY <1>2, <1>3 DEF ObedientChoices, AsksForList, ListCards, YesNoCards
<1>b. \A c \in actions : InHand(g, d.player, c)
  BY <1>2 DEF InHand
<1> HIDE DEF d, v, q
<1>8. answer \in {[choice |-> c] : c \in ThroneRoomTargets(v)}
  BY <1>1, <1>3, <1>a DEF Resolve
<1>9. ThroneRoomTargets(v) \subseteq actions
  <2>1. ThroneRoomTargets(v) = IF HandContains(v, "witch") THEN {"witch"}
          ELSE OrElse(OrElse(actions \ {"throne_room"}, actions), {NoCard})
    BY DEF ThroneRoomTargets
  <2> HIDE DEF actions
  <2> QED
    BY <1>4, <1>6, <2>1 DEF OrElse
<1> HIDE DEF actions
<1>10. answer.choice \in actions
  BY <1>8, <1>9
<1>11. Obeys(g, d, answer)
  BY <1>3, <1>7, <1>10 DEF Obeys
<1> QED
  BY <1>4, <1>b, <1>10, <1>11 DEF d

-----------------------------------------------------------------------------
(***************************************************************************)
(* One answer of a bot.                                                    *)
(***************************************************************************)

\* The game a handler of an answer sees.
Cleared(g) == [g EXCEPT !.err = FALSE, !.decision = NoDecision]

LEMMA ClearedSame ==
  ASSUME NEW g0, Sound(g0)
  PROVE  LET g == Cleared(g0)
         IN  /\ Ready(g) /\ g \in GameStates /\ ~g.err /\ SameTurn(g0, g)
             /\ g.decision = NoDecision
             /\ g.players = g0.players /\ g.supply = g0.supply /\ g.trash = g0.trash
             /\ g.current = g0.current /\ g.pendingPlays = g0.pendingPlays
<1> DEFINE g == Cleared(g0)
<1>1. /\ g \in GameStates /\ ~g.err /\ SameTurn(g0, g)
      /\ g.decision = NoDecision
      /\ g.players = g0.players /\ g.supply = g0.supply /\ g.trash = g0.trash
      /\ g.current = g0.current /\ g.pendingPlays = g0.pendingPlays
  BY DEF Sound, Cleared, GameStates, SameTurn
<1> HIDE DEF g
<1>2. \A x : Replays(g, x) = Replays(g0, x)
  BY <1>1 DEF Replays
<1>3. Ready(g)
  BY <1>1, <1>2 DEF Ready, Sound, ReplaysInPlay
<1> QED
  BY <1>1, <1>3 DEF g

\* An answer that obeys its prompt is accepted, and the replays owed follow.
LEMMA AnswerGiven ==
  ASSUME NEW g0, Sound(g0), Truthful(g0), ~g0.ended, g0.decision # NoDecision,
         NEW act, act.kind = "resolve", act.id = g0.decision.id,
         act.player = g0.decision.player, Obeys(g0, g0.decision, act.answer),
         ListPrompt(g0.decision) => act.answer.list \in Bag,
         g0.decision.card = "sentry" => act.answer.order \in Seq(Cards),
         NEW h \in Apply(g0, act)
  PROVE  /\ ~h.err /\ SameTurn(g0, h) /\ Sound(h)
         /\ \E k \in OnResolve(Cleared(g0), g0.decision, act.answer) :
              ~k.err /\ k \in Outcome(Cleared(g0)) /\ h \in Unwind(k)
<1> DEFINE d == g0.decision
           g == [g0 EXCEPT !.err = FALSE]
           c == Cleared(g0)
<1>1. /\ ListPrompt(d) => act.answer.list \in Bag
      /\ d.card = "sentry" => act.answer.order \in Seq(Cards \cup {NoCard})
  OBVIOUS
<1>2. WellFormed(g0, act)
  BY <1>1 DEF WellFormed
<1>3. ~h.err
  BY <1>2, ApplySincere
<1>4. SameTurn(g0, h) /\ Sound(h)
  BY <1>2, ApplyKeeps DEF Visible, Keeps
<1>5. /\ g.decision = d /\ g.ended = g0.ended
      /\ [g EXCEPT !.decision = NoDecision] = c
  BY DEF Sound, GameStates, Cleared
<1>6. h \in ApplyResolveDecision(g, act.player, act.id, act.answer)
  BY <1>5 DEF Apply
<1>7. PICK k \in OnResolve(c, d, act.answer) : h \in IF k.err THEN {k} ELSE Unwind(k)
  <2> HIDE DEF g, c
  <2> QED
    BY <1>5, <1>6 DEF ApplyResolveDecision
<1>8. ~k.err /\ h \in Unwind(k)
  BY <1>3, <1>7
<1>9. k \in Outcome(c)
  <2>1. /\ Ready(c) /\ c.current = g0.current /\ c.players = g0.players
    BY ClearedSame
  <2>2. d \in Decision
    BY DEF Sound, GameStates
  <2> HIDE DEF c
  <2>3. d.card \in AttackAskers \/ d.player = c.current
    BY <2>1 DEF Sound, CurrentAsks
  <2>4. d.card = "library" => InSeq(d.shown[1], c.players[d.player].setAside)
    BY <2>1 DEF Sound, LibraryShown
  <2> HIDE DEF d
  <2>5. OnResolve(c, d, act.answer) \subseteq Outcome(c)
    BY <1>1, <2>1, <2>2, <2>3, <2>4, OnResolveOutcome
  <2> QED
    BY <1>7, <2>5
<1> QED
  BY <1>3, <1>4, <1>7, <1>8, <1>9 DEF c

\* Bot b of player p, in a game in which a bot of the name given has its turn.
Playing(g, name, p, b) ==
  /\ name \in Names /\ b \in Bot /\ p \in Players
  /\ p = g.current => b.name = name
  /\ GameHolds(g, name)
  /\ NotesHold(b, p, g) /\ OwnsWhatItKnows(b, g.players[p])

\* What a move of player p, whose bot is r from then on, leaves to both.
Leaves(g, h, name, p, r) ==
  /\ GameHolds(h, name)
  /\ NotesHold(r, p, h) /\ OwnsWhatItKnows(r, h.players[p])
  /\ OwnsSame(g.players[Opponent(p)], h.players[Opponent(p)], {"curse"})
  /\ \A x \in Cards : h.supply[x] <= g.supply[x]

\* No strategy notes a Curse or an Estate.
LEMMA NotesStay ==
  ASSUME NEW g \in GameStates, NEW h, NEW p, NEW b \in Bot,
         NotesHold(b, p, g), OwnsWhatItKnows(b, g.players[p]),
         OwnsSame(g.players[p], h.players[p], Junk),
         h.supply["silver"] \in Nat, h.supply["silver"] <= g.supply["silver"]
  PROVE  NotesHold(b, p, h) /\ OwnsWhatItKnows(b, h.players[p])
<1>1. NotedCard(b.name) \notin Junk
  BY DEF Bot, Names, NotedCard, Signature, NoCard, Junk
<1>2. "copper" \in Cards \ Junk /\ "silver" \in Cards
  BY CardsAssumption DEF BasicCards, Junk
<1>3. g.supply["silver"] \in Nat
  BY <1>2 DEF GameStates, Bag
<1>4. \A c \in Cards : HasType(c, "action") => c \in Cards \ Junk
  BY DEF HasType, CardTypes, Junk
<1>5. \A c \in Cards \ Junk : Owned(h.players[p], c) = Owned(g.players[p], c)
  BY DEF OwnsSame
<1>6. h.supply["silver"] > 0 => g.supply["silver"] > 0
  BY <1>3
<1>7. NotesHold(b, p, h)
  <2> DEFINE card == NotedCard(b.name)
  <2>1. card \in Cards => card \in Cards \ Junk
    BY <1>1
  <2> HIDE DEF card
  <2>2. card \in Cards /\ (b.name = "remodel_bm" => h.supply["silver"] > 0)
          => Owned(h.players[p], card) = StartDeck[p][card] + b.bought
    BY <1>5, <1>6, <2>1 DEF NotesHold, card
  <2>3. b.name = "chapel_bm" =>
          /\ Owned(h.players[p], "copper") = StartDeck[p]["copper"] - b.trashed
          /\ b.trashed <= 4
    BY <1>2, <1>5 DEF NotesHold
  <2> QED
    BY <2>2, <2>3 DEF NotesHold, card
<1>8. OwnsWhatItKnows(b, h.players[p])
  BY <1>4, <1>5 DEF OwnsWhatItKnows
<1> QED
  BY <1>7, <1>8

LEMMA FewerOwnedSame ==
  ASSUME NEW q, NEW r, NEW X, OwnsSame(q, r, X), X \subseteq Junk
  PROVE  OwnsSame(q, r, Junk)
BY DEF OwnsSame

\* Changes of a move that neither asks nor owes anything new.
LEMMA ChangesLeave ==
  ASSUME NEW g \in GameStates, NEW h \in GameStates, NEW name, NEW p, NEW b,
         Playing(g, name, p, b), NEW X, X \subseteq Junk, Changes(g, h, p, X),
         Familiar(h, name), RemodelInTime(h, name)
  PROVE  Leaves(g, h, name, p, b)
<1>1. OwnsSame(g.players[p], h.players[p], Junk)
  BY FewerOwnedSame DEF Changes
<1>2. "silver" \in Cards
  BY CardsAssumption DEF BasicCards
<1>3. h.supply["silver"] \in Nat /\ h.supply["silver"] <= g.supply["silver"]
  BY <1>2 DEF Changes, GameStates, Bag
<1>4. NotesHold(b, p, h) /\ OwnsWhatItKnows(b, h.players[p])
  BY <1>1, <1>3, NotesStay DEF Playing
<1> QED
  BY <1>4 DEF Leaves, GameHolds, Changes

\* Who is asked what.
LEMMA ExpectedCases ==
  ASSUME NEW g, NEW name \in Names, Expected(g, name)
  PROVE  LET d == g.decision
         IN  \/ /\ d.player = Opponent(g.current) /\ d.card = "militia"
                /\ name = "militia_bm"
             \/ /\ d.player = g.current
                /\ \/ d.card = "chapel" /\ name = "chapel_bm"
                   \/ d.card = "remodel" /\ name = "remodel_bm"
                   \/ d.card = "library" /\ name = "library_bm"
                   \/ d.card = "sentry" /\ name = "sentry_bm"
                   \/ d.card = "throne_room" /\ name = "throneroom_bm"
<1>1. CASE /\ g.decision.player = Opponent(g.current) /\ g.decision.card = "militia"
           /\ name = "militia_bm"
  BY <1>1
<1>2. CASE g.decision.player = g.current /\ g.decision.card \in Plays(name) \cap AsksPlayer
  <2> DEFINE c == g.decision.card
  <2>1. c \in Plays(name) /\ c \in {"chapel", "remodel", "library", "sentry", "throne_room"}
    BY <1>2 DEF AsksPlayer
  <2> HIDE DEF c
  <2>2. \/ c = "chapel" /\ name = "chapel_bm"
        \/ c = "remodel" /\ name = "remodel_bm"
        \/ c = "library" /\ name = "library_bm"
        \/ c = "sentry" /\ name = "sentry_bm"
        \/ c = "throne_room" /\ name = "throneroom_bm"
    BY <2>1 DEF Plays, Names, Signature
  <2> QED
    BY <1>2, <2>2 DEF c
<1> QED
  BY <1>1, <1>2 DEF Expected

\* The position a bot's answer is given in, and what becomes of it.
Answering(g0, name, p, b, answer, h) ==
  /\ Sound(g0) /\ Truthful(g0) /\ ~g0.ended /\ g0.decision # NoDecision
  /\ p = g0.decision.player /\ Playing(g0, name, p, b)
  /\ answer \in Resolve(b, Snapshot(g0, p))
  /\ h \in Apply(g0, [kind |-> "resolve", player |-> p, id |-> g0.decision.id,
                      answer |-> answer])

\* With no replay owed, the game after an answer is as its handler left it.
LEMMA NothingOwed ==
  ASSUME NEW g0, NEW name, NEW p, NEW b, NEW answer, NEW h,
         Answering(g0, name, p, b, answer, h),
         Obeys(g0, g0.decision, answer),
         ListPrompt(g0.decision) => answer.list \in Bag,
         g0.decision.card = "sentry" => answer.order \in Seq(Cards)
  PROVE  LET g == Cleared(g0)
         IN  /\ g0 \in GameStates /\ h \in GameStates
             /\ ~h.err /\ SameTurn(g0, h)
             /\ \E k \in OnResolve(g, g0.decision, answer) :
                  ~k.err /\ k \in Outcome(g) /\ h \in Unwind(k)
             /\ name # "throneroom_bm" =>
                  /\ g.pendingPlays = <<>>
                  /\ \A k : k.pendingPlays = g.pendingPlays /\ h \in Unwind(k) => h = k
<1> DEFINE act == [kind |-> "resolve", player |-> p, id |-> g0.decision.id,
                   answer |-> answer]
           g == Cleared(g0)
<1>1. /\ act.kind = "resolve" /\ act.player = g0.decision.player
      /\ act.id = g0.decision.id /\ act.answer = answer /\ h \in Apply(g0, act)
  BY DEF Answering
<1> HIDE DEF act
<1>2. /\ ~h.err /\ SameTurn(g0, h) /\ Sound(h)
      /\ \E k \in OnResolve(g, g0.decision, answer) :
           ~k.err /\ k \in Outcome(g) /\ h \in Unwind(k)
  BY <1>1, AnswerGiven DEF Answering
<1>3. g0 \in GameStates /\ h \in GameStates
  BY <1>2 DEF Sound, Answering
<1>4. name # "throneroom_bm" => g.pendingPlays = <<>>
  <2>1. g.pendingPlays = g0.pendingPlays
    BY ClearedSame DEF Answering
  <2> QED
    BY <2>1 DEF Answering, Playing, GameHolds, Familiar
<1>5. name # "throneroom_bm" =>
        \A k : k.pendingPlays = g.pendingPlays /\ h \in Unwind(k) => h = k
  BY <1>4, UnwindNothing
<1> QED
  BY <1>2, <1>3, <1>4, <1>5

\* Without a question and without a replay owed, what a bot relies on is left.
LEMMA NothingAsked ==
  ASSUME NEW h, NEW name \in Names, h.decision = NoDecision, h.pendingPlays = <<>>
  PROVE  Familiar(h, name)
BY DEF Familiar

LEMMA MilitiaLeaves ==
  ASSUME NEW g0, NEW name, NEW p, NEW b, NEW answer, NEW h,
         Answering(g0, name, p, b, answer, h), g0.decision.card = "militia",
         name = "militia_bm"
  PROVE  ~h.err /\ Leaves(g0, h, name, p, b)
<1> DEFINE g == Cleared(g0)
<1>1. /\ g0 \in GameStates /\ Sound(g0) /\ g0.decision # NoDecision /\ p = g0.decision.player
      /\ Playing(g0, name, p, b) /\ answer \in Resolve(b, Snapshot(g0, p)) /\ Truthful(g0)
  BY DEF Answering, Sound
<1>2. b \in Bot /\ p \in Players /\ name \in Names
  BY <1>1 DEF Playing
<1>3. Answerable(g0.players[p], g0.decision)
  BY <1>1 DEF Truthful
<1>4. Obeys(g0, g0.decision, answer) /\ answer.list \in Bag
  BY <1>1, <1>2, <1>3, MilitiaObeyed
<1>5. /\ h \in GameStates /\ ~h.err
      /\ \E k \in OnResolve(g, g0.decision, answer) :
           ~k.err /\ k \in Outcome(g) /\ h \in Unwind(k)
      /\ g.pendingPlays = <<>>
      /\ \A k : k.pendingPlays = g.pendingPlays /\ h \in Unwind(k) => h = k
  BY <1>4, NothingOwed
<1>6. /\ Ready(g) /\ g.players = g0.players /\ g.supply = g0.supply
      /\ g.current = g0.current
  BY <1>1, ClearedSame
<1> HIDE DEF g
<1>7. PICK k \in MilitiaOnResolve(g, p, answer) : ~k.err /\ h \in Unwind(k)
  BY <1>1, <1>5 DEF OnResolve
<1>8. /\ Changes(g, k, p, {}) /\ k.decision = NoDecision
      /\ k.pendingPlays = g.pendingPlays
  BY <1>2, <1>4, <1>6, <1>7, MilitiaAnswered
<1>9. h = k
  BY <1>5, <1>7, <1>8
<1>10. Changes(g0, h, p, {})
  BY <1>6, <1>8, <1>9 DEF Changes
<1>11. Familiar(h, name) /\ RemodelInTime(h, name)
  BY <1>2, <1>5, <1>8, <1>9, NothingAsked DEF RemodelInTime
<1> QED
  BY <1>1, <1>5, <1>10, <1>11, ChangesLeave

\* What a bot notes with an answer.
Noting(b, d, answer) ==
  IF b.name = "chapel_bm" /\ d.card = "chapel"
  THEN [b EXCEPT !.trashed = @ + answer.list["copper"]] ELSE b

LEMMA ChapelLeaves ==
  ASSUME NEW g0, NEW p, NEW b, NEW answer, NEW h,
         Answering(g0, "chapel_bm", p, b, answer, h), g0.decision.card = "chapel",
         p = g0.current
  PROVE  /\ ~h.err /\ Noting(b, g0.decision, answer) \in Bot
         /\ Leaves(g0, h, "chapel_bm", p, Noting(b, g0.decision, answer))
<1> DEFINE g == Cleared(g0)
           name == "chapel_bm"
           r == Noting(b, g0.decision, answer)
<1>1. /\ g0 \in GameStates /\ Sound(g0) /\ g0.decision # NoDecision /\ p = g0.decision.player
      /\ Playing(g0, name, p, b) /\ answer \in Resolve(b, Snapshot(g0, p)) /\ Truthful(g0)
  BY DEF Answering, Sound
<1>2. b \in Bot /\ p \in Players /\ name \in Names /\ b.name = name
  BY <1>1 DEF Playing
<1>3. Answerable(g0.players[p], g0.decision)
  BY <1>1 DEF Truthful
<1>4. /\ Obeys(g0, g0.decision, answer) /\ answer.list \in Bag
      /\ \A c \in Cards : answer.list[c] <= g0.players[p].hand[c]
      /\ \A c \in Cards \ {"estate", "copper"} : answer.list[c] = 0
      /\ b.trashed <= 4 => b.trashed + answer.list["copper"] <= 4
  BY <1>1, <1>2, <1>3, ChapelObeyed
<1>5. /\ h \in GameStates /\ ~h.err
      /\ \E k \in OnResolve(g, g0.decision, answer) :
           ~k.err /\ k \in Outcome(g) /\ h \in Unwind(k)
      /\ g.pendingPlays = <<>>
      /\ \A k : k.pendingPlays = g.pendingPlays /\ h \in Unwind(k) => h = k
  BY <1>4, NothingOwed
<1>6. /\ Ready(g) /\ g.players = g0.players /\ g.supply = g0.supply
      /\ g.current = g0.current /\ g \in GameStates
  BY <1>1, ClearedSame
<1> HIDE DEF g
<1>7. PICK k \in ChapelOnResolve(g, p, answer) : ~k.err /\ h \in Unwind(k)
  BY <1>1, <1>5 DEF OnResolve
<1>8. /\ k.decision = NoDecision /\ k.pendingPlays = g.pendingPlays
      /\ k.supply = g.supply
      /\ k.players[Opponent(p)] = g.players[Opponent(p)]
      /\ \A c \in Cards : Owned(k.players[p], c) = Owned(g.players[p], c) - answer.list[c]
  BY <1>2, <1>4, <1>6, <1>7, ChapelAnswered
<1>9. h = k
  BY <1>5, <1>7, <1>8
<1>10. Familiar(h, name) /\ RemodelInTime(h, name)
  BY <1>2, <1>5, <1>8, <1>9, NothingAsked DEF RemodelInTime
<1>11. "copper" \in Cards
  BY CardsAssumption DEF BasicCards
<1>12. answer.list["copper"] \in Nat /\ b.trashed \in Nat
  BY <1>2, <1>4, <1>11 DEF Bag, Bot
<1>13. /\ r = [b EXCEPT !.trashed = @ + answer.list["copper"]] /\ r \in Bot
       /\ r.name = name /\ r.bought = b.bought
       /\ r.trashed = b.trashed + answer.list["copper"]
  <2>1. r = [b EXCEPT !.trashed = @ + answer.list["copper"]]
    BY <1>2 DEF Noting
  <2> HIDE DEF r
  <2> QED
    BY <1>2, <1>12, <2>1 DEF Bot
<1> HIDE DEF r
<1>14. \A c \in Cards : /\ Owned(g0.players[p], c) \in Nat
                        /\ Owned(h.players[p], c) = Owned(g0.players[p], c) - answer.list[c]
  <2>1. g0.players[p] \in PlayerState
    BY <1>1, <1>2, PlayersFact
  <2> QED
    BY <1>6, <1>8, <1>9, <2>1, OwnedIsNat
<1>15. NotedCard(name) = "chapel"
  BY DEF NotedCard, Signature
<1>16. NotesHold(r, p, h)
  <2>1. /\ "chapel" \in Cards =>
             Owned(g0.players[p], "chapel") = StartDeck[p]["chapel"] + b.bought
        /\ Owned(g0.players[p], "copper") = StartDeck[p]["copper"] - b.trashed
        /\ b.trashed <= 4
    BY <1>1, <1>2, <1>15 DEF Playing, NotesHold
  <2>2. "chapel" \in Cards => Owned(h.players[p], "chapel") = Owned(g0.players[p], "chapel")
    BY <1>4, <1>14
  <2>3. StartDeck[p]["copper"] \in Nat
    BY <1>2, <1>11, EngineAssumption DEF Bag
  <2>4. Owned(h.players[p], "copper") = StartDeck[p]["copper"] - r.trashed
    BY <1>11, <1>12, <1>13, <1>14, <2>1, <2>3
  <2> QED
    BY <1>4, <1>13, <1>15, <2>1, <2>2, <2>4 DEF NotesHold
<1>17. OwnsWhatItKnows(r, h.players[p])
  BY <1>13 DEF OwnsWhatItKnows
<1>18. /\ OwnsSame(g0.players[Opponent(p)], h.players[Opponent(p)], {"curse"})
       /\ \A x \in Cards : h.supply[x] <= g0.supply[x]
  <2>1. \A x \in Cards : g0.supply[x] \in Nat
    BY <1>1 DEF GameStates, Bag
  <2> QED
    BY <1>6, <1>8, <1>9, <2>1 DEF OwnsSame
<1> QED
  BY <1>5, <1>10, <1>13, <1>16, <1>17, <1>18 DEF Leaves, GameHolds, r

LEMMA LibraryLeaves ==
  ASSUME NEW g0, NEW p, NEW b, NEW answer, NEW h,
         Answering(g0, "library_bm", p, b, answer, h), g0.decision.card = "library",
         p = g0.current
  PROVE  ~h.err /\ Leaves(g0, h, "library_bm", p, b)
<1> DEFINE g == Cleared(g0)
           d == g0.decision
           name == "library_bm"
<1>1. /\ g0 \in GameStates /\ Sound(g0) /\ d # NoDecision /\ p = d.player
      /\ Playing(g0, name, p, b) /\ answer \in Resolve(b, Snapshot(g0, p)) /\ Truthful(g0)
  BY DEF Answering, Sound
<1>2. b \in Bot /\ p \in Players /\ name \in Names
  BY <1>1 DEF Playing
<1>3. Obeys(g0, d, answer) /\ answer.yes = FALSE
  BY <1>1, LibraryObeyed
<1>4. /\ h \in GameStates /\ ~h.err
      /\ \E k \in OnResolve(g, d, answer) :
           ~k.err /\ k \in Outcome(g) /\ h \in Unwind(k)
      /\ g.pendingPlays = <<>>
      /\ \A k : k.pendingPlays = g.pendingPlays /\ h \in Unwind(k) => h = k
  BY <1>3, NothingOwed DEF ListPrompt
<1>5. /\ Ready(g) /\ g.players = g0.players /\ g.supply = g0.supply
      /\ g.current = g0.current /\ g \in GameStates
  BY <1>1, ClearedSame
<1>6. InSeq(d.shown[1], g0.players[p].setAside) /\ d.card = "library"
  BY <1>1 DEF Sound, LibraryShown
<1> HIDE DEF g, d
<1>7. PICK k \in LibraryOnResolve(g, p, d, answer) : ~k.err /\ h \in Unwind(k)
  BY <1>1, <1>4, <1>6 DEF OnResolve
<1>8. /\ Changes(g, k, p, {}) /\ k.pendingPlays = g.pendingPlays
      /\ k.decision # NoDecision => k.decision.card = "library" /\ k.decision.player = p
  <2>1. /\ Ready(g) /\ p = g.current /\ answer.yes = FALSE
        /\ InSeq(d.shown[1], g.players[g.current].setAside)
        /\ k \in LibraryOnResolve(g, g.current, d, answer)
    BY <1>3, <1>5, <1>6, <1>7
  <2>2. /\ Changes(g, k, g.current, {}) /\ k.pendingPlays = g.pendingPlays
        /\ k.decision # NoDecision =>
             k.decision.card = "library" /\ k.decision.player = g.current
    BY <2>1, LibraryAnswered
  <2> QED
    BY <2>1, <2>2
<1>9. h = k
  BY <1>4, <1>7, <1>8
<1>10. Changes(g0, h, p, {})
  BY <1>5, <1>8, <1>9 DEF Changes
<1>11. h.current = p
  BY <1>3, NothingOwed DEF SameTurn, ListPrompt, d
<1>12. Familiar(h, name) /\ RemodelInTime(h, name)
  <2>1. h.decision # NoDecision => Expected(h, name)
    BY <1>8, <1>9, <1>11 DEF Expected, Plays, Signature, AsksPlayer
  <2> QED
    BY <1>4, <1>8, <1>9, <2>1 DEF Familiar, RemodelInTime
<1> QED
  BY <1>1, <1>4, <1>10, <1>12, ChangesLeave

LEMMA SentryLeaves ==
  ASSUME NEW g0, NEW p, NEW b, NEW answer, NEW h,
         Answering(g0, "sentry_bm", p, b, answer, h), g0.decision.card = "sentry",
         p = g0.current
  PROVE  ~h.err /\ Leaves(g0, h, "sentry_bm", p, b)
<1> DEFINE g == Cleared(g0)
           d == g0.decision
           name == "sentry_bm"
<1>1. /\ g0 \in GameStates /\ Sound(g0) /\ d # NoDecision /\ p = d.player
      /\ Playing(g0, name, p, b) /\ answer \in Resolve(b, Snapshot(g0, p)) /\ Truthful(g0)
      /\ d.card = "sentry"
  BY DEF Answering, Sound
<1>2. b \in Bot /\ p \in Players /\ name \in Names /\ b.name = name
  BY <1>1 DEF Playing
<1>3. /\ Obeys(g0, d, answer) /\ answer.order \in Seq(Cards)
      /\ d.step = 0 => \A i \in DOMAIN answer.order : answer.order[i] \in Junk
  BY <1>1, <1>2, SentryObeyed
<1>4. /\ h \in GameStates /\ ~h.err
      /\ \E k \in OnResolve(g, d, answer) :
           ~k.err /\ k \in Outcome(g) /\ h \in Unwind(k)
      /\ g.pendingPlays = <<>>
      /\ \A k : k.pendingPlays = g.pendingPlays /\ h \in Unwind(k) => h = k
  BY <1>3, NothingOwed DEF ListPrompt
<1>5. /\ Ready(g) /\ g.players = g0.players /\ g.supply = g0.supply
      /\ g.current = g0.current /\ g \in GameStates
  BY <1>1, ClearedSame
<1>6. d \in Decision
  BY <1>1 DEF GameStates
<1>11. h.current = p
  BY <1>3, NothingOwed DEF SameTurn, ListPrompt
<1> HIDE DEF g, d
<1>7. PICK k \in SentryOnResolve(g, p, d, answer) : ~k.err /\ h \in Unwind(k)
  BY <1>1, <1>4 DEF OnResolve
<1>8. /\ Changes(g, k, p, Junk) /\ k.pendingPlays = g.pendingPlays
      /\ k.decision # NoDecision => k.decision.card = "sentry" /\ k.decision.player = p
  BY <1>3, <1>5, <1>6, <1>7, SentryAnswered
<1>9. h = k
  BY <1>4, <1>7, <1>8
<1>10. Changes(g0, h, p, Junk)
  BY <1>5, <1>8, <1>9 DEF Changes
<1>12. Familiar(h, name) /\ RemodelInTime(h, name)
  <2>1. h.decision # NoDecision => Expected(h, name)
    BY <1>8, <1>9, <1>11 DEF Expected, Plays, Signature, AsksPlayer
  <2> QED
    BY <1>4, <1>8, <1>9, <2>1 DEF Familiar, RemodelInTime
<1> QED
  BY <1>1, <1>4, <1>10, <1>12, ChangesLeave

\* With its one Remodel in play a RemodelBM has no other in its hand.
LEMMA NoOtherRemodel ==
  ASSUME NEW g \in GameStates, NEW p \in Players, NEW b \in Bot, b.name = "remodel_bm",
         NotesHold(b, p, g), OwnsWhatItKnows(b, g.players[p]),
         "remodel" \in Cards, g.supply["silver"] > 0,
         g.players[p].inPlay["remodel"] > 0
  PROVE  g.players[p].hand["remodel"] = 0
<1> DEFINE q == g.players[p]
<1>1. q \in PlayerState
  BY PlayersFact
<1>2. NotedCard(b.name) = "remodel"
  BY DEF NotedCard, Signature
<1>3. HasType("remodel", "action")
  BY DEF HasType, CardTypes
<1>4. StartDeck[p]["remodel"] = 0
  BY <1>3, DealAssumption
<1>5. Owned(q, "remodel") <= 1
  <2>1. Owned(q, "remodel") = StartDeck[p]["remodel"] + b.bought
    BY <1>2 DEF NotesHold
  <2>2. b.bought \in Nat /\ b.bought <= 1
    BY DEF Bot, OwnsWhatItKnows
  <2> QED
    BY <1>4, <2>1, <2>2
<1> HIDE DEF q
<1>6. q.hand["remodel"] \in Nat /\ q.inPlay["remodel"] \in Nat
      /\ q.hand["remodel"] + q.inPlay["remodel"] <= Owned(q, "remodel")
  BY <1>1, CountsAreNat DEF Owned
<1>7. q.inPlay["remodel"] > 0
  BY DEF q
<1>8. q.hand["remodel"] = 0
  <2>1. Owned(q, "remodel") \in Nat
    BY <1>1, OwnedIsNat
  <2> QED
    BY <1>5, <1>6, <1>7, <2>1
<1> QED
  BY <1>8 DEF q

\* A card that is not the Remodel may go, or come, while there are Silvers.
LEMMA RemodelNotesStay ==
  ASSUME NEW g \in GameStates, NEW h \in GameStates, NEW p \in Players,
         NEW b \in Bot, b.name = "remodel_bm",
         NotesHold(b, p, g), OwnsWhatItKnows(b, g.players[p]),
         NEW c, OwnsSame(g.players[p], h.players[p], {c}),
         h.supply["silver"] <= g.supply["silver"],
         "remodel" \in Cards /\ g.supply["silver"] > 0 => c # "remodel"
  PROVE  NotesHold(b, p, h) /\ OwnsWhatItKnows(b, h.players[p])
<1>1. NotedCard(b.name) = "remodel"
  BY DEF NotedCard, Signature
<1>2. "silver" \in Cards
  BY CardsAssumption DEF BasicCards
<1>3. h.supply["silver"] > 0 => g.supply["silver"] > 0
  BY <1>2 DEF GameStates, Bag
<1>4. ASSUME "remodel" \in Cards, h.supply["silver"] > 0
      PROVE  Owned(h.players[p], "remodel") = StartDeck[p]["remodel"] + b.bought
  <2>1. Owned(g.players[p], "remodel") = StartDeck[p]["remodel"] + b.bought
    BY <1>1, <1>3, <1>4 DEF NotesHold
  <2>2. Owned(h.players[p], "remodel") = Owned(g.players[p], "remodel")
    BY <1>3, <1>4 DEF OwnsSame
  <2> QED
    BY <2>1, <2>2
<1> QED
  BY <1>1, <1>4 DEF NotesHold, OwnsWhatItKnows

LEMMA SameOver ==
  ASSUME NEW g, NEW h, h.supply = g.supply
  PROVE  IsGameOver(h) <=> IsGameOver(g)
BY DEF IsGameOver, EmptyPiles

LEMMA RemodelLeaves ==
  ASSUME NEW g0, NEW p, NEW b, NEW answer, NEW h,
         Answering(g0, "remodel_bm", p, b, answer, h), g0.decision.card = "remodel",
         p = g0.current
  PROVE  ~h.err /\ Leaves(g0, h, "remodel_bm", p, b)
<1> DEFINE g == Cleared(g0)
           d == g0.decision
           name == "remodel_bm"
<1>1. /\ g0 \in GameStates /\ Sound(g0) /\ d # NoDecision /\ p = d.player
      /\ Playing(g0, name, p, b) /\ answer \in Resolve(b, Snapshot(g0, p)) /\ Truthful(g0)
      /\ d.card = "remodel" /\ ~g0.ended
  BY DEF Answering, Sound
<1>2. b \in Bot /\ p \in Players /\ name \in Names /\ b.name = name
      /\ NotesHold(b, p, g0) /\ OwnsWhatItKnows(b, g0.players[p])
  BY <1>1 DEF Playing
<1>3. Answerable(g0.players[p], d)
  BY <1>1 DEF Truthful
<1>4. Expected(g0, name) /\ g0.players[p].actions = 0 /\ ~IsGameOver(g0)
  BY <1>1 DEF Playing, GameHolds, Familiar, RemodelInTime
<1>5. IF d.step = 0 THEN g0.players[p].inPlay["remodel"] > 0 ELSE d.limit >= 2
  BY <1>1, <1>4 DEF Expected
<1>6. /\ Ready(g) /\ g.players = g0.players /\ g.supply = g0.supply
      /\ g.current = g0.current /\ g \in GameStates
  BY <1>1, ClearedSame
<1>7. \A x \in Cards : g0.supply[x] \in Nat
  BY <1>1 DEF GameStates, Bag
<1>8. "silver" \in Cards
  BY CardsAssumption DEF BasicCards
<1>9. CASE d.step = 0
  <2>1. /\ Obeys(g0, d, answer) /\ answer.list \in Bag
        /\ \E c \in Cards : g0.players[p].hand[c] > 0 /\ answer.list = OneOf(c)
    BY <1>1, <1>2, <1>3, <1>9, RemodelTrashObeyed
  <2>2. /\ h \in GameStates /\ ~h.err /\ SameTurn(g0, h)
        /\ \E k \in OnResolve(g, d, answer) :
             ~k.err /\ k \in Outcome(g) /\ h \in Unwind(k)
        /\ g.pendingPlays = <<>>
        /\ \A k : k.pendingPlays = g.pendingPlays /\ h \in Unwind(k) => h = k
    BY <2>1, NothingOwed DEF ListPrompt
  <2>3. PICK c \in Cards : g0.players[p].hand[c] > 0 /\ answer.list = OneOf(c)
    BY <2>1
  <2> HIDE DEF g, d
  <2>4. PICK k \in RemodelOnResolve(g, p, d, answer) : ~k.err /\ h \in Unwind(k)
    BY <1>1, <2>2 DEF OnResolve
  <2>5. g.players[p].hand[c] > 0
    BY <1>6, <2>3
  <2>6. /\ k.decision.card = "remodel" /\ k.decision.player = p
        /\ k.decision.step = 1 /\ k.decision.limit >= 2
        /\ k.pendingPlays = g.pendingPlays /\ k.supply = g.supply
        /\ k.players[p].actions = g.players[p].actions
        /\ k.players[Opponent(p)] = g.players[Opponent(p)]
        /\ OwnsSame(g.players[p], k.players[p], {c})
    <3>1. /\ Ready(g) /\ p \in Players /\ d.step = 0 /\ c \in Cards
          /\ g.players[p].hand[c] > 0 /\ answer.list = OneOf(c)
          /\ k \in RemodelOnResolve(g, p, d, answer)
      BY <1>2, <1>6, <1>9, <2>3, <2>4, <2>5
    <3>2. RemodelAsks(g, k, p, c)
      BY <3>1, RemodelTrashed
    <3> QED
      BY <3>2 DEF RemodelAsks
  <2>7. h = k
    BY <2>2, <2>4, <2>6
  <2>8. "remodel" \in Cards /\ g0.supply["silver"] > 0 => c # "remodel"
    BY <1>1, <1>2, <1>5, <1>9, <2>3, NoOtherRemodel
  <2>9. NotesHold(b, p, h) /\ OwnsWhatItKnows(b, h.players[p])
    <3>1. OwnsSame(g0.players[p], h.players[p], {c})
      BY <1>6, <2>6, <2>7
    <3>2. h.supply["silver"] <= g0.supply["silver"]
      BY <1>6, <1>7, <1>8, <2>6, <2>7
    <3> QED
      BY <1>1, <1>2, <2>2, <2>8, <3>1, <3>2, RemodelNotesStay
  <2>10. h.current = p
    BY <2>2 DEF SameTurn
  <2>11. Expected(h, name)
    BY <2>6, <2>7, <2>10 DEF Expected, Plays, Signature, AsksPlayer
  <2>12. ~IsGameOver(h)
    BY <1>4, <1>6, <2>6, <2>7, SameOver
  <2>13. GameHolds(h, name)
    <3>1. h.players[h.current].actions = 0 /\ h.decision # NoDecision
      BY <1>4, <1>6, <2>6, <2>7, <2>10 DEF NoDecision, NoCard
    <3>2. h.pendingPlays = <<>>
      BY <2>2, <2>6, <2>7
    <3> QED
      BY <2>11, <2>12, <3>1, <3>2 DEF GameHolds, Familiar, RemodelInTime
  <2>14. /\ OwnsSame(g0.players[Opponent(p)], h.players[Opponent(p)], {"curse"})
         /\ \A x \in Cards : h.supply[x] <= g0.supply[x]
    BY <1>6, <1>7, <2>6, <2>7 DEF OwnsSame
  <2> QED
    BY <2>2, <2>9, <2>13, <2>14 DEF Leaves
<1>10. CASE d.step # 0
  <2>1. /\ Obeys(g0, d, answer) /\ answer.choice \in Cards
        /\ g0.supply["silver"] > 0 => answer.choice # "remodel"
    BY <1>1, <1>2, <1>4, <1>5, <1>10, RemodelGainObeyed
  <2>2. /\ h \in GameStates /\ ~h.err /\ SameTurn(g0, h)
        /\ \E k \in OnResolve(g, d, answer) :
             ~k.err /\ k \in Outcome(g) /\ h \in Unwind(k)
        /\ g.pendingPlays = <<>>
        /\ \A k : k.pendingPlays = g.pendingPlays /\ h \in Unwind(k) => h = k
    BY <1>10, <2>1, NothingOwed DEF ListPrompt
  <2> HIDE DEF g, d
  <2>4. PICK k \in RemodelOnResolve(g, p, d, answer) : ~k.err /\ h \in Unwind(k)
    BY <1>1, <2>2 DEF OnResolve
  <2>6. /\ k.decision = NoDecision /\ k.pendingPlays = g.pendingPlays
        /\ \A x \in Cards : k.supply[x] <= g.supply[x]
        /\ k.players[p].actions = g.players[p].actions
        /\ k.players[Opponent(p)] = g.players[Opponent(p)]
        /\ OwnsSame(g.players[p], k.players[p], {answer.choice})
    <3>1. /\ Ready(g) /\ p \in Players /\ d.step # 0
          /\ k \in RemodelOnResolve(g, p, d, answer) /\ ~k.err
      BY <1>2, <1>6, <1>10, <2>4
    <3>2. RemodelEnds(g, k, p, answer.choice)
      BY <3>1, RemodelGained
    <3> QED
      BY <3>2 DEF RemodelEnds
  <2>7. h = k
    BY <2>2, <2>4, <2>6
  <2>9. NotesHold(b, p, h) /\ OwnsWhatItKnows(b, h.players[p])
    <3>1. OwnsSame(g0.players[p], h.players[p], {answer.choice})
      BY <1>6, <2>6, <2>7
    <3>2. h.supply["silver"] <= g0.supply["silver"]
      BY <1>6, <1>8, <2>6, <2>7
    <3> QED
      BY <1>1, <1>2, <2>1, <2>2, <3>1, <3>2, RemodelNotesStay
  <2>10. h.current = p
    BY <2>2 DEF SameTurn
  <2>13. GameHolds(h, name)
    <3>1. h.players[h.current].actions = 0 /\ h.decision = NoDecision
      BY <1>4, <1>6, <2>6, <2>7, <2>10
    <3>2. h.pendingPlays = <<>>
      BY <2>2, <2>6, <2>7
    <3> QED
      BY <1>2, <3>1, <3>2 DEF GameHolds, Familiar, RemodelInTime
  <2>14. /\ OwnsSame(g0.players[Opponent(p)], h.players[Opponent(p)], {"curse"})
         /\ \A x \in Cards : h.supply[x] <= g0.supply[x]
    BY <1>6, <2>6, <2>7 DEF OwnsSame
  <2> QED
    BY <2>2, <2>9, <2>13, <2>14 DEF Leaves
<1> QED
  BY <1>9, <1>10

LEMMA ThroneLeaves ==
  ASSUME NEW g0, NEW p, NEW b, NEW answer, NEW h,
         Answering(g0, "throneroom_bm", p, b, answer, h),
         g0.decision.card = "throne_room", p = g0.current
  PROVE  ~h.err /\ Leaves(g0, h, "throneroom_bm", p, b)
<1> DEFINE g == Cleared(g0)
           d == g0.decision
           name == "throneroom_bm"
<1>1. /\ g0 \in GameStates /\ Sound(g0) /\ d # NoDecision /\ p = d.player
      /\ Playing(g0, name, p, b) /\ answer \in Resolve(b, Snapshot(g0, p)) /\ Truthful(g0)
      /\ d.card = "throne_room"
  BY DEF Answering, Sound
<1>2. b \in Bot /\ p \in Players /\ name \in Names /\ b.name = name
      /\ OwnsWhatItKnows(b, g0.players[p]) /\ Familiar(g0, name)
  BY <1>1 DEF Playing, GameHolds
<1>3. Answerable(g0.players[p], d)
  BY <1>1 DEF Truthful
<1>4. /\ Obeys(g0, d, answer) /\ answer.choice \in {"throne_room", "witch"}
      /\ InHand(g0, p, answer.choice)
  BY <1>1, <1>2, <1>3, ThroneObeyed
<1>5. /\ h \in GameStates /\ ~h.err /\ SameTurn(g0, h)
      /\ \E k \in OnResolve(g, d, answer) :
           ~k.err /\ k \in Outcome(g) /\ h \in Unwind(k)
  BY <1>4, NothingOwed DEF ListPrompt
<1>6. /\ Ready(g) /\ g.players = g0.players /\ g.supply = g0.supply
      /\ g.current = g0.current /\ g \in GameStates
      /\ g.pendingPlays = g0.pendingPlays
  BY <1>1, ClearedSame
<1> HIDE DEF g, d
<1>7. PICK k \in ThroneRoomOnResolve(g, p, answer) : ~k.err /\ h \in Unwind(k)
  BY <1>1, <1>5 DEF OnResolve
<1>8. Doubles(g)
  BY <1>2, <1>6 DEF Doubles, Familiar
<1>9. k \in Doubling(g)
  <2>1. InHand(g, g.current, answer.choice) /\ p = g.current
    BY <1>4, <1>6 DEF InHand
  <2> QED
    BY <1>4, <1>6, <1>7, <1>8, <2>1, ThroneAnswered
<1>10. h \in Doubling(g)
  BY <1>6, <1>7, <1>9, UnwindDoubles
<1>11. /\ Doubles(h) /\ Changes(g0, h, p, {"curse"})
       /\ h.decision # NoDecision =>
            h.decision.card = "throne_room" /\ h.decision.player = p
  BY <1>6, <1>10 DEF Doubling, Changes
<1>12. h.current = p
  BY <1>5 DEF SameTurn
<1>13. Familiar(h, name) /\ RemodelInTime(h, name)
  <2>1. h.decision # NoDecision => Expected(h, name)
    BY <1>11, <1>12 DEF Expected, Plays, AsksPlayer
  <2> QED
    BY <1>11, <2>1 DEF Familiar, RemodelInTime, Doubles
<1> QED
  BY <1>1, <1>5, <1>11, <1>13, ChangesLeave DEF Junk

\* The prompts a bot meets, and the answers it has for them.
Met == {"militia", "chapel", "remodel", "library", "sentry", "throne_room"}

Formed(d, answer) ==
  IF AsksForList(d) THEN answer = [list |-> answer.list]
  ELSE IF d.card = "sentry" THEN answer = [order |-> answer.order]
  ELSE IF d.card \in YesNoCards THEN answer = [yes |-> FALSE]
  ELSE answer = [choice |-> answer.choice]

LEMMA AnswersFormed ==
  ASSUME NEW b, NEW v, NEW d, d = v.decision, d.card \in Met, d.step \in 0..2,
         d.card = "sentry" => b.name = "sentry_bm", NEW answer \in Resolve(b, v)
  PROVE  Formed(d, answer)
<1>1. \/ AsksForList(d) /\ d.card \in {"militia", "chapel", "remodel"}
      \/ ~AsksForList(d) /\ d.card \in {"remodel", "library", "sentry", "throne_room"}
  BY DEF Met, AsksForList, ListCards
<1>2. CASE AsksForList(d) /\ d.card \in {"militia", "chapel", "remodel"}
  <2>1. PromptKind(d) \in {"DiscardFromHand", "TrashFromHand"}
    BY <1>2 DEF PromptKind, AsksForList, ListCards
  <2>2. answer \in SafeRefusal(v, d) => answer = [list |-> answer.list]
    BY <2>1 DEF SafeRefusal
  <2>3. d.card = "remodel" => d.step = 0
    BY <1>2 DEF AsksForList, ListCards
  <2>4. answer \in RemodelAnswers(v, d) /\ d.card = "remodel" => answer = [list |-> answer.list]
    BY <2>3 DEF RemodelAnswers
  <2>5. \/ answer \in SafeRefusal(v, d)
        \/ answer \in {[list |-> ChapelTrashes(b, v, d)]}
        \/ answer \in RemodelAnswers(v, d) /\ d.card = "remodel"
        \/ answer \in {[list |-> c] : c \in MilitiaDiscards(v, d.min)}
    BY <1>2 DEF Resolve
  <2> QED
    BY <1>2, <2>2, <2>4, <2>5 DEF Formed
<1>3. CASE ~AsksForList(d) /\ d.card = "remodel"
  <2>1. d.step # 0
    BY <1>3 DEF AsksForList
  <2>2. PromptKind(d) = "GainFromSupply"
    BY <1>3, <2>1 DEF PromptKind
  <2>3. answer \in SafeRefusal(v, d) => answer = [choice |-> answer.choice]
    BY <2>2 DEF SafeRefusal
  <2>4. answer \in RemodelAnswers(v, d) => answer = [choice |-> answer.choice]
    BY <2>1 DEF RemodelAnswers
  <2>5. answer \in SafeRefusal(v, d) \/ answer \in RemodelAnswers(v, d)
    BY <1>3 DEF Resolve
  <2> QED
    BY <1>3, <2>3, <2>4, <2>5 DEF Formed, YesNoCards
<1>4. CASE d.card = "library"
  <2>1. PromptKind(d) = "SetAsideAction"
    BY <1>4 DEF PromptKind
  <2>2. answer \in SafeRefusal(v, d)
    BY <1>4 DEF Resolve
  <2> QED
    BY <1>1, <1>4, <2>1, <2>2 DEF SafeRefusal, Formed, YesNoCards
<1>5. CASE d.card = "sentry"
  <2>1. PromptKind(d) = <<"TrashFromRevealed", "DiscardFromRevealed",
                          "ReorderCards">>[d.step + 1]
    BY <1>5 DEF PromptKind
  <2>2. d.step # 0 => PromptKind(d) \in {"DiscardFromRevealed", "ReorderCards"}
    BY <2>1
  <2>3. d.step # 0 /\ answer \in SafeRefusal(v, d) => answer = [order |-> answer.order]
    BY <2>2 DEF SafeRefusal
  <2>4. IF d.step = 0 THEN answer = [order |-> SentryTrashes(d)]
                      ELSE answer \in SafeRefusal(v, d)
    BY <1>5 DEF Resolve
  <2>5. answer = [order |-> answer.order]
    BY <2>3, <2>4
  <2> QED
    BY <1>1, <1>5, <2>5 DEF Formed
<1>6. CASE d.card = "throne_room"
  <2>1. PromptKind(d) = "ChooseActionFromHand"
    BY <1>6 DEF PromptKind
  <2>2. \/ answer \in SafeRefusal(v, d)
        \/ answer \in {[choice |-> c] : c \in ThroneRoomTargets(v)}
    BY <1>6 DEF Resolve
  <2>3. SafeRefusal(v, d) = {[choice |-> c] : c \in OrElse(
                                {x \in InHandOf(v) : IsAction(x)}, InHandOf(v))}
    BY <2>1 DEF SafeRefusal
  <2>4. \E S : answer \in {[choice |-> c] : c \in S}
    BY <2>2, <2>3
  <2>5. answer = [choice |-> answer.choice]
    BY <2>4
  <2> QED
    BY <1>1, <1>6, <2>5 DEF Formed, YesNoCards
<1> QED
  BY <1>1, <1>2, <1>3, <1>4, <1>5, <1>6

\* Bot b plays the game of a bot of the name given as player p, and is asked.
IsAsked(g0, name, p, b) ==
  /\ Sound(g0) /\ Truthful(g0) /\ ~g0.ended /\ g0.decision # NoDecision
  /\ p = g0.decision.player /\ Playing(g0, name, p, b)

\* Whatever a bot answers is an answer that obeys the prompt.
LEMMA BotsObey ==
  ASSUME NEW g0, NEW name, NEW p, NEW b, IsAsked(g0, name, p, b),
         NEW answer \in Resolve(b, Snapshot(g0, p))
  PROVE  LET d == g0.decision
         IN  /\ Obeys(g0, d, answer) /\ Formed(d, answer)
             /\ ListPrompt(d) => answer.list \in Bag
             /\ d.card = "sentry" =>
                  /\ answer.order \in Seq(Cards) /\ SameNames(answer.order, d.shown)
                  /\ Len(answer.order) <= Len(d.shown)
<1> DEFINE d == g0.decision
           v == Snapshot(g0, p)
<1>1. /\ g0 \in GameStates /\ d # NoDecision /\ p = d.player /\ d \in Decision
      /\ d.step \in 0..2 /\ v.decision = d /\ ~g0.ended
  <2>1. g0 \in GameStates /\ d # NoDecision /\ p = d.player /\ ~g0.ended
    BY DEF IsAsked, Sound
  <2>2. d \in Decision /\ v.decision = d
    BY <2>1, PromptRead
  <2> QED
    BY <2>1, <2>2 DEF Decision
<1>2. /\ name \in Names /\ b \in Bot /\ p \in Players /\ (p = g0.current => b.name = name)
      /\ OwnsWhatItKnows(b, g0.players[p]) /\ Familiar(g0, name) /\ RemodelInTime(g0, name)
  BY DEF IsAsked, Playing, GameHolds
<1>3. Answerable(g0.players[p], d)
  BY <1>1 DEF IsAsked, Truthful
<1>4. Expected(g0, name)
  BY <1>1, <1>2 DEF Familiar
<1>5. answer \in Resolve(b, v)
  OBVIOUS
<1>6. \/ d.card = "militia"
      \/ b.name = name /\ \/ d.card = "chapel" /\ name = "chapel_bm"
                          \/ d.card = "remodel" /\ name = "remodel_bm"
                          \/ d.card = "library" /\ name = "library_bm"
                          \/ d.card = "sentry" /\ name = "sentry_bm"
                          \/ d.card = "throne_room" /\ name = "throneroom_bm"
  BY <1>1, <1>2, <1>4, ExpectedCases
<1> HIDE DEF v
<1>7. Formed(d, answer)
  BY <1>1, <1>5, <1>6, AnswersFormed DEF Met
<1>8. CASE d.card = "militia"
  <2>1. Obeys(g0, d, answer) /\ answer.list \in Bag
    BY <1>1, <1>2, <1>3, <1>5, <1>8, MilitiaObeyed DEF v
  <2> QED
    BY <1>7, <1>8, <2>1
<1>9. CASE d.card = "chapel" /\ b.name = "chapel_bm"
  <2>1. Obeys(g0, d, answer) /\ answer.list \in Bag
    BY <1>1, <1>2, <1>3, <1>5, <1>9, ChapelObeyed DEF v
  <2> QED
    BY <1>7, <1>9, <2>1
<1>10. CASE d.card = "remodel" /\ b.name = "remodel_bm" /\ d.step = 0
  <2>1. Obeys(g0, d, answer) /\ answer.list \in Bag
    BY <1>1, <1>2, <1>3, <1>5, <1>10, RemodelTrashObeyed DEF v
  <2> QED
    BY <1>7, <1>10, <2>1
<1>11. CASE d.card = "remodel" /\ b.name = "remodel_bm" /\ d.step # 0 /\ name = "remodel_bm"
  <2>1. ~IsGameOver(g0) /\ d.limit >= 2
    <3>1. p = g0.current \/ d.card = "militia"
      BY <1>1, <1>4 DEF Expected
    <3> QED
      BY <1>1, <1>2, <1>4, <1>11 DEF Expected, RemodelInTime
  <2>2. Obeys(g0, d, answer)
    BY <1>1, <1>2, <1>3, <1>5, <1>11, <2>1, RemodelGainObeyed DEF v
  <2>3. ~ListPrompt(d)
    BY <1>11 DEF ListPrompt
  <2> QED
    BY <1>7, <1>11, <2>2, <2>3
<1>12. CASE d.card = "library"
  <2>1. Obeys(g0, d, answer)
    BY <1>1, <1>5, <1>12, LibraryObeyed DEF v
  <2>2. ~ListPrompt(d)
    BY <1>12 DEF ListPrompt
  <2> QED
    BY <1>7, <1>12, <2>1, <2>2
<1>13. CASE d.card = "sentry" /\ b.name = "sentry_bm"
  <2>1. /\ Obeys(g0, d, answer) /\ answer.order \in Seq(Cards)
        /\ SameNames(answer.order, d.shown) /\ Len(answer.order) <= Len(d.shown)
    BY <1>1, <1>2, <1>5, <1>13, SentryObeyed DEF v
  <2>2. ~ListPrompt(d)
    BY <1>13 DEF ListPrompt
  <2> QED
    BY <1>7, <1>13, <2>1, <2>2
<1>14. CASE d.card = "throne_room" /\ b.name = "throneroom_bm"
  <2>1. Obeys(g0, d, answer)
    BY <1>1, <1>2, <1>3, <1>5, <1>14, ThroneObeyed DEF v
  <2>2. ~ListPrompt(d)
    BY <1>14 DEF ListPrompt
  <2> QED
    BY <1>7, <1>14, <2>1, <2>2
<1> QED
  BY <1>6, <1>8, <1>9, <1>10, <1>11, <1>12, <1>13, <1>14

\* An answer that obeys is one of those the clients of the engine may give.
LEMMA ObeyingAnswers ==
  ASSUME Obedient, NEW g \in GameStates, g.decision # NoDecision, NEW answer,
         Obeys(g, g.decision, answer), Formed(g.decision, answer),
         g.decision.card = "sentry" =>
           /\ answer.order \in Seq(Cards)
           /\ SameNames(answer.order, g.decision.shown)
           /\ Len(answer.order) <= Len(g.decision.shown)
  PROVE  answer \in Answers(g, g.decision)
<1> DEFINE d == g.decision
<1>1. d \in Decision /\ d.shown \in Seq(Cards) /\ d.step \in 0..2
  BY DEF GameStates, Decision
<1> HIDE DEF d
<1>2. CASE AsksForList(d)
  <2>1. answer.list \in Lists(g, d) /\ answer = [list |-> answer.list]
    BY <1>2 DEF Obeys, Formed, Lists, d
  <2>2. answer \in {[list |-> b] : b \in Lists(g, d)}
    BY <2>1
  <2>3. d.card # "sentry" /\ d.card \notin YesNoCards
    BY <1>2 DEF AsksForList, ListCards, YesNoCards
  <2>4. answer \in Answers(g, d)
    BY <1>2, <2>2, <2>3 DEF Answers
  <2> QED
    BY <2>4 DEF d
<1>3. CASE ~AsksForList(d) /\ d.card = "sentry"
  <2> DEFINE s == answer.order
             names == {d.shown[i] : i \in DOMAIN d.shown}
  <2>1. s \in Seq(Cards) /\ SameNames(s, d.shown) /\ Len(s) <= Len(d.shown)
        /\ (d.step = 2 => Len(s) = Len(d.shown)) /\ answer = [order |-> s]
    BY <1>3 DEF Obeys, Formed, d
  <2> HIDE DEF s
  <2>2. ASSUME NEW i \in 1..Len(s) PROVE s[i] \in names
    <3>1. s[i] \in Cards
      BY <2>1
    <3>2. BagOfSeq(s)[s[i]] > 0
      <4>1. /\ i \in Places(s, s[i]) /\ IsFiniteSet(Places(s, s[i]))
            /\ BagOfSeq(s)[s[i]] = Cardinality(Places(s, s[i]))
        BY <2>1, <3>1, PlacesFinite, LenProperties DEF Places, BagOfSeq
      <4>2. Cardinality(Places(s, s[i])) # 0 /\ Cardinality(Places(s, s[i])) \in Nat
        BY <4>1, FS_EmptySet, FS_CardinalityType
      <4> QED
        BY <4>1, <4>2
    <3>3. BagOfSeq(d.shown)[s[i]] > 0
      <4>1. BagOfSeq(s)[s[i]] <= BagOfSeq(d.shown)[s[i]]
        BY <2>1, <3>1 DEF SameNames
      <4>2. BagOfSeq(s)[s[i]] \in Nat /\ BagOfSeq(d.shown)[s[i]] \in Nat
        BY <1>1, <2>1, <3>1, SeqIsBag DEF Bag
      <4> QED
        BY <3>2, <4>1, <4>2
    <3>4. InSeq(s[i], d.shown)
      BY <1>1, <3>1, <3>3, CountedIsIn
    <3> QED
      BY <3>4 DEF InSeq
  <2>3. Len(s) \in 0..Len(d.shown)
    BY <1>1, <2>1
  <2>4. s \in [1..Len(s) -> names]
    BY <2>1, <2>2
  <2> HIDE DEF names
  <2>5. s \in UNION {[1..n -> names] : n \in 0..Len(d.shown)}
    BY <2>3, <2>4
  <2>6. s \in Orders(d)
    BY <2>1, <2>5 DEF Orders, SameNames, names
  <2>7. answer \in {[order |-> o] : o \in Orders(d)}
    BY <2>1, <2>6
  <2>8. d.card \notin YesNoCards
    BY <1>3 DEF YesNoCards
  <2>9. answer \in Answers(g, d)
    BY <1>3, <2>7, <2>8 DEF Answers
  <2> QED
    BY <2>9 DEF d
<1>4. CASE ~AsksForList(d) /\ d.card # "sentry" /\ d.card \in YesNoCards
  <2>1. answer = [yes |-> FALSE]
    BY <1>4 DEF Formed, d
  <2> QED
    BY <1>4, <2>1 DEF Answers, d
<1>5. CASE ~AsksForList(d) /\ d.card # "sentry" /\ d.card \notin YesNoCards
  <2>1. answer = [choice |-> answer.choice] /\ answer.choice \in CardChoices(g, d)
    BY <1>5 DEF Formed, Obeys, CardChoices, d
  <2> QED
    BY <1>5, <2>1 DEF Answers, d
<1> QED
  BY <1>2, <1>3, <1>4, <1>5

\* An answer of a bot is accepted, and leaves the game and its notes in order.
LEMMA AnswerLeaves ==
  ASSUME NEW g0, NEW name, NEW p, NEW b, NEW answer, NEW h,
         Answering(g0, name, p, b, answer, h)
  PROVE  /\ ~h.err /\ SameTurn(g0, h)
         /\ Noting(b, g0.decision, answer) \in Bot
         /\ Leaves(g0, h, name, p, Noting(b, g0.decision, answer))
<1> DEFINE d == g0.decision
           r == Noting(b, d, answer)
<1>1. /\ IsAsked(g0, name, p, b) /\ answer \in Resolve(b, Snapshot(g0, p))
      /\ b \in Bot /\ name \in Names /\ (p = g0.current => b.name = name)
      /\ p = d.player /\ d # NoDecision /\ Familiar(g0, name)
  BY DEF Answering, IsAsked, Playing, GameHolds
<1>2. ~h.err /\ SameTurn(g0, h)
  <2>1. /\ Obeys(g0, d, answer) /\ (ListPrompt(d) => answer.list \in Bag)
        /\ (d.card = "sentry" => answer.order \in Seq(Cards))
    BY <1>1, BotsObey
  <2> DEFINE act == [kind |-> "resolve", player |-> p, id |-> d.id, answer |-> answer]
  <2>2. h \in Apply(g0, act)
    BY DEF Answering
  <2>3. act.kind = "resolve" /\ act.id = d.id /\ act.player = p /\ act.answer = answer
    OBVIOUS
  <2>4. Sound(g0) /\ Truthful(g0) /\ ~g0.ended /\ d # NoDecision
    BY DEF Answering
  <2> HIDE DEF act
  <2> QED
    BY <1>1, <2>1, <2>2, <2>3, <2>4, AnswerGiven
<1>3. Expected(g0, name)
  BY <1>1 DEF Familiar
<1>4. d.card # "chapel" => r = b
  BY DEF Noting
<1>5. CASE d.card = "militia" /\ name = "militia_bm"
  <2>1. Leaves(g0, h, name, p, b)
    BY <1>5, MilitiaLeaves
  <2> QED
    BY <1>1, <1>2, <1>4, <1>5, <2>1
<1>6. CASE p = g0.current /\ d.card = "chapel" /\ name = "chapel_bm"
  <2>1. r \in Bot /\ Leaves(g0, h, name, p, r)
    BY <1>6, ChapelLeaves
  <2> QED
    BY <1>2, <2>1
<1>7. CASE p = g0.current /\ d.card = "remodel" /\ name = "remodel_bm"
  <2>1. Leaves(g0, h, name, p, b)
    BY <1>7, RemodelLeaves
  <2> QED
    BY <1>1, <1>2, <1>4, <1>7, <2>1
<1>8. CASE p = g0.current /\ d.card = "library" /\ name = "library_bm"
  <2>1. Leaves(g0, h, name, p, b)
    BY <1>8, LibraryLeaves
  <2> QED
    BY <1>1, <1>2, <1>4, <1>8, <2>1
<1>9. CASE p = g0.current /\ d.card = "sentry" /\ name = "sentry_bm"
  <2>1. Leaves(g0, h, name, p, b)
    BY <1>9, SentryLeaves
  <2> QED
    BY <1>1, <1>2, <1>4, <1>9, <2>1
<1>10. CASE p = g0.current /\ d.card = "throne_room" /\ name = "throneroom_bm"
  <2>1. Leaves(g0, h, name, p, b)
    BY <1>10, ThroneLeaves
  <2> QED
    BY <1>1, <1>2, <1>4, <1>10, <2>1
<1> QED
  BY <1>1, <1>3, <1>5, <1>6, <1>7, <1>8, <1>9, <1>10, ExpectedCases

-----------------------------------------------------------------------------
(***************************************************************************)
(* What a bot plays.                                                       *)
(***************************************************************************)

\* Bot b has the turn in the game g0, and is not asked.
HasTurn(g0, name, p, b) ==
  /\ Sound(g0) /\ ~g0.ended /\ g0.decision = NoDecision
  /\ p = g0.current /\ Playing(g0, name, p, b)

\* Apply calls the handler of the action on the game without the last error.
LEMMA TurnTaken ==
  ASSUME NEW g0, NEW name, NEW p, NEW b, HasTurn(g0, name, p, b)
  PROVE  LET g == Cleared(g0)
         IN  /\ Ready(g) /\ ~g.err /\ ~g.ended /\ g.current = p /\ g.phase = g0.phase
             /\ SameTurn(g0, g) /\ g.players = g0.players /\ g.supply = g0.supply
             /\ g.pendingPlays = g0.pendingPlays
             /\ \A c : Apply(g0, Play(p, c)) = ApplyPlayCard(g, p, c)
             /\ \A c : Apply(g0, Buy(p, c)) = ApplyBuyCard(g, p, c)
             /\ Apply(g0, End(p)) = ApplyEndPhase(g)
<1> DEFINE g == Cleared(g0)
<1>1. Sound(g0) /\ g0 \in GameStates /\ ~g0.ended /\ g0.decision = NoDecision
      /\ p = g0.current
  BY DEF HasTurn, Sound
<1>2. /\ Ready(g) /\ ~g.err /\ SameTurn(g0, g) /\ g.players = g0.players
      /\ g.supply = g0.supply /\ g.current = g0.current
      /\ g.pendingPlays = g0.pendingPlays
  BY <1>1, ClearedSame
<1>3. g = [g0 EXCEPT !.err = FALSE]
  BY <1>1 DEF Cleared, GameStates
<1>4. ~g.ended /\ g.decision = NoDecision /\ g.phase = g0.phase
  BY <1>1, <1>2 DEF SameTurn, Ready
<1> HIDE DEF g
<1>5. ASSUME NEW act, act.player = p, act.kind \in {"play", "buy", "end"}
      PROVE  /\ act.kind = "play" => Apply(g0, act) = ApplyPlayCard(g, act.player, act.card)
             /\ act.kind = "buy" => Apply(g0, act) = ApplyBuyCard(g, act.player, act.card)
             /\ act.kind = "end" => Apply(g0, act) = ApplyEndPhase(g)
  BY <1>1, <1>2, <1>3, <1>4, <1>5 DEF Apply
<1>6. \A c : /\ Play(p, c).kind = "play" /\ Play(p, c).player = p /\ Play(p, c).card = c
             /\ Buy(p, c).kind = "buy" /\ Buy(p, c).player = p /\ Buy(p, c).card = c
  BY DEF Play, Buy
<1>7. End(p).kind = "end" /\ End(p).player = p
  BY DEF End
<1>8. \A c : Apply(g0, Play(p, c)) = ApplyPlayCard(g, p, c)
  BY <1>5, <1>6
<1>9. \A c : Apply(g0, Buy(p, c)) = ApplyBuyCard(g, p, c)
  BY <1>5, <1>6
<1>10. Apply(g0, End(p)) = ApplyEndPhase(g)
  BY <1>5, <1>7
<1> QED
  BY <1>1, <1>2, <1>4, <1>8, <1>9, <1>10 DEF g

\* The cards a bot plays it holds, may play now, and knows.
LEMMA CardsPicked ==
  ASSUME NEW g0, NEW name, NEW p, NEW b, HasTurn(g0, name, p, b), NEW c,
         LET v == Snapshot(g0, p)
         IN  c \in IF v.phase = "action" THEN ActionPlays(b, v)
                   ELSE {x \in InHandOf(v) : IsTreasure(x)}
  PROVE  /\ c \in BotPlays /\ c \in Cards /\ g0.players[p].hand[c] > 0
         /\ IF g0.phase = "action"
            THEN /\ HasType(c, "action") /\ g0.players[p].actions > 0
                 /\ c \in Plays(name)
            ELSE HasType(c, "treasure") /\ c \in {"copper", "silver", "gold"}
<1> DEFINE v == Snapshot(g0, p)
           hand == g0.players[p].hand
<1>1. /\ g0 \in GameStates /\ p = g0.current /\ b \in Bot /\ b.name = name
      /\ name \in Names /\ p \in Players /\ OwnsWhatItKnows(b, g0.players[p])
  BY DEF HasTurn, Sound, Playing
<1>2. hand \in Bag /\ g0.players[p].actions \in Nat
  BY <1>1, PlayersFact DEF PlayerState
<1>3. v.hand = hand /\ v.actions = g0.players[p].actions /\ v.phase = g0.phase
  BY DEF Snapshot
<1>4. DOMAIN hand = Cards
  BY <1>2 DEF Bag
<1>5. InHandOf(v) = {x \in Cards : hand[x] > 0}
  BY <1>3, <1>4 DEF InHandOf
<1>6. \A x : HandContains(v, x) => x \in InHandOf(v)
  BY <1>3, <1>4 DEF HandContains, InHandOf
<1>7. c \in IF v.phase = "action" THEN ActionPlays(b, v)
            ELSE {x \in InHandOf(v) : IsTreasure(x)}
  OBVIOUS
<1> HIDE DEF v, hand
<1>8. CASE g0.phase = "action"
  <2>1. c \in ActionPlays(b, v)
    BY <1>3, <1>7, <1>8
  <2>2. v.actions > 0 /\ name \notin {"bigmoney", "gardens_bm"}
    BY <1>1, <1>2, <1>3, <2>1 DEF ActionPlays
  <2>3. CASE name = "throneroom_bm"
    <3>1. c \in ThroneRoomPlays(v)
      BY <1>1, <2>1, <2>2, <2>3 DEF ActionPlays
    <3>2. IsAction("throne_room") /\ IsAction("witch")
      BY DEF IsAction
    <3>3. c \in InHandOf(v) /\ IsAction(c)
      BY <1>6, <3>1, <3>2 DEF ThroneRoomPlays
    <3>4. c \in Cards /\ hand[c] > 0 /\ HasType(c, "action")
      BY <1>5, <3>3, BotsKnowActions
    <3>5. c \in {"throne_room", "witch"}
      BY <1>1, <2>3, <3>4, ThroneRoomHand DEF hand
    <3> QED
      BY <1>3, <1>8, <2>2, <2>3, <3>4, <3>5 DEF Plays, BotPlays, hand
  <2>4. CASE name # "throneroom_bm"
    <3>1. c = Signature[name] /\ HandContains(v, c) /\ name \in DOMAIN Signature
      <4>1. CASE name = "chapel_bm"
        BY <1>1, <2>1, <2>2, <4>1 DEF ActionPlays, Signature
      <4>2. CASE name # "chapel_bm"
        <5>1. c \in {x \in {Signature[b.name]} : HandContains(v, x)}
          BY <1>1, <2>1, <2>2, <2>4, <4>2 DEF ActionPlays
        <5>2. name \in DOMAIN Signature
          BY <1>1, <2>2, <2>4 DEF Names, Signature
        <5> QED
          BY <1>1, <5>1, <5>2
      <4> QED
        BY <4>1, <4>2
    <3>2. c \in BotPlays /\ IsAction(c)
      BY <1>1, <3>1 DEF Signature, BotPlays, IsAction
    <3>3. c \in Cards /\ hand[c] > 0 /\ HasType(c, "action")
      BY <1>5, <1>6, <3>1, <3>2, BotsKnowActions
    <3>4. c \in Plays(name)
      BY <2>2, <2>4, <3>1 DEF Plays
    <3> QED
      BY <1>3, <1>8, <2>2, <3>2, <3>3, <3>4 DEF hand
  <2> QED
    BY <2>3, <2>4
<1>9. CASE g0.phase # "action"
  <2>1. c \in Cards /\ hand[c] > 0 /\ c \in {"copper", "silver", "gold"}
    BY <1>3, <1>5, <1>7, <1>9 DEF IsTreasure
  <2>2. HasType(c, "treasure")
    BY <2>1 DEF HasType, CardTypes
  <2> QED
    BY <1>9, <2>1, <2>2 DEF BotPlays, hand
<1> QED
  BY <1>8, <1>9

\* What a bot plays is accepted, and leaves the game and its notes in order.
LEMMA PlayLeaves ==
  ASSUME NEW g0, NEW name, NEW p, NEW b, HasTurn(g0, name, p, b), NEW c,
         LET v == Snapshot(g0, p)
         IN  c \in IF v.phase = "action" THEN ActionPlays(b, v)
                   ELSE {x \in InHandOf(v) : IsTreasure(x)},
         NEW h \in Apply(g0, Play(p, c))
  PROVE  ~h.err /\ SameTurn(g0, h) /\ Leaves(g0, h, name, p, b)
<1> DEFINE g == Cleared(g0)
<1>1. /\ g0 \in GameStates /\ p = g0.current /\ ~g0.ended /\ g0.decision = NoDecision
      /\ Playing(g0, name, p, b) /\ name \in Names
      /\ Familiar(g0, name) /\ RemodelInTime(g0, name) /\ p \in Players
  BY DEF HasTurn, Sound, Playing, GameHolds
<1>2. /\ Ready(g) /\ ~g.err /\ ~g.ended /\ g.current = p /\ g.phase = g0.phase
      /\ SameTurn(g0, g) /\ g.players = g0.players /\ g.supply = g0.supply
      /\ g.pendingPlays = g0.pendingPlays
      /\ Apply(g0, Play(p, c)) = ApplyPlayCard(g, p, c)
  BY TurnTaken
<1>3. /\ c \in BotPlays /\ c \in Cards /\ g0.players[p].hand[c] > 0
      /\ IF g0.phase = "action"
         THEN /\ HasType(c, "action") /\ g0.players[p].actions > 0
              /\ c \in Plays(name)
         ELSE HasType(c, "treasure") /\ c \in {"copper", "silver", "gold"}
  BY CardsPicked
<1> HIDE DEF g
<1>4. /\ Ready(g) /\ c \in BotPlays /\ Holds(g, c, "hand")
      /\ IF g.phase = "action"
         THEN HasType(c, "action") /\ g.players[g.current].actions > 0
         ELSE HasType(c, "treasure")
      /\ h \in ApplyPlayCard(g, g.current, c)
  BY <1>2, <1>3 DEF Holds
<1>5. /\ h \in Played(g, c)
      /\ g.phase = "action" /\ c = "remodel" =>
           /\ h.supply = g.supply
           /\ h.players[g.current].inPlay["remodel"] > 0
           /\ h.players[g.current].actions = g.players[g.current].actions - 1
  BY <1>4, CardPlayed
<1>6. /\ h \in GameStates /\ SameTurn(g, h) /\ h.err = g.err
      /\ h.pendingPlays = g.pendingPlays
      /\ h.decision # NoDecision => AskedBy(h, c, p)
  BY <1>2, <1>5 DEF Played, Quiet, Gentle, Outcome
<1>7. SameTurn(g0, h) /\ ~h.err /\ h.current = p
  BY <1>1, <1>2, <1>6 DEF SameTurn
<1>8. Changes(g0, h, p, {"curse"})
  <2>1. Changes(g, h, p, {"curse"})
    BY <1>1, <1>2, <1>5, PlayedChanges
  <2> QED
    BY <1>2, <2>1 DEF Changes
<1>9. h.decision # NoDecision => g0.phase = "action" /\ c \in Plays(name)
  BY <1>3, <1>6 DEF AskedBy, AsksPlayer
<1>10. Familiar(h, name)
  <2>1. h.decision # NoDecision => Expected(h, name)
    <3> SUFFICES ASSUME h.decision # NoDecision PROVE Expected(h, name)
      OBVIOUS
    <3>1. c \in Plays(name) /\ g0.phase = "action"
      BY <1>9
    <3>2. CASE h.decision.player = p /\ h.decision.card = c /\ c \in AsksPlayer
               /\ h.decision.step = 0
      BY <1>2, <1>5, <1>7, <3>1, <3>2 DEF Expected
    <3>3. CASE h.decision.player = Opponent(p) /\ h.decision.card = "militia"
               /\ c = "militia"
      <4>1. name = "militia_bm"
        BY <1>1, <3>1, <3>3 DEF Plays, Signature, Names
      <4> QED
        BY <1>7, <3>3, <4>1 DEF Expected
    <3> QED
      BY <1>6, <3>2, <3>3 DEF AskedBy
  <2> QED
    BY <1>1, <1>2, <1>6, <2>1 DEF Familiar
<1>11. RemodelInTime(h, name)
  <2> SUFFICES ASSUME name = "remodel_bm"
               PROVE  /\ h.decision # NoDecision =>
                           h.players[p].actions = 0 /\ ~IsGameOver(h)
                      /\ h.decision = NoDecision /\ h.phase = "action"
                           => ~(h.players[p].actions > 0)
    BY <1>7 DEF RemodelInTime
  <2>1. CASE g0.phase = "action"
    <3>1. c = "remodel"
      BY <1>3, <2>1 DEF Plays, Signature
    <3>2. g0.players[p].actions = 1 /\ ~IsGameOver(g0)
      BY <1>1, <1>3, <2>1 DEF RemodelInTime
    <3>3. h.players[p].actions = 0 /\ h.supply = g0.supply
      BY <1>2, <1>5, <2>1, <3>1, <3>2
    <3> QED
      BY <3>2, <3>3, SameOver
  <2>2. CASE g0.phase # "action"
    BY <1>7, <1>9, <2>2 DEF SameTurn
  <2> QED
    BY <2>1, <2>2
<1> QED
  BY <1>1, <1>6, <1>7, <1>8, <1>10, <1>11, ChangesLeave DEF Junk

-----------------------------------------------------------------------------
(***************************************************************************)
(* What a bot buys.                                                        *)
(***************************************************************************)

\* A card bot b may be right to buy on view v: it can pay for it, the pile is
\* not empty as far as the bot looks, and it notes the card it counts.
Sensible(b, v, c, noted) ==
  /\ c \in Cards /\ Cost[c] <= v.coins
  /\ \/ v.supply[c] > 0
     \/ b.name \in {"bigmoney", "smithy_bm"} /\ c \in {"province", "gold", "silver"}
  /\ noted <=> c = NotedCard(b.name)
  /\ b.name = "chapel_bm" => c # "copper"
  /\ b.name = "remodel_bm" /\ noted => b.bought = 0
  /\ b.name = "throneroom_bm" /\ HasType(c, "action") => c \in {"throne_room", "witch"}

Rungs(b, v) ==
  {x \in [card : Registered, holds : BOOLEAN, noted : BOOLEAN] :
     x.holds => Sensible(b, v, x.card, x.noted)}

View(v) == v.supply \in Bag /\ v.coins \in Nat

LEMMA RungsHold ==
  ASSUME NEW b, NEW v, NEW c \in Registered, NEW e \in BOOLEAN
  PROVE  /\ (e => Sensible(b, v, c, FALSE)) => Rung(c, e) \in Rungs(b, v)
         /\ (e => Sensible(b, v, c, TRUE)) => Noted(c, e) \in Rungs(b, v)
  BY DEF Rungs, Rung, Noted

LEMMA Afforded ==
  ASSUME NEW v, View(v), NEW c \in Registered, Affords(v, c, Cost[c])
  PROVE  c \in Cards /\ Cost[c] <= v.coins /\ v.supply[c] > 0
<1>1. Cost[c] \in Nat
  BY CostIsNat
<1> QED
  BY <1>1 DEF Affords, SupplyCount, View, Bag

\* A pile of Treasures or Victory cards a bot can afford.
LEMMA PlainRung ==
  ASSUME NEW v, View(v), NEW b \in Bot,
         NEW c \in {"province", "gold", "silver", "duchy", "estate"},
         NEW e \in BOOLEAN, e => Affords(v, c, Cost[c])
  PROVE  Rung(c, e) \in Rungs(b, v)
<1>1. c \in Registered /\ c # "copper" /\ ~HasType(c, "action")
  BY DEF Registered, CardTypes, HasType
<1>2. b.name \in Names
  BY DEF Bot
<1>3. c # NotedCard(b.name)
  BY <1>2 DEF NotedCard, Names, Signature, NoCard
<1>4. e => Sensible(b, v, c, FALSE)
  BY <1>1, <1>3, Afforded DEF Sensible
<1> QED
  BY <1>1, <1>4, RungsHold

\* The card a bot counts.
LEMMA NotedRung ==
  ASSUME NEW v, View(v), NEW b \in Bot, NEW c \in Registered, c = NotedCard(b.name),
         NEW e \in BOOLEAN, e => Affords(v, c, Cost[c]),
         e /\ b.name = "remodel_bm" => b.bought = 0
  PROVE  Noted(c, e) \in Rungs(b, v)
<1>1. b.name \in Names
  BY DEF Bot
<1>2. c # "copper" /\ (b.name = "throneroom_bm" => c = "witch")
  BY <1>1 DEF NotedCard, Names, Signature, NoCard
<1>3. e => Sensible(b, v, c, TRUE)
  BY <1>2, Afforded DEF Sensible
<1> QED
  BY <1>3, RungsHold

LEMMA EconomySound ==
  ASSUME NEW v, View(v), NEW b \in Bot, NEW own \in Seq(Rungs(b, v))
  PROVE  Economy(v, own) \in Seq(Rungs(b, v))
<1> DEFINE R == Rungs(b, v)
<1>1. Cost["province"] = 8 /\ Cost["gold"] = 6 /\ Cost["silver"] = 3
  BY DEF Cost
<1>2. /\ Affords(v, "province", 8) \in BOOLEAN /\ Affords(v, "gold", 6) \in BOOLEAN
      /\ Affords(v, "silver", 3) \in BOOLEAN
  BY DEF Affords
<1>3. Rung("province", Affords(v, "province", 8)) \in R
  BY <1>1, <1>2, PlainRung
<1>4. Rung("gold", Affords(v, "gold", 6)) \in R
  BY <1>1, <1>2, PlainRung
<1>5. Rung("silver", Affords(v, "silver", 3)) \in R
  BY <1>1, <1>2, PlainRung
<1> HIDE DEF R
<1>6. own \in Seq(R)
  BY DEF R
<1>7. Economy(v, own) \in Seq(R)
  BY <1>3, <1>4, <1>5, <1>6 DEF Economy
<1> QED
  BY <1>7 DEF R

\* A pile BigMoney and SmithyBM name without looking at it.
LEMMA UnseenRung ==
  ASSUME NEW v, View(v), NEW b \in Bot, b.name \in {"bigmoney", "smithy_bm"},
         NEW c \in {"province", "gold", "silver"},
         NEW e \in BOOLEAN, e => v.coins >= Cost[c]
  PROVE  Rung(c, e) \in Rungs(b, v)
<1>1. c \in Registered /\ c \in Cards /\ Cost[c] \in Nat
  BY CardsAssumption, CostIsNat DEF BasicCards
<1>2. c # NotedCard(b.name)
  BY DEF NotedCard, NoCard
<1>3. e => Sensible(b, v, c, FALSE)
  BY <1>1, <1>2 DEF Sensible, View
<1> QED
  BY <1>1, <1>3, RungsHold

LEMMA UnseenRungs ==
  ASSUME NEW v, View(v), NEW b \in Bot, b.name \in {"bigmoney", "smithy_bm"}
  PROVE  /\ Rung("province", v.coins >= 8) \in Rungs(b, v)
         /\ Rung("gold", v.coins >= 6) \in Rungs(b, v)
         /\ Rung("silver", v.coins >= 3) \in Rungs(b, v)
<1> DEFINE pays(n) == v.coins >= n
<1>1. Cost["province"] = 8 /\ Cost["gold"] = 6 /\ Cost["silver"] = 3
  BY DEF Cost
<1>2. \A n : pays(n) \in BOOLEAN /\ (pays(n) => v.coins >= n)
  OBVIOUS
<1> HIDE DEF pays
<1>3. Rung("province", pays(8)) \in Rungs(b, v)
  BY <1>1, <1>2, UnseenRung
<1>4. Rung("gold", pays(6)) \in Rungs(b, v)
  BY <1>1, <1>2, UnseenRung
<1>5. Rung("silver", pays(3)) \in Rungs(b, v)
  BY <1>1, <1>2, UnseenRung
<1> QED
  BY <1>3, <1>4, <1>5 DEF pays

\* Every rung of every ladder is a sensible one.
LEMMA LaddersSound ==
  ASSUME NEW v, View(v), NEW b \in Bot
  PROVE  Ladder(b, v) \in Seq(Rungs(b, v))
<1> DEFINE R == Rungs(b, v)
<1>1. b.name \in Names
  BY DEF Bot
<1>2. \A own \in Seq(R) : Economy(v, own) \in Seq(R)
  BY EconomySound
<1>3. CASE b.name = "bigmoney"
  <2>1. /\ Rung("province", v.coins >= 8) \in R /\ Rung("gold", v.coins >= 6) \in R
        /\ Rung("silver", v.coins >= 3) \in R
    BY <1>3, UnseenRungs
  <2> HIDE DEF R
  <2>2. Ladder(b, v) \in Seq(R)
    BY <1>3, <2>1 DEF Ladder, BigMoneyBuys
  <2> QED
    BY <2>2 DEF R
<1>4. CASE b.name = "smithy_bm"
  <2> DEFINE endgame == SupplyCount(v, "province") <= 4
             few == v.coins >= 4 /\ b.turns <= 4 /\ 10 - SupplyCount(v, "smithy") < 2
  <2>1. Cost["duchy"] = 5 /\ Cost["smithy"] = 4 /\ "smithy" \in Registered
    BY DEF Cost, Registered, CardTypes
  <2>2. /\ Rung("province", v.coins >= 8) \in R /\ Rung("gold", v.coins >= 6) \in R
        /\ Rung("silver", v.coins >= 3) \in R
    BY <1>4, UnseenRungs
  <2>3. Rung("duchy", endgame /\ Affords(v, "duchy", 5)) \in R
    BY <2>1, PlainRung
  <2>4. few => Affords(v, "smithy", 4)
    <3>1. SupplyCount(v, "smithy") \in Nat
      BY DEF SupplyCount, View, Bag
    <3> QED
      BY <3>1 DEF Affords
  <2>5. few => Sensible(b, v, "smithy", FALSE)
    <3> SUFFICES ASSUME few PROVE Sensible(b, v, "smithy", FALSE)
      OBVIOUS
    <3>1. "smithy" \in Cards /\ Cost["smithy"] <= v.coins /\ v.supply["smithy"] > 0
      BY <2>1, <2>4, Afforded
    <3>2. "smithy" # NotedCard(b.name)
      BY <1>4 DEF NotedCard, NoCard
    <3> QED
      BY <1>4, <3>1, <3>2 DEF Sensible
  <2>6. Rung("smithy", few) \in R
    BY <2>1, <2>5, RungsHold
  <2> HIDE DEF R
  <2>7. Ladder(b, v) \in Seq(R)
    BY <1>4, <2>2, <2>3, <2>6 DEF Ladder, SmithyBuys
  <2> QED
    BY <2>7 DEF R
<1>5. CASE b.name = "chapel_bm"
  <2> DEFINE endgame == SupplyCount(v, "province") <= 5
             first == b.bought = 0 /\ b.turns <= 2 /\ Affords(v, "chapel", 2)
  <2>1. /\ Cost["province"] = 8 /\ Cost["gold"] = 6 /\ Cost["silver"] = 3
        /\ Cost["duchy"] = 5 /\ Cost["estate"] = 2 /\ Cost["chapel"] = 2
        /\ "chapel" \in Registered
    BY DEF Cost, Registered, CardTypes
  <2>2. \A c, n : Affords(v, c, n) \in BOOLEAN
    BY DEF Affords
  <2>3. Rung("province", Affords(v, "province", 8)) \in R
    BY <2>1, <2>2, PlainRung
  <2>4. Rung("duchy", endgame /\ Affords(v, "duchy", 5)) \in R
    BY <2>1, PlainRung
  <2>5. Rung("gold", Affords(v, "gold", 6)) \in R
    BY <2>1, <2>2, PlainRung
  <2>6. Rung("estate", endgame /\ Affords(v, "estate", 2)) \in R
    BY <2>1, PlainRung
  <2>7. Rung("silver", Affords(v, "silver", 3)) \in R
    BY <2>1, <2>2, PlainRung
  <2>8. Noted("chapel", first) \in R
    <3>1. "chapel" = NotedCard(b.name)
      BY <1>5 DEF NotedCard, Signature
    <3> QED
      BY <1>5, <2>1, <3>1, NotedRung
  <2> HIDE DEF R
  <2>9. Ladder(b, v) \in Seq(R)
    BY <1>5, <2>3, <2>4, <2>5, <2>6, <2>7, <2>8 DEF Ladder, ChapelBuys
  <2> QED
    BY <2>9 DEF R
<1>6. CASE b.name = "remodel_bm"
  <2> DEFINE endgame == SupplyCount(v, "province") <= 4
             first == b.bought = 0 /\ b.turns <= 4 /\ Affords(v, "remodel", 4)
             own == <<Rung("duchy", endgame /\ Affords(v, "duchy", 5)),
                      Noted("remodel", first)>>
  <2>1. Cost["duchy"] = 5 /\ Cost["remodel"] = 4 /\ "remodel" \in Registered
    BY DEF Cost, Registered, CardTypes
  <2>2. Rung("duchy", endgame /\ Affords(v, "duchy", 5)) \in R
    BY <2>1, PlainRung
  <2>3. "remodel" = NotedCard(b.name)
    BY <1>6 DEF NotedCard, Signature
  <2>4. Noted("remodel", first) \in R
    BY <1>6, <2>1, <2>3, NotedRung
  <2> HIDE DEF R
  <2>5. own \in Seq(R)
    BY <2>2, <2>4
  <2>6. Ladder(b, v) = Economy(v, own)
    BY <1>6 DEF Ladder, RemodelBuys
  <2> HIDE DEF own
  <2> QED
    BY <1>2, <2>5, <2>6 DEF R
<1>7. CASE b.name = "throneroom_bm"
  <2> DEFINE first == TurnsIn(b, 3, 6) /\ b.bought = 0 /\ Affords(v, "witch", 5)
             then == /\ v.coins = 4 /\ TurnsIn(b, 3, 6) /\ b.bought > 0
                     /\ Affords(v, "throne_room", 4)
             own == <<Noted("witch", first), Rung("throne_room", then)>>
  <2>1. /\ Cost["witch"] = 5 /\ Cost["throne_room"] = 4
        /\ "witch" \in Registered /\ "throne_room" \in Registered
    BY DEF Cost, Registered, CardTypes
  <2>2. "witch" = NotedCard(b.name)
    BY <1>7 DEF NotedCard
  <2>3. Noted("witch", first) \in R
    BY <1>7, <2>1, <2>2, NotedRung
  <2>4. then => Sensible(b, v, "throne_room", FALSE)
    <3> SUFFICES ASSUME then PROVE Sensible(b, v, "throne_room", FALSE)
      OBVIOUS
    <3>1. /\ "throne_room" \in Cards /\ Cost["throne_room"] <= v.coins
          /\ v.supply["throne_room"] > 0
      BY <2>1, Afforded
    <3> QED
      BY <1>7, <2>2, <3>1 DEF Sensible
  <2>5. Rung("throne_room", then) \in R
    BY <2>1, <2>4, RungsHold
  <2> HIDE DEF R, first, then
  <2>6. own \in Seq(R)
    BY <2>3, <2>5
  <2>7. Ladder(b, v) = Economy(v, own)
    BY <1>7 DEF Ladder, ThroneRoomBuys, first, then
  <2> HIDE DEF own
  <2> QED
    BY <1>2, <2>6, <2>7 DEF R
<1>8. CASE b.name = "witch_bm"
  <2> DEFINE first == TurnsIn(b, 3, 4) /\ b.bought = 0 /\ Affords(v, "witch", 5)
             own == <<Noted("witch", first)>>
  <2>1. Cost["witch"] = 5 /\ "witch" \in Registered
    BY DEF Cost, Registered, CardTypes
  <2>2. "witch" = NotedCard(b.name)
    BY <1>8 DEF NotedCard, Signature
  <2>3. Noted("witch", first) \in R
    BY <1>8, <2>1, <2>2, NotedRung
  <2> HIDE DEF R
  <2>4. own \in Seq(R)
    BY <2>3
  <2>5. Ladder(b, v) = Economy(v, own)
    BY <1>8 DEF Ladder, WitchBuys
  <2> HIDE DEF own
  <2> QED
    BY <1>2, <2>4, <2>5 DEF R
<1>9. CASE b.name = "militia_bm"
  <2> DEFINE first == TurnsIn(b, 3, 4) /\ b.bought = 0 /\ Affords(v, "militia", 4)
             own == <<Noted("militia", first)>>
  <2>1. Cost["militia"] = 4 /\ "militia" \in Registered
    BY DEF Cost, Registered, CardTypes
  <2>2. "militia" = NotedCard(b.name)
    BY <1>9 DEF NotedCard, Signature
  <2>3. Noted("militia", first) \in R
    BY <1>9, <2>1, <2>2, NotedRung
  <2> HIDE DEF R
  <2>4. own \in Seq(R)
    BY <2>3
  <2>5. Ladder(b, v) = Economy(v, own)
    BY <1>9 DEF Ladder, MilitiaBuys
  <2> HIDE DEF own
  <2> QED
    BY <1>2, <2>4, <2>5 DEF R
<1>10. CASE b.name = "library_bm"
  <2> DEFINE first == b.bought < 2 /\ Affords(v, "library", 5)
             own == <<Noted("library", first)>>
  <2>1. Cost["library"] = 5 /\ "library" \in Registered
    BY DEF Cost, Registered, CardTypes
  <2>2. "library" = NotedCard(b.name)
    BY <1>10 DEF NotedCard, Signature
  <2>3. Noted("library", first) \in R
    BY <1>10, <2>1, <2>2, NotedRung
  <2> HIDE DEF R
  <2>4. own \in Seq(R)
    BY <2>3
  <2>5. Ladder(b, v) = Economy(v, own)
    BY <1>10 DEF Ladder, LibraryBuys
  <2> HIDE DEF own
  <2> QED
    BY <1>2, <2>4, <2>5 DEF R
<1>11. CASE b.name = "sentry_bm"
  <2> DEFINE first == b.bought < 1 /\ Affords(v, "sentry", 5)
             own == <<Noted("sentry", first)>>
  <2>1. Cost["sentry"] = 5 /\ "sentry" \in Registered
    BY DEF Cost, Registered, CardTypes
  <2>2. "sentry" = NotedCard(b.name)
    BY <1>11 DEF NotedCard, Signature
  <2>3. Noted("sentry", first) \in R
    BY <1>11, <2>1, <2>2, NotedRung
  <2> HIDE DEF R
  <2>4. own \in Seq(R)
    BY <2>3
  <2>5. Ladder(b, v) = Economy(v, own)
    BY <1>11 DEF Ladder, SentryBuys
  <2> HIDE DEF own
  <2> QED
    BY <1>2, <2>4, <2>5 DEF R
<1>12. CASE b.name = "merchant_bm"
  <2> DEFINE first == b.bought < 2 /\ Affords(v, "merchant", 3)
             own == <<Noted("merchant", first)>>
  <2>1. Cost["merchant"] = 3 /\ "merchant" \in Registered
    BY DEF Cost, Registered, CardTypes
  <2>2. "merchant" = NotedCard(b.name)
    BY <1>12 DEF NotedCard, Signature
  <2>3. Noted("merchant", first) \in R
    BY <1>12, <2>1, <2>2, NotedRung
  <2> HIDE DEF R
  <2>4. own \in Seq(R)
    BY <2>3
  <2>5. Ladder(b, v) = Economy(v, own)
    BY <1>12 DEF Ladder, MerchantBuys
  <2> HIDE DEF own
  <2> QED
    BY <1>2, <2>4, <2>5 DEF R
<1>13. CASE b.name = "gardens_bm"
  <2> DEFINE first == b.bought < 4 /\ Affords(v, "gardens", 4)
             own == <<Noted("gardens", first)>>
             last == <<Rung("copper", Affords(v, "copper", 0))>>
  <2>1. /\ Cost["gardens"] = 4 /\ Cost["copper"] = 0
        /\ "gardens" \in Registered /\ "copper" \in Registered
    BY DEF Cost, Registered, CardTypes
  <2>2. "gardens" = NotedCard(b.name)
    BY <1>13 DEF NotedCard
  <2>3. Noted("gardens", first) \in R
    BY <1>13, <2>1, <2>2, NotedRung
  <2>4. Affords(v, "copper", 0) => Sensible(b, v, "copper", FALSE)
    BY <1>13, <2>1, <2>2, Afforded DEF Sensible
  <2>5. Rung("copper", Affords(v, "copper", 0)) \in R
    <3>1. Affords(v, "copper", 0) \in BOOLEAN
      BY DEF Affords
    <3> QED
      BY <2>1, <2>4, <3>1, RungsHold
  <2> HIDE DEF R
  <2>6. own \in Seq(R) /\ last \in Seq(R)
    BY <2>3, <2>5
  <2>7. Ladder(b, v) = Economy(v, own) \o last
    BY <1>13 DEF Ladder, GardensBuys
  <2> HIDE DEF own, last
  <2>8. Economy(v, own) \in Seq(R)
    BY <1>2, <2>6 DEF R
  <2> QED
    BY <2>6, <2>7, <2>8 DEF R
<1> QED
  BY <1>1, <1>3, <1>4, <1>5, <1>6, <1>7, <1>8, <1>9, <1>10, <1>11, <1>12, <1>13 DEF Names

\* The first rung that holds exists.
LEMMA FirstOne ==
  ASSUME NEW S \in SUBSET Nat, S # {}
  PROVE  \E i \in S : \A j \in S : i <= j
<1>1. IsWellFoundedOn(OpToRel(<, Nat), Nat)
  BY NatLessThanWellFounded
<1>2. PICK x \in S : \A y \in S : ~ (<<y, x>> \in OpToRel(<, Nat))
  BY <1>1, WFMin
<1>3. \A y \in S : ~ (y < x)
  BY <1>2 DEF OpToRel
<1> QED
  BY <1>3

\* The bot that has bought a card, of a rung it notes or not.
Buying(b, noted) == IF noted THEN [b EXCEPT !.bought = @ + 1] ELSE b

\* A bot ends its phase or buys the card of a rung that holds.
LEMMA BuyPicked ==
  ASSUME NEW b, NEW v, NEW p, NEW ladder \in Seq(Rungs(b, v)),
         NEW s, s = BuyFrom(b, p, ladder)
  PROVE  \/ s = [act |-> End(p), bot |-> b]
         \/ \E x \in Rungs(b, v) :
              /\ x.holds
              /\ s = [act |-> Buy(p, x.card), bot |-> Buying(b, x.noted)]
<1> DEFINE holding == {i \in DOMAIN ladder : ladder[i].holds}
           first == CHOOSE i \in holding : \A j \in holding : i <= j
<1>1. holding \subseteq Nat /\ \A i \in holding : ladder[i] \in Rungs(b, v)
  OBVIOUS
<1>2. CASE holding = {}
  BY <1>2 DEF BuyFrom
<1>3. CASE holding # {}
  <2>1. first \in holding
    <3> HIDE DEF holding
    <3> QED
      BY <1>1, <1>3, FirstOne
  <2>2. s = [act |-> Buy(p, ladder[first].card), bot |-> Buying(b, ladder[first].noted)]
    BY <1>3 DEF BuyFrom, Buying
  <2>3. ladder[first] \in Rungs(b, v) /\ ladder[first].holds
    <3>1. ladder[first].holds
      BY <2>1
    <3> QED
      BY <1>1, <2>1, <3>1
  <2> HIDE DEF first
  <2> QED
    BY <2>2, <2>3
<1> QED
  BY <1>2, <1>3

LEMMA GainedOne ==
  ASSUME NEW g \in GameStates, NEW p \in Players, NEW c \in Cards, g.supply[c] > 0,
         NEW h, h = GainCard(g, p, c, "discard")
  PROVE  Owned(h.players[p], c) = Owned(g.players[p], c) + 1
<1> DEFINE more == Owned(h.players[p], c) = Owned(g.players[p], c) + 1
<1>1. c \in Cards /\ g.supply[c] > 0 => more
  BY GainOwned
<1> QED
  BY <1>1

\* What a purchase changes.
Buys(g, h, p, c) ==
  /\ h \in GameStates /\ SameTurn(g, h) /\ h.err = g.err
  /\ h.decision = NoDecision /\ h.pendingPlays = g.pendingPlays
  /\ h.players[Opponent(p)] = g.players[Opponent(p)]
  /\ OwnsSame(g.players[p], h.players[p], {c})
  /\ Owned(h.players[p], c) = Owned(g.players[p], c) + 1
  /\ \A x \in Cards : h.supply[x] <= g.supply[x]

LEMMA Bought ==
  ASSUME NEW g, Ready(g), NEW p, p = g.current, g.phase # "action",
         g.players[p].buys > 0, NEW c \in Cards, Cost[c] <= g.players[p].coins,
         g.supply[c] > 0, NEW h \in ApplyBuyCard(g, p, c)
  PROVE  Buys(g, h, p, c)
<1> DEFINE q == g.players[p]
           r == [q EXCEPT !.coins = @ - Cost[c], !.buys = @ - 1]
           paid == [g EXCEPT !.players[p].coins = @ - Cost[c], !.players[p].buys = @ - 1]
<1>1. /\ p \in Players /\ q \in PlayerState /\ g \in GameStates /\ Cost[c] \in Nat
      /\ g.phase = "buy" /\ g.decision = NoDecision
  BY PlayersFact, CostIsNat, CardsAssumption DEF Ready, GameStates
<1>2. /\ r \in PlayerState /\ SameOwned(q, r) /\ r.inPlay = q.inPlay
      /\ r.setAside = q.setAside
  <2>1. q.coins - Cost[c] \in Nat /\ q.buys - 1 \in Nat
    <3>1. q.coins \in Nat /\ q.buys \in Nat
      BY <1>1 DEF PlayerState
    <3> QED
      BY <1>1, <3>1
  <2> HIDE DEF q
  <2> QED
    BY <1>1, <2>1 DEF PlayerState, SameOwned, Owned
<1>3. paid = [g EXCEPT !.players[p] = r]
  BY <1>1 DEF GameStates
<1>4. q.coins >= Cost[c]
  <2>1. q.coins \in Nat
    BY <1>1 DEF PlayerState
  <2> QED
    BY <1>1, <2>1
<1>5. h = GainCard(paid, p, c, "discard")
  BY <1>1, <1>4 DEF ApplyBuyCard
<1> HIDE DEF r, paid
<1>6. paid \in LocalTo(g, p)
  BY <1>1, <1>2, <1>3, LocalChange
<1>7. paid.players[p] = r /\ paid.supply = g.supply
  BY <1>1, <1>3 DEF GameStates
<1>8. paid \in GameStates /\ paid.err = g.err
  BY <1>1, <1>6, LocalTypes
<1>9. h \in LocalTo(g, p)
  BY <1>1, <1>5, <1>6, <1>8, GainCardLocal, LocalTwice
<1>10. /\ h \in GameStates /\ SameTurn(g, h) /\ h.err = g.err
       /\ h.decision = NoDecision /\ h.pendingPlays = g.pendingPlays
       /\ h.players[Opponent(p)] = g.players[Opponent(p)]
  BY <1>1, <1>9 DEF LocalTo, Beside, Moved
<1>11. OwnsSame(paid.players[p], h.players[p], {c})
  BY <1>1, <1>5, <1>8, GainOwned
<1>12. Owned(h.players[p], c) = Owned(paid.players[p], c) + 1
  <2>1. paid.supply[c] > 0
    BY <1>7
  <2> QED
    BY <1>1, <1>5, <1>8, <2>1, GainedOne
<1>13. \A x \in Cards : h.supply[x] <= paid.supply[x]
  BY <1>1, <1>5, <1>8, GainOwned
<1>14. \A x \in Cards : Owned(paid.players[p], x) = Owned(g.players[p], x)
  BY <1>2, <1>7 DEF SameOwned
<1>15. OwnsSame(g.players[p], h.players[p], {c})
  BY <1>11, <1>14 DEF OwnsSame
<1> QED
  BY <1>7, <1>10, <1>12, <1>13, <1>14, <1>15 DEF Buys
\* What a purchase does to the notes of the bot that makes it.
LEMMA BuyNoted ==
  ASSUME NEW g \in GameStates, NEW h, NEW p, NEW b \in Bot,
         NotesHold(b, p, g), OwnsWhatItKnows(b, g.players[p]),
         NEW c \in Cards, NEW noted \in BOOLEAN, NEW v, Sensible(b, v, c, noted),
         OwnsSame(g.players[p], h.players[p], {c}),
         Owned(h.players[p], c) = Owned(g.players[p], c) + 1,
         Owned(g.players[p], c) \in Nat, StartDeck[p][c] \in Nat,
         h.supply["silver"] > 0 => g.supply["silver"] > 0,
         NEW r, r = Buying(b, noted)
  PROVE  r \in Bot /\ NotesHold(r, p, h) /\ OwnsWhatItKnows(r, h.players[p])
<1> DEFINE card == NotedCard(b.name)
<1>1. /\ r \in Bot /\ r.name = b.name /\ r.trashed = b.trashed
      /\ b.bought \in Nat
      /\ r.bought = IF noted THEN b.bought + 1 ELSE b.bought
  BY DEF Bot, Buying
<1>2. /\ noted <=> c = card
      /\ b.name = "chapel_bm" => c # "copper"
      /\ b.name = "remodel_bm" /\ noted => b.bought = 0
      /\ b.name = "throneroom_bm" /\ HasType(c, "action") => c \in {"throne_room", "witch"}
  BY DEF Sensible
<1>3. \A x \in Cards : x # c => Owned(h.players[p], x) = Owned(g.players[p], x)
  BY DEF OwnsSame
<1>4. "copper" \in Cards
  BY CardsAssumption DEF BasicCards
<1> HIDE DEF card
<1>5. ASSUME card \in Cards, b.name = "remodel_bm" => h.supply["silver"] > 0
      PROVE  Owned(h.players[p], card) = StartDeck[p][card] + r.bought
  <2>1. Owned(g.players[p], card) = StartDeck[p][card] + b.bought
    BY <1>5 DEF NotesHold, card
  <2>2. CASE noted
    BY <1>1, <1>2, <2>1, <2>2
  <2>3. CASE ~noted
    BY <1>1, <1>2, <1>3, <1>5, <2>1, <2>3
  <2> QED
    BY <2>2, <2>3
<1>6. b.name = "chapel_bm" =>
        /\ Owned(h.players[p], "copper") = StartDeck[p]["copper"] - b.trashed
        /\ b.trashed <= 4
  BY <1>2, <1>3, <1>4 DEF NotesHold
<1>7. NotesHold(r, p, h)
  BY <1>1, <1>5, <1>6 DEF NotesHold, card
<1>8. OwnsWhatItKnows(r, h.players[p])
  <2>1. b.name = "throneroom_bm" =>
          \A x \in Cards : HasType(x, "action") /\ x \notin {"throne_room", "witch"}
                             => Owned(h.players[p], x) = 0
    BY <1>2, <1>3 DEF OwnsWhatItKnows
  <2>2. b.name = "remodel_bm" => r.bought <= 1
    BY <1>1, <1>2 DEF OwnsWhatItKnows
  <2> QED
    BY <1>1, <2>1, <2>2 DEF OwnsWhatItKnows
<1> QED
  BY <1>1, <1>7, <1>8

\* A bot that buys.
LEMMA BuyLeaves ==
  ASSUME NEW g0, NEW name, NEW p, NEW b, HasTurn(g0, name, p, b),
         g0.phase # "action", g0.players[p].buys > 0,
         NEW x \in Rungs(b, Snapshot(g0, p)), x.holds,
         NEW h \in Apply(g0, Buy(p, x.card)),
         NEW r, r = Buying(b, x.noted)
  PROVE  /\ h.err => h = Fail(Cleared(g0)) /\ r = b /\ TurnedAway(b, p, g0)
         /\ ~h.err => r \in Bot /\ SameTurn(g0, h) /\ Leaves(g0, h, name, p, r)
<1> DEFINE g == Cleared(g0)
           v == Snapshot(g0, p)
           c == x.card
<1>1. /\ Sound(g0) /\ g0 \in GameStates /\ g0.decision = NoDecision /\ p = g0.current
      /\ name \in Names /\ b \in Bot /\ p \in Players /\ GameHolds(g0, name)
      /\ NotesHold(b, p, g0) /\ OwnsWhatItKnows(b, g0.players[p])
  BY DEF HasTurn, Sound, Playing
<1>2. /\ Ready(g) /\ ~g.err /\ g.current = p /\ g.phase = g0.phase
      /\ SameTurn(g0, g) /\ g.players = g0.players /\ g.supply = g0.supply
      /\ g.pendingPlays = g0.pendingPlays
      /\ Apply(g0, Buy(p, c)) = ApplyBuyCard(g, p, c)
  BY TurnTaken
<1>3. v.supply = g0.supply /\ v.coins = g0.players[p].coins
  BY DEF Snapshot
<1>4. Sensible(b, v, c, x.noted) /\ x.noted \in BOOLEAN
  BY DEF Rungs
<1> HIDE DEF g, v, c
<1>5. /\ c \in Cards /\ Cost[c] <= g0.players[p].coins
      /\ \/ g0.supply[c] > 0
         \/ b.name \in {"bigmoney", "smithy_bm"} /\ c \in {"province", "gold", "silver"}
      /\ x.noted <=> c = NotedCard(b.name)
  BY <1>3, <1>4 DEF Sensible
<1>6. /\ g0.players[p] \in PlayerState /\ g0.supply \in Bag /\ Cost[c] \in Nat
      /\ g0.players[p].coins \in Nat /\ g0.phase = "buy"
      /\ g0.supply[c] \in Nat /\ g \in GameStates
  BY ZenonT(40), <1>1, <1>2, <1>5, PlayersFact, CostIsNat, CardsAssumption
     DEF GameStates, PlayerState, Bag, Ready
<1>7. CASE g0.supply[c] > 0
  <2>1. /\ Ready(g) /\ p = g.current /\ g.phase # "action"
        /\ g.players[p].buys > 0 /\ c \in Cards /\ Cost[c] <= g.players[p].coins
        /\ g.supply[c] > 0 /\ h \in ApplyBuyCard(g, p, c)
    BY <1>2, <1>5, <1>7 DEF c
  <2>2. /\ h \in GameStates /\ SameTurn(g, h) /\ h.err = g.err
        /\ h.decision = NoDecision /\ h.pendingPlays = g.pendingPlays
        /\ h.players[Opponent(p)] = g.players[Opponent(p)]
        /\ OwnsSame(g.players[p], h.players[p], {c})
        /\ Owned(h.players[p], c) = Owned(g.players[p], c) + 1
        /\ \A y \in Cards : h.supply[y] <= g.supply[y]
    <3>1. Buys(g, h, p, c)
      BY <2>1, Bought
    <3> QED
      BY <3>1 DEF Buys
  <2>3. ~h.err /\ SameTurn(g0, h) /\ h.current = p /\ h.phase = "buy"
    BY <1>1, <1>2, <1>6, <2>2 DEF SameTurn
  <2>4. "silver" \in Cards /\ StartDeck[p][c] \in Nat /\ Owned(g0.players[p], c) \in Nat
    BY <1>1, <1>5, <1>6, CardsAssumption, EngineAssumption, OwnedIsNat DEF BasicCards, Bag
  <2>5. h.supply["silver"] > 0 => g0.supply["silver"] > 0
    BY <1>2, <1>6, <2>2, <2>4 DEF GameStates, Bag
  <2>6. /\ OwnsSame(g0.players[p], h.players[p], {c})
        /\ Owned(h.players[p], c) = Owned(g0.players[p], c) + 1
    BY <1>2, <2>2
  <2>7. r \in Bot /\ NotesHold(r, p, h) /\ OwnsWhatItKnows(r, h.players[p])
    <3> DEFINE noted == x.noted
    <3>1. /\ g0 \in GameStates /\ b \in Bot /\ NotesHold(b, p, g0)
          /\ OwnsWhatItKnows(b, g0.players[p]) /\ c \in Cards
          /\ noted \in BOOLEAN /\ Sensible(b, v, c, noted)
          /\ OwnsSame(g0.players[p], h.players[p], {c})
          /\ Owned(h.players[p], c) = Owned(g0.players[p], c) + 1
          /\ Owned(g0.players[p], c) \in Nat /\ StartDeck[p][c] \in Nat
          /\ r = Buying(b, noted)
      BY <1>1, <1>4, <1>5, <2>4, <2>6
    <3> HIDE DEF noted
    <3> QED
      BY ONLY <2>5, <3>1, BuyNoted
  <2>8. Familiar(h, name)
    BY <1>1, <1>2, <2>2 DEF GameHolds, Familiar
  <2>9. RemodelInTime(h, name)
    BY <2>2, <2>3 DEF RemodelInTime
  <2>10. OwnsSame(g0.players[Opponent(p)], h.players[Opponent(p)], {"curse"})
    BY <1>2, <2>2 DEF OwnsSame
  <2>11. \A y \in Cards : h.supply[y] <= g0.supply[y]
    BY <1>2, <2>2
  <2> QED
    BY <2>3, <2>7, <2>8, <2>9, <2>10, <2>11 DEF Leaves, GameHolds
<1>8. CASE ~(g0.supply[c] > 0)
  <2>1. h = Fail(g)
    BY <1>2, <1>8 DEF ApplyBuyCard, c
  <2>2. h.err
    BY <1>6, <2>1, FailMoves
  <2>3. b.name \in {"bigmoney", "smithy_bm"} /\ c \in {"province", "gold", "silver"}
        /\ g0.supply[c] = 0 /\ g0.players[p].coins >= Cost[c]
    BY <1>5, <1>6, <1>8
  <2>4. ~x.noted
    BY <1>5, <2>3 DEF NotedCard, NoCard
  <2>5. TurnedAway(b, p, g0)
    BY <1>1, <1>6, <2>3 DEF TurnedAway
  <2> QED
    BY <2>1, <2>2, <2>4, <2>5 DEF g, Buying
<1> QED
  BY <1>7, <1>8

-----------------------------------------------------------------------------
(***************************************************************************)
(* How a bot ends its phases.                                              *)
(***************************************************************************)
LEMMA EndIsAccepted ==
  ASSUME NEW g, Ready(g), NEW h \in ApplyEndPhase(g)
  PROVE  h.err = g.err
<1>1. g \in GameStates /\ g.current \in Players /\ Opponent(g.current) \in Players
  BY PlayersFact DEF Ready
<1>2. CASE g.phase = "action"
  BY <1>1, <1>2 DEF ApplyEndPhase, GameStates
<1>3. CASE g.phase # "action"
  <2>1. PICK k \in CleanupAndEndTurn(g) : h = (IF IsGameOver(k) THEN EndGame(k) ELSE k)
    BY <1>3 DEF ApplyEndPhase
  <2> DEFINE next == Opponent(g.current)
  <2>2. PICK a \in WithPlayer(g, g.current, CleanedUp(g.players[g.current])) :
          k = [a EXCEPT !.pendingPlays = <<>>, !.current = next, !.phase = "action",
                        !.turn = IF next = g.starting THEN @ + 1 ELSE @,
                        !.players[next] = StartTurn(@)]
    BY DEF CleanupAndEndTurn
  <2>3. PICK r : a = [g EXCEPT !.players[g.current] = r]
    BY DEF WithPlayer
  <2>4. a.err = g.err /\ DOMAIN a = DOMAIN g /\ "err" \in DOMAIN g
    BY <1>1, <2>3 DEF GameStates
  <2>5. k.err = a.err /\ DOMAIN k = DOMAIN g
    BY <2>2, <2>4
  <2>6. EndGame(k).err = k.err
    <3> DEFINE w == DetermineWinners(k)
    <3> HIDE DEF w
    <3>1. EndGame(k) = [k EXCEPT !.ended = TRUE, !.winners = w]
      BY DEF EndGame, w
    <3> QED
      BY <2>4, <2>5, <3>1
  <2> QED
    BY <2>1, <2>4, <2>5, <2>6
<1> QED
  BY <1>2, <1>3

LEMMA PhaseLeaves ==
  ASSUME NEW g0, NEW name, NEW p, NEW b, HasTurn(g0, name, p, b),
         g0.phase = "action", NEW h \in Apply(g0, End(p))
  PROVE  /\ ~h.err /\ Leaves(g0, h, name, p, b)
         /\ h.current = g0.current /\ h.starting = g0.starting
         /\ h.turn = g0.turn /\ h.ended = g0.ended
<1> DEFINE g == Cleared(g0)
<1>1. /\ g0 \in GameStates /\ g0.decision = NoDecision /\ p = g0.current
      /\ name \in Names /\ Playing(g0, name, p, b) /\ GameHolds(g0, name)
      /\ p \in Players
  BY DEF HasTurn, Sound, Playing
<1>2. /\ Ready(g) /\ ~g.err /\ g.phase = g0.phase /\ g \in GameStates
      /\ SameTurn(g0, g) /\ g.players = g0.players /\ g.supply = g0.supply
      /\ g.pendingPlays = g0.pendingPlays /\ g.decision = NoDecision
      /\ Apply(g0, End(p)) = ApplyEndPhase(g)
  BY TurnTaken DEF Ready
<1> HIDE DEF g
<1>3. h = [g EXCEPT !.phase = "buy"]
  BY <1>2 DEF ApplyEndPhase
<1>4. /\ h \in GameStates /\ ~h.err /\ h.phase = "buy" /\ h.decision = NoDecision
      /\ h.players = g.players /\ h.supply = g.supply /\ h.pendingPlays = g.pendingPlays
      /\ h.current = g.current /\ h.starting = g.starting /\ h.turn = g.turn
      /\ h.ended = g.ended
  BY <1>2, <1>3 DEF GameStates
<1>5. Changes(g0, h, p, {})
  <2>1. \A x \in Cards : g0.supply[x] \in Nat
    BY <1>1 DEF GameStates, Bag
  <2> QED
    BY <1>2, <1>4, <2>1 DEF Changes, OwnsSame
<1>6. Familiar(h, name) /\ RemodelInTime(h, name)
  BY <1>1, <1>2, <1>4 DEF GameHolds, Familiar, RemodelInTime
<1>7. Leaves(g0, h, name, p, b)
  BY <1>1, <1>4, <1>5, <1>6, ChangesLeave
<1> QED
  BY <1>2, <1>4, <1>7 DEF SameTurn

LEMMA TurnLeaves ==
  ASSUME NEW g0, NEW name, NEW p, NEW b, HasTurn(g0, name, p, b),
         g0.phase # "action", NEW h \in Apply(g0, End(p)), NEW other \in Names
  PROVE  ~h.err /\ Passed(Cleared(g0), h) /\ Leaves(g0, h, other, p, b)
<1> DEFINE g == Cleared(g0)
<1>1. /\ g0 \in GameStates /\ p = g0.current /\ Playing(g0, name, p, b)
      /\ p \in Players /\ b \in Bot
      /\ NotesHold(b, p, g0) /\ OwnsWhatItKnows(b, g0.players[p])
  BY DEF HasTurn, Sound, Playing
<1>2. /\ Ready(g) /\ ~g.err /\ ~g.ended /\ g.current = p /\ g.phase # "action"
      /\ g.players = g0.players /\ g.supply = g0.supply
      /\ h \in ApplyEndPhase(g)
  BY TurnTaken
<1> HIDE DEF g
<1>3. /\ Passed(g, h) /\ h.supply = g.supply
      /\ h.players[g.current] \in CleanedUp(g.players[g.current])
      /\ h.players[h.current] = StartTurn(g.players[h.current])
      /\ h.ended <=> IsGameOver(h)
  BY <1>2, EndOfTurn
<1>4. /\ Opponent(p) \in Players /\ g.players[p] \in PlayerState
      /\ g.players[Opponent(p)] \in PlayerState
  BY <1>1, <1>2, PlayersFact DEF Ready
<1>5. /\ h \in GameStates /\ h.pendingPlays = <<>> /\ h.decision = NoDecision
      /\ h.current = Opponent(p) /\ h.phase = "action"
  BY <1>2, <1>3 DEF Passed
<1>6. SameOwned(g0.players[p], h.players[p])
  BY <1>2, <1>3, <1>4, CleanedUpKeeps
<1>7. SameOwned(g0.players[Opponent(p)], h.players[Opponent(p)])
  BY <1>2, <1>3, <1>4, <1>5, StartTurnKeeps
<1>8. h.players[h.current].actions = 1
  BY <1>3, <1>4, <1>5 DEF StartTurn, PlayerState
<1>9. ~h.err
  BY <1>2, EndIsAccepted
<1>10. Changes(g0, h, p, {})
  <2>1. \A x \in Cards : g0.supply[x] \in Nat
    BY <1>1 DEF GameStates, Bag
  <2> QED
    BY <1>2, <1>3, <1>6, <1>7, <2>1 DEF Changes, OwnsSame, SameOwned
<1>11. OwnsSame(g0.players[p], h.players[p], Junk)
  BY <1>10, FewerOwnedSame DEF Changes
<1>12. "silver" \in Cards
  BY CardsAssumption DEF BasicCards
<1>13. h.supply["silver"] \in Nat /\ h.supply["silver"] <= g0.supply["silver"]
  BY <1>5, <1>10, <1>12 DEF Changes, GameStates, Bag
<1>14. NotesHold(b, p, h) /\ OwnsWhatItKnows(b, h.players[p])
  BY <1>1, <1>11, <1>13, NotesStay
<1>15. Familiar(h, other)
  BY <1>5, NothingAsked
<1>16. RemodelInTime(h, other)
  BY <1>3, <1>5, <1>8 DEF RemodelInTime
<1>17. Leaves(g0, h, other, p, b)
  BY <1>10, <1>14, <1>15, <1>16 DEF Leaves, GameHolds, Changes
<1> QED
  BY <1>3, <1>9, <1>17 DEF g

-----------------------------------------------------------------------------
(***************************************************************************)
(* Whatever a bot submits.                                                 *)
(***************************************************************************)
Answer(g, p, answer) ==
  [kind |-> "resolve", player |-> p, id |-> g.decision.id, answer |-> answer]

\* What a bot may submit, and what it notes as it does.
Submits(b, p, g, s) ==
  LET v == Snapshot(g, p)
  IN  \/ \E c \in IF v.phase = "action" THEN ActionPlays(b, v)
                  ELSE {x \in InHandOf(v) : IsTreasure(x)} :
           s = [act |-> Play(p, c), bot |-> b]
      \/ s = [act |-> End(p), bot |-> b]
      \/ /\ g.phase # "action" /\ ~(g.players[p].buys <= 0)
         /\ s = BuyFrom(b, p, Ladder(b, v))

LEMMA SubmissionCases ==
  ASSUME NEW g, NEW p, NEW b, NEW s \in Submissions(b, p, Snapshot(g, p))
  PROVE  /\ ~g.ended
         /\ \/ /\ g.decision # NoDecision /\ p = g.decision.player
               /\ \E answer \in Resolve(b, Snapshot(g, p)) :
                    s = [act |-> Answer(g, p, answer), bot |-> Noting(b, g.decision, answer)]
            \/ g.decision = NoDecision /\ p = g.current /\ Submits(b, p, g, s)
<1> DEFINE v == Snapshot(g, p)
<1>1. /\ v.ended = g.ended /\ v.decision = g.decision /\ v.current = g.current
      /\ v.phase = g.phase /\ v.buys = g.players[p].buys
  BY DEF Snapshot
<1> HIDE DEF v
<1>2. ~g.ended
  BY <1>1 DEF Submissions, v
<1>3. CASE g.decision # NoDecision
  <2>1. p = g.decision.player /\ s \in ResolveAction(b, p, v)
    BY <1>1, <1>2, <1>3 DEF Submissions, v
  <2>2. PICK answer \in Resolve(b, v) :
          s = [act |-> [kind |-> "resolve", player |-> p, id |-> v.decision.id,
                        answer |-> answer],
               bot |-> IF b.name = "chapel_bm" /\ v.decision.card = "chapel"
                       THEN [b EXCEPT !.trashed = @ + answer.list["copper"]] ELSE b]
    BY <2>1 DEF ResolveAction
  <2>3. s = [act |-> Answer(g, p, answer), bot |-> Noting(b, g.decision, answer)]
    BY <1>1, <2>2 DEF Answer, Noting
  <2> QED
    BY <1>2, <1>3, <2>1, <2>2, <2>3 DEF v
<1>4. CASE g.decision = NoDecision
  <2>1. p = g.current /\ s \in PickAction(b, p, v)
    BY <1>1, <1>2, <1>4 DEF Submissions, v
  <2> DEFINE plays == IF v.phase = "action" THEN ActionPlays(b, v)
                      ELSE {x \in InHandOf(v) : IsTreasure(x)}
  <2>2. \/ s \in {[act |-> Play(p, c), bot |-> b] : c \in plays}
        \/ s = [act |-> End(p), bot |-> b]
        \/ ~(v.phase = "action" \/ v.buys <= 0) /\ s = BuyFrom(b, p, Ladder(b, v))
    <3> HIDE DEF plays
    <3>1. PickAction(b, p, v) =
            IF plays # {} THEN {[act |-> Play(p, c), bot |-> b] : c \in plays}
            ELSE IF v.phase = "action" \/ v.buys <= 0 THEN {[act |-> End(p), bot |-> b]}
            ELSE {BuyFrom(b, p, Ladder(b, v))}
      BY DEF PickAction, plays
    <3> QED
      BY <2>1, <3>1
  <2>3. CASE s \in {[act |-> Play(p, c), bot |-> b] : c \in plays}
    <3>1. PICK c \in plays : s = [act |-> Play(p, c), bot |-> b]
      BY <2>3
    <3> QED
      BY <1>2, <1>4, <2>1, <3>1 DEF Submits, v
  <2>4. CASE s = [act |-> End(p), bot |-> b]
    BY <1>2, <1>4, <2>1, <2>4 DEF Submits
  <2>5. CASE ~(v.phase = "action" \/ v.buys <= 0) /\ s = BuyFrom(b, p, Ladder(b, v))
    BY <1>1, <1>2, <1>4, <2>1, <2>5 DEF Submits, v
  <2> QED
    BY <2>2, <2>3, <2>4, <2>5
<1> QED
  BY <1>3, <1>4
\* What a bot notes leaves its clock alone.
SameBot(b, r) ==
  r.name = b.name /\ r.turns = b.turns /\ r.lastTurn = b.lastTurn /\ r.stopped = b.stopped

LEMMA NotesAreApart ==
  ASSUME NEW b \in Bot, NEW d, NEW answer, NEW noted \in BOOLEAN
  PROVE  /\ SameBot(b, b) /\ SameBot(b, Noting(b, d, answer))
         /\ SameBot(b, Buying(b, noted))
<1>1. SameBot(b, Noting(b, d, answer))
  <2> DEFINE n == b.trashed + answer.list["copper"]
  <2>1. Noting(b, d, answer) = (IF b.name = "chapel_bm" /\ d.card = "chapel"
                               THEN [b EXCEPT !.trashed = n] ELSE b)
    BY DEF Noting
  <2> HIDE DEF n
  <2> QED
    BY <2>1 DEF SameBot, Bot
<1>2. SameBot(b, Buying(b, noted))
  BY DEF SameBot, Buying, Bot
<1> QED
  BY <1>1, <1>2 DEF SameBot

SameClock(g, h) ==
  /\ h.current = g.current /\ h.starting = g.starting
  /\ h.turn = g.turn /\ h.ended = g.ended

\* What a call of bot b makes of game g and of the bot, r: it is turned away as
\* TurnedAway says, or it leaves things in order, for itself and for the player
\* whose turn may come.
Acts(g, h, name, other, p, b, r) ==
  /\ r \in Bot /\ SameBot(b, r)
  /\ h.err => h = Fail(Cleared(g)) /\ r = b /\ TurnedAway(b, p, g)
  /\ ~h.err => \/ SameClock(g, h) /\ Leaves(g, h, name, p, r)
               \/ p = g.current /\ Passed(Cleared(g), h) /\ Leaves(g, h, other, p, r)

LEMMA TurnActs ==
  ASSUME NEW g0, NEW name, NEW p, NEW b, HasTurn(g0, name, p, b),
         NEW s, Submits(b, p, g0, s), NEW h \in Apply(g0, s.act), NEW other \in Names
  PROVE  Acts(g0, h, name, other, p, b, s.bot)
<1> DEFINE v == Snapshot(g0, p)
           plays == IF v.phase = "action" THEN ActionPlays(b, v)
                    ELSE {x \in InHandOf(v) : IsTreasure(x)}
<1>0. /\ g0 \in GameStates /\ b \in Bot /\ p = g0.current /\ p \in Players
      /\ g0.players[p] \in PlayerState /\ g0.supply \in Bag /\ SameBot(b, b)
  BY PlayersFact, NotesAreApart DEF HasTurn, Sound, Playing, GameStates
<1>1. CASE \E c \in plays : s = [act |-> Play(p, c), bot |-> b]
  <2>1. PICK c \in plays : s = [act |-> Play(p, c), bot |-> b]
    BY <1>1
  <2>2. s.act = Play(p, c) /\ s.bot = b
    BY <2>1
  <2>3. h \in Apply(g0, Play(p, c))
    BY <2>2
  <2>4. ~h.err /\ SameTurn(g0, h) /\ Leaves(g0, h, name, p, b)
    BY <2>3, PlayLeaves
  <2> QED
    BY <1>0, <2>2, <2>4 DEF Acts, SameClock, SameTurn
<1> HIDE DEF plays
<1>2. CASE s = [act |-> End(p), bot |-> b]
  <2>1. s.act = End(p) /\ s.bot = b
    BY <1>2
  <2>2. h \in Apply(g0, End(p))
    BY <2>1
  <2>3. CASE g0.phase = "action"
    <3>1. /\ ~h.err /\ Leaves(g0, h, name, p, b)
          /\ h.current = g0.current /\ h.starting = g0.starting
          /\ h.turn = g0.turn /\ h.ended = g0.ended
      BY <2>2, <2>3, PhaseLeaves
    <3> QED
      BY <1>0, <2>1, <3>1 DEF Acts, SameClock
  <2>4. CASE g0.phase # "action"
    <3>1. ~h.err /\ Passed(Cleared(g0), h) /\ Leaves(g0, h, other, p, b)
      BY <2>2, <2>4, TurnLeaves
    <3> QED
      BY <1>0, <2>1, <3>1 DEF Acts
  <2> QED
    BY <2>3, <2>4
<1>3. CASE /\ g0.phase # "action" /\ ~(g0.players[p].buys <= 0)
           /\ s = BuyFrom(b, p, Ladder(b, v))
  <2>1. View(v) /\ g0.players[p].buys > 0
    <3>1. g0.players[p].buys \in Nat /\ g0.players[p].coins \in Nat
      BY <1>0 DEF PlayerState
    <3> QED
      BY <1>0, <1>3, <3>1 DEF View, Snapshot
  <2>2. Ladder(b, v) \in Seq(Rungs(b, v))
    BY <1>0, <2>1, LaddersSound
  <2>3. \/ s = [act |-> End(p), bot |-> b]
        \/ \E x \in Rungs(b, v) :
             x.holds /\ s = [act |-> Buy(p, x.card), bot |-> Buying(b, x.noted)]
    <3> DEFINE ladder == Ladder(b, v)
    <3>1. ladder \in Seq(Rungs(b, v)) /\ s = BuyFrom(b, p, ladder)
      BY <1>3, <2>2
    <3> HIDE DEF ladder, v
    <3> QED
      BY <3>1, BuyPicked
  <2>4. SUFFICES ASSUME NEW x \in Rungs(b, v), x.holds,
                        s = [act |-> Buy(p, x.card), bot |-> Buying(b, x.noted)]
                 PROVE  Acts(g0, h, name, other, p, b, s.bot)
    BY <1>2, <2>3
  <2>5. s.act = Buy(p, x.card) /\ s.bot = Buying(b, x.noted)
    BY <2>4
  <2>6. h \in Apply(g0, Buy(p, x.card))
    BY <2>5
  <2>7. /\ h.err => h = Fail(Cleared(g0)) /\ s.bot = b /\ TurnedAway(b, p, g0)
        /\ ~h.err => s.bot \in Bot /\ SameTurn(g0, h) /\ Leaves(g0, h, name, p, s.bot)
    BY <1>3, <2>1, <2>4, <2>5, <2>6, BuyLeaves
  <2>8. SameBot(b, s.bot)
    BY <1>0, <2>5, NotesAreApart DEF Rungs
  <2> QED
    BY <1>0, <2>7, <2>8 DEF Acts, SameClock, SameTurn
<1> QED
  BY <1>1, <1>2, <1>3 DEF Submits, plays

LEMMA SubmissionActs ==
  ASSUME NEW g0, Sound(g0), Truthful(g0), NEW name, NEW p, NEW b,
         Playing(g0, name, p, b), NEW s \in Submissions(b, p, Snapshot(g0, p)),
         NEW h \in Apply(g0, s.act), NEW other \in Names
  PROVE  Acts(g0, h, name, other, p, b, s.bot)
<1>1. CASE g0.decision # NoDecision
  <2>1. /\ ~g0.ended /\ p = g0.decision.player
        /\ \E answer \in Resolve(b, Snapshot(g0, p)) :
             s = [act |-> Answer(g0, p, answer), bot |-> Noting(b, g0.decision, answer)]
    BY <1>1, SubmissionCases
  <2>2. PICK answer \in Resolve(b, Snapshot(g0, p)) :
          s = [act |-> Answer(g0, p, answer), bot |-> Noting(b, g0.decision, answer)]
    BY <2>1
  <2>3. s.act = Answer(g0, p, answer) /\ s.bot = Noting(b, g0.decision, answer)
    BY <2>2
  <2>4. Answering(g0, name, p, b, answer, h)
    BY <1>1, <2>1, <2>3 DEF Answering, Answer
  <2>5. ~h.err /\ SameTurn(g0, h) /\ s.bot \in Bot /\ Leaves(g0, h, name, p, s.bot)
    BY <2>3, <2>4, AnswerLeaves
  <2>6. SameBot(b, s.bot)
    BY <2>3, NotesAreApart DEF Playing
  <2> QED
    BY <2>5, <2>6 DEF Acts, SameClock, SameTurn
<1>2. CASE g0.decision = NoDecision
  <2>1. HasTurn(g0, name, p, b) /\ Submits(b, p, g0, s)
    BY <1>2, SubmissionCases DEF HasTurn
  <2> QED
    BY <2>1, TurnActs
<1> QED
  BY <1>1, <1>2

-----------------------------------------------------------------------------
(***************************************************************************)
(* What a bot submits is a call of the engine that obeys its prompt.       *)
(***************************************************************************)
Obedience(g, act) ==
  act.kind = "resolve" /\ g.decision # NoDecision => Obeys(g, g.decision, act.answer)

LEMMA AnswerAllowed ==
  ASSUME NEW g0, Sound(g0), Truthful(g0), NEW name, NEW p, NEW b,
         Playing(g0, name, p, b), g0.decision # NoDecision,
         NEW s \in Submissions(b, p, Snapshot(g0, p))
  PROVE  /\ s.act = Answer(g0, p, s.act.answer)
         /\ IsAsked(g0, name, p, b) /\ s.act.answer \in Resolve(b, Snapshot(g0, p))
<1>1. /\ ~g0.ended /\ p = g0.decision.player
      /\ \E answer \in Resolve(b, Snapshot(g0, p)) :
           s = [act |-> Answer(g0, p, answer), bot |-> Noting(b, g0.decision, answer)]
  BY SubmissionCases
<1>2. PICK answer \in Resolve(b, Snapshot(g0, p)) :
        s = [act |-> Answer(g0, p, answer), bot |-> Noting(b, g0.decision, answer)]
  BY <1>1
<1>3. s.act = Answer(g0, p, answer)
  BY <1>2
<1>4. s.act.answer = answer
  BY <1>3 DEF Answer
<1> QED
  BY <1>1, <1>3, <1>4 DEF IsAsked

LEMMA MoveAllowed ==
  ASSUME NEW g0, NEW name, NEW p, NEW b, HasTurn(g0, name, p, b),
         NEW s, Submits(b, p, g0, s)
  PROVE  \/ \E c \in Cards : s.act = Play(p, c)
         \/ \E c \in Cards : s.act = Buy(p, c)
         \/ s.act = End(p)
<1> DEFINE v == Snapshot(g0, p)
           plays == IF v.phase = "action" THEN ActionPlays(b, v)
                    ELSE {x \in InHandOf(v) : IsTreasure(x)}
<1>1. CASE \E c \in plays : s = [act |-> Play(p, c), bot |-> b]
  <2>1. PICK c \in plays : s = [act |-> Play(p, c), bot |-> b]
    BY <1>1
  <2>2. c \in Cards
    BY CardsPicked
  <2> QED
    BY <2>1, <2>2
<1> HIDE DEF plays
<1>2. CASE s = [act |-> End(p), bot |-> b]
  BY <1>2
<1>3. CASE /\ g0.phase # "action" /\ ~(g0.players[p].buys <= 0)
           /\ s = BuyFrom(b, p, Ladder(b, v))
  <2>1. b \in Bot /\ View(v)
    BY PlayersFact DEF HasTurn, Sound, Playing, View, Snapshot, GameStates, PlayerState
  <2> DEFINE ladder == Ladder(b, v)
  <2>2. ladder \in Seq(Rungs(b, v)) /\ s = BuyFrom(b, p, ladder)
    BY <1>3, <2>1, LaddersSound
  <2> HIDE DEF ladder, v
  <2>3. \/ s = [act |-> End(p), bot |-> b]
        \/ \E x \in Rungs(b, v) :
             x.holds /\ s = [act |-> Buy(p, x.card), bot |-> Buying(b, x.noted)]
    BY <2>2, BuyPicked
  <2>4. \A x \in Rungs(b, v) : x.holds => x.card \in Cards
    BY DEF Rungs, Sensible
  <2> QED
    BY <1>2, <2>3, <2>4
<1> QED
  BY <1>1, <1>2, <1>3 DEF Submits, plays

LEMMA SubmissionAllowed ==
  ASSUME NEW g0, Sound(g0), Truthful(g0), NEW name, NEW p, NEW b,
         Playing(g0, name, p, b), NEW s \in Submissions(b, p, Snapshot(g0, p))
  PROVE  WellFormed(g0, s.act) /\ Obedience(g0, s.act)
<1>1. CASE g0.decision # NoDecision
  <2> DEFINE answer == s.act.answer
             d == g0.decision
  <2>1. /\ s.act = Answer(g0, p, answer)
        /\ IsAsked(g0, name, p, b) /\ answer \in Resolve(b, Snapshot(g0, p))
    BY <1>1, AnswerAllowed
  <2>2. s.act.kind = "resolve"
    BY <2>1 DEF Answer
  <2> HIDE DEF answer
  <2>3. /\ Obeys(g0, d, answer)
        /\ ListPrompt(d) => answer.list \in Bag
        /\ d.card = "sentry" => answer.order \in Seq(Cards)
    BY <2>1, BotsObey
  <2>4. \A order : order \in Seq(Cards) => order \in Seq(Cards \cup {NoCard})
    OBVIOUS
  <2> QED
    BY <1>1, <2>2, <2>3, <2>4 DEF WellFormed, Obedience, answer
<1>2. CASE g0.decision = NoDecision
  <2>1. HasTurn(g0, name, p, b) /\ Submits(b, p, g0, s)
    BY <1>2, SubmissionCases DEF HasTurn
  <2>2. \/ \E c \in Cards : s.act = Play(p, c)
        \/ \E c \in Cards : s.act = Buy(p, c)
        \/ s.act = End(p)
    BY <2>1, MoveAllowed
  <2>3. \A c : /\ Play(p, c).kind = "play" /\ Play(p, c).card = c
               /\ Buy(p, c).kind = "buy" /\ Buy(p, c).card = c
    BY DEF Play, Buy
  <2>4. End(p).kind = "end"
    BY DEF End
  <2> DEFINE act == s.act
  <2> HIDE DEF act
  <2>5. \/ act.kind \in {"play", "buy"} /\ act.card \in Cards
        \/ act.kind = "end"
    BY <2>2, <2>3, <2>4 DEF act
  <2> QED
    BY <1>2, <2>5 DEF WellFormed, Obedience, act
<1> QED
  BY <1>1, <1>2

-----------------------------------------------------------------------------
(***************************************************************************)
(* The snapshots the bots are sent, and the turns they count.              *)
(***************************************************************************)
Hears(b, p, g) == IF g.ended THEN b ELSE Reduce(b, p, Snapshot(g, p))

LEMMA HearsSame ==
  ASSUME NEW b \in Bot, NEW p \in Players, NEW g \in GameStates
  PROVE  LET r == Hears(b, p, g)
         IN  /\ r \in Bot /\ r.name = b.name /\ r.bought = b.bought
             /\ r.trashed = b.trashed /\ r.stopped = b.stopped
             /\ ~g.ended =>
                  IF g.current = p /\ g.turn # b.lastTurn
                  THEN r.turns = b.turns + 1 /\ r.lastTurn = g.turn
                  ELSE r.turns = b.turns /\ r.lastTurn = b.lastTurn
<1>1. Snapshot(g, p).current = g.current /\ Snapshot(g, p).turn = g.turn
  BY DEF Snapshot
<1>2. g.turn \in Nat
  BY DEF GameStates
<1> DEFINE v == Snapshot(g, p)
<1> HIDE DEF v
<1>3. Reduce(b, p, v) = IF g.current = p /\ g.turn # b.lastTurn
                        THEN [b EXCEPT !.turns = @ + 1, !.lastTurn = g.turn] ELSE b
  BY <1>1 DEF Reduce, v
<1> DEFINE e == [b EXCEPT !.turns = @ + 1, !.lastTurn = g.turn]
<1>4. /\ e \in Bot /\ e.name = b.name /\ e.bought = b.bought /\ e.trashed = b.trashed
      /\ e.stopped = b.stopped /\ e.turns = b.turns + 1 /\ e.lastTurn = g.turn
  <2> DEFINE t == g.turn
             n == b.turns + 1
  <2>1. e = [b EXCEPT !.turns = n, !.lastTurn = t]
    OBVIOUS
  <2>2. t \in Nat /\ n \in Nat /\ n = b.turns + 1 /\ t = g.turn
    BY <1>2 DEF Bot
  <2> HIDE DEF e, t, n
  <2> QED
    BY <2>1, <2>2 DEF Bot
<1> HIDE DEF e
<1>5. Hears(b, p, g) = IF ~g.ended /\ g.current = p /\ g.turn # b.lastTurn THEN e ELSE b
  BY <1>3 DEF Hears, v, e
<1> QED
  BY <1>4, <1>5

LEMMA ToldHears ==
  ASSUME NEW r \in [Players -> Bot], NEW g \in GameStates
  PROVE  /\ Told(r, g) \in [Players -> Bot]
         /\ \A p \in Players : Told(r, g)[p] = Hears(r[p], p, g)
<1>1. \A p \in Players : Hears(r[p], p, g) \in Bot
  BY HearsSame
<1>2. Told(r, g) = [p \in Players |-> Hears(r[p], p, g)]
  <2>1. CASE g.ended
    BY <2>1 DEF Told, Hears
  <2>2. CASE ~g.ended
    BY <2>2 DEF Told, Hears
  <2> QED
    BY <2>1, <2>2
<1> QED
  BY <1>1, <1>2

\* The notes are those of the bot, whatever it counts.
LEMMA SameNotes ==
  ASSUME NEW b, NEW r, r.name = b.name, r.bought = b.bought, r.trashed = b.trashed,
         NEW p, NEW g
  PROVE  /\ NotesHold(r, p, g) <=> NotesHold(b, p, g)
         /\ \A q : OwnsWhatItKnows(r, q) <=> OwnsWhatItKnows(b, q)
  BY DEF NotesHold, OwnsWhatItKnows

\* As long as the turn lasts no bot counts another one.
LEMMA ClockStands ==
  ASSUME NEW g \in GameStates, ~g.ended, NEW h \in GameStates, SameClock(g, h),
         NEW b \in Bot, NEW p \in Players, ClockAgrees(b, p, g)
  PROVE  ClockAgrees(Hears(b, p, h), p, h)
<1>1. ~h.ended /\ h.turn = g.turn /\ h.current = g.current /\ h.starting = g.starting
  BY DEF SameClock
<1>2. /\ b.turns = b.lastTurn
      /\ b.turns = IF p \in {g.starting, g.current} THEN g.turn ELSE g.turn - 1
  BY DEF ClockAgrees
<1>3. Hears(b, p, h).turns = b.turns /\ Hears(b, p, h).lastTurn = b.lastTurn
  <2>1. h.current = p => h.turn = b.lastTurn
    BY <1>1, <1>2
  <2> QED
    BY <1>1, <2>1, HearsSame
<1> QED
  BY <1>1, <1>2, <1>3 DEF ClockAgrees

\* When the turn has passed, the bot whose turn it is counts it.
LEMMA ClockTicks ==
  ASSUME NEW g \in GameStates, ~g.ended, NEW h \in GameStates,
         h.current = Opponent(g.current), h.starting = g.starting,
         h.turn = IF h.current = g.starting THEN g.turn + 1 ELSE g.turn,
         NEW b \in Bot, NEW p \in Players, ClockAgrees(b, p, g)
  PROVE  ClockAgrees(Hears(b, p, h), p, h)
<1> SUFFICES ASSUME ~h.ended PROVE ClockAgrees(Hears(b, p, h), p, h)
  BY HearsSame DEF ClockAgrees
<1>1. /\ b.turns = b.lastTurn
      /\ b.turns = IF p \in {g.starting, g.current} THEN g.turn ELSE g.turn - 1
      /\ g.turn \in Nat /\ g.current \in {0, 1} /\ g.starting \in {0, 1} /\ p \in {0, 1}
      /\ h.current = 1 - g.current
  BY DEF ClockAgrees, GameStates, Players, Opponent
<1> DEFINE r == Hears(b, p, h)
<1>2. IF h.current = p /\ h.turn # b.lastTurn
      THEN r.turns = b.turns + 1 /\ r.lastTurn = h.turn
      ELSE r.turns = b.turns /\ r.lastTurn = b.lastTurn
  BY HearsSame
<1> HIDE DEF r
<1>3. CASE p = h.current
  <2>1. p # g.current
    BY <1>1, <1>3
  <2>2. h.turn = b.turns + 1
    BY <1>1, <1>3, <2>1
  <2> QED
    BY <1>1, <1>2, <1>3, <2>2 DEF ClockAgrees, r
<1>4. CASE p # h.current
  <2>1. p = g.current /\ b.turns = g.turn
    BY <1>1, <1>4
  <2>2. g.turn = IF p = h.starting THEN h.turn ELSE h.turn - 1
    BY <1>1, <1>4, <2>1
  <2> QED
    BY <1>1, <1>2, <1>4, <2>1, <2>2 DEF ClockAgrees, r
<1> QED
  BY <1>3, <1>4

-----------------------------------------------------------------------------
(***************************************************************************)
(* The bots after a step.                                                  *)
(***************************************************************************)
\* Whoever acts, the other bot is not the one that has been turned away.
LEMMA NobodyStopped ==
  ASSUME NEW g, NEW bs, \A i \in Players : BotHolds(bs[i], i, g),
         NEW p \in Players, ~bs[p].stopped,
         NEW s \in Submissions(bs[p], p, Snapshot(g, p)), NEW i \in Players
  PROVE  ~bs[i].stopped
<1> SUFFICES ASSUME bs[i].stopped PROVE FALSE
  OBVIOUS
<1>1. g.current = i /\ g.decision = NoDecision
  BY DEF BotHolds, TurnedAway
<1>2. p = g.current
  BY <1>1, SubmissionCases
<1> QED
  BY <1>1, <1>2

\* A call turned away changes nothing a bot goes by.
LEMMA RefusalKeeps ==
  ASSUME NEW g \in GameStates, g.decision = NoDecision, NEW h, h = Fail(Cleared(g))
  PROVE  /\ SameTurn(g, h) /\ h.players = g.players /\ h.supply = g.supply
         /\ h.decision = NoDecision /\ h.pendingPlays = g.pendingPlays
  BY DEF Fail, Cleared, GameStates, SameTurn

LEMMA StillHolds ==
  ASSUME NEW g, NEW h, SameTurn(g, h), h.players = g.players, h.supply = g.supply,
         h.decision = g.decision, h.pendingPlays = g.pendingPlays
  PROVE  /\ \A name : GameHolds(g, name) => GameHolds(h, name)
         /\ \A b, p : ClockAgrees(b, p, g) => ClockAgrees(b, p, h)
         /\ \A b, p : NotesHold(b, p, g) => NotesHold(b, p, h)
         /\ \A b, p : TurnedAway(b, p, g) => TurnedAway(b, p, h)
<1>1. /\ h.current = g.current /\ h.starting = g.starting /\ h.phase = g.phase
      /\ h.turn = g.turn /\ h.ended = g.ended
  BY DEF SameTurn
<1>2. IsGameOver(h) <=> IsGameOver(g)
  BY SameOver
<1>3. ASSUME NEW name, GameHolds(g, name) PROVE GameHolds(h, name)
  <2>1. Familiar(h, name)
    BY <1>1, <1>3 DEF GameHolds, Familiar, Expected
  <2>2. RemodelInTime(h, name)
    BY <1>1, <1>2, <1>3 DEF GameHolds, RemodelInTime
  <2> QED
    BY <2>1, <2>2 DEF GameHolds
<1>4. \A b, p : ClockAgrees(b, p, g) => ClockAgrees(b, p, h)
  BY <1>1 DEF ClockAgrees
<1>5. \A b, p : NotesHold(b, p, g) => NotesHold(b, p, h)
  BY DEF NotesHold
<1>6. \A b, p : TurnedAway(b, p, g) => TurnedAway(b, p, h)
  BY <1>1 DEF TurnedAway
<1> QED
  BY <1>3, <1>4, <1>5, <1>6

\* A bot is turned away.
LEMMA StopHolds ==
  ASSUME NEW g \in GameStates, NEW bs \in [Players -> Bot], BotsHold(g, bs),
         NEW p \in Players, TurnedAway(bs[p], p, g),
         \A i \in Players : ~bs[i].stopped,
         NEW h, h = Fail(Cleared(g)),
         NEW cs, cs = [bs EXCEPT ![p] = [bs[p] EXCEPT !.stopped = TRUE]]
  PROVE  cs \in [Players -> Bot] /\ BotsHold(h, cs)
<1> DEFINE b == bs[p]
           r == [b EXCEPT !.stopped = TRUE]
<1>1. /\ b \in Bot /\ r \in Bot /\ r.name = b.name /\ r.turns = b.turns
      /\ r.lastTurn = b.lastTurn /\ r.stopped
  BY DEF Bot
<1>2. cs = [bs EXCEPT ![p] = r]
  OBVIOUS
<1> HIDE DEF r
<1>3. /\ cs \in [Players -> Bot] /\ cs[p] = r
      /\ \A i \in Players : i # p => cs[i] = bs[i]
  BY <1>1, <1>2
<1>4. /\ SameTurn(g, h) /\ h.players = g.players /\ h.supply = g.supply
      /\ h.decision = g.decision /\ h.pendingPlays = g.pendingPlays
  BY RefusalKeeps DEF TurnedAway
<1>5. /\ \A name : GameHolds(g, name) => GameHolds(h, name)
      /\ \A x, i : ClockAgrees(x, i, g) => ClockAgrees(x, i, h)
      /\ \A x, i : NotesHold(x, i, g) => NotesHold(x, i, h)
      /\ \A x, i : TurnedAway(x, i, g) => TurnedAway(x, i, h)
  BY <1>4, StillHolds
<1>6. \A i \in Players : cs[i].name = bs[i].name
  BY <1>1, <1>3
<1>7. h.current = g.current /\ g.current \in Players
  BY <1>4 DEF SameTurn, GameStates
<1>8. GameHolds(h, cs[h.current].name)
  BY <1>5, <1>6, <1>7 DEF BotsHold
<1>9. ASSUME NEW i \in Players, i # p PROVE BotHolds(cs[i], i, h)
  BY <1>3, <1>4, <1>5, <1>9 DEF BotsHold, BotHolds
<1>10. BotHolds(cs[p], p, h)
  <2>1. TurnedAway(r, p, h)
    <3>1. TurnedAway(b, p, h)
      BY <1>5
    <3> QED
      BY <1>1, <3>1 DEF TurnedAway
  <2>2. ClockAgrees(r, p, h)
    <3>1. ClockAgrees(b, p, h)
      BY <1>5 DEF BotsHold, BotHolds
    <3> QED
      BY <1>1, <3>1 DEF ClockAgrees
  <2> QED
    BY <1>1, <1>3, <2>1, <2>2 DEF BotHolds
<1> QED
  BY <1>3, <1>8, <1>9, <1>10 DEF BotsHold

\* Both bots have something true in their notes after a call that is accepted.
LEMMA BothNotesHold ==
  ASSUME NEW g \in GameStates, NEW h \in GameStates, NEW bs \in [Players -> Bot],
         BotsHold(g, bs), NEW p \in Players, \A i \in Players : ~bs[i].stopped,
         NEW name, NEW r, Leaves(g, h, name, p, r),
         NEW rs, rs = [bs EXCEPT ![p] = r], NEW i \in Players
  PROVE  NotesHold(rs[i], i, h) /\ OwnsWhatItKnows(rs[i], h.players[i])
<1>1. CASE i = p
  BY <1>1 DEF Leaves
<1>2. CASE i # p
  <2>1. i = Opponent(p) /\ rs[i] = bs[i] /\ bs[i] \in Bot
    BY <1>2 DEF Players, Opponent
  <2>2. NotesHold(bs[i], i, g) /\ OwnsWhatItKnows(bs[i], g.players[i])
    BY DEF BotsHold, BotHolds
  <2>3. OwnsSame(g.players[i], h.players[i], {"curse"})
    BY <2>1 DEF Leaves
  <2>4. OwnsSame(g.players[i], h.players[i], Junk)
    BY <2>3, FewerOwnedSame DEF Junk
  <2>5. "silver" \in Cards
    BY CardsAssumption DEF BasicCards
  <2>6. h.supply["silver"] \in Nat /\ h.supply["silver"] <= g.supply["silver"]
    BY <2>5 DEF Leaves, GameStates, Bag
  <2>7. NotesHold(bs[i], i, h) /\ OwnsWhatItKnows(bs[i], h.players[i])
    BY <2>1, <2>2, <2>4, <2>6, NotesStay
  <2> QED
    BY <2>1, <2>7
<1> QED
  BY <1>1, <1>2

\* A call is accepted, and both bots hear of it.
LEMMA ActionHolds ==
  ASSUME NEW g \in GameStates, ~g.ended, NEW h \in GameStates, ~h.err,
         NEW bs \in [Players -> Bot], BotsHold(g, bs),
         NEW p \in Players, \A i \in Players : ~bs[i].stopped, NEW r,
         Acts(g, h, bs[g.current].name, bs[Opponent(g.current)].name, p, bs[p], r),
         NEW cs, cs = Told([bs EXCEPT ![p] = r], h)
  PROVE  cs \in [Players -> Bot] /\ BotsHold(h, cs)
<1> DEFINE rs == [bs EXCEPT ![p] = r]
           name == bs[g.current].name
           other == bs[Opponent(g.current)].name
<1>1. /\ r \in Bot /\ SameBot(bs[p], r)
      /\ \/ SameClock(g, h) /\ Leaves(g, h, name, p, r)
         \/ p = g.current /\ Passed(Cleared(g), h) /\ Leaves(g, h, other, p, r)
  BY DEF Acts
<1>2. rs \in [Players -> Bot]
  BY <1>1
<1>3. \A i \in Players : SameBot(bs[i], rs[i])
  <2>1. \A i \in Players : i # p => rs[i] = bs[i]
    OBVIOUS
  <2>2. rs[p] = r
    OBVIOUS
  <2> HIDE DEF rs
  <2> QED
    BY <1>1, <2>1, <2>2 DEF SameBot
<1>4. \A i \in Players : NotesHold(rs[i], i, h) /\ OwnsWhatItKnows(rs[i], h.players[i])
  BY <1>1, BothNotesHold
<1>5. cs = Told(rs, h)
  OBVIOUS
<1> HIDE DEF rs, name, other
<1>6. /\ cs \in [Players -> Bot]
      /\ \A i \in Players : cs[i] = Hears(rs[i], i, h)
  <2>1. Told(rs, h) \in [Players -> Bot]
    BY ONLY <1>2, h \in GameStates, ToldHears
  <2>2. \A i \in Players : Told(rs, h)[i] = Hears(rs[i], i, h)
    BY ONLY <1>2, h \in GameStates, ToldHears
  <2> QED
    BY <1>5, <2>1, <2>2
<1>7. \A i \in Players : /\ cs[i].name = bs[i].name /\ ~cs[i].stopped
                         /\ cs[i].bought = rs[i].bought /\ cs[i].trashed = rs[i].trashed
                         /\ cs[i].name = rs[i].name
  <2> TAKE i \in Players
  <2>1. SameBot(bs[i], rs[i]) /\ cs[i] = Hears(rs[i], i, h) /\ ~bs[i].stopped
    BY <1>3, <1>6
  <2>2. /\ Hears(rs[i], i, h).name = rs[i].name
        /\ Hears(rs[i], i, h).bought = rs[i].bought
        /\ Hears(rs[i], i, h).trashed = rs[i].trashed
        /\ Hears(rs[i], i, h).stopped = rs[i].stopped
    <3>1. rs[i] \in Bot
      BY <1>2
    <3> QED
      BY ONLY <3>1, i \in Players, h \in GameStates, HearsSame
  <2> QED
    BY <2>1, <2>2 DEF SameBot
<1>8. ASSUME NEW i \in Players, ClockAgrees(cs[i], i, h)
      PROVE  BotHolds(cs[i], i, h)
  <2>1. NotesHold(cs[i], i, h) /\ OwnsWhatItKnows(cs[i], h.players[i])
    BY <1>4, <1>7, SameNotes
  <2> QED
    BY <1>7, <1>8, <2>1 DEF BotHolds
<1>9. \A i \in Players : ClockAgrees(rs[i], i, g)
  BY <1>3 DEF BotsHold, BotHolds, ClockAgrees, SameBot
<1>10. g.current \in Players /\ Opponent(g.current) \in Players
  BY PlayersFact
<1>11. CASE SameClock(g, h) /\ Leaves(g, h, name, p, r)
  <2>1. \A i \in Players : ClockAgrees(cs[i], i, h)
    BY <1>2, <1>6, <1>9, <1>11, ClockStands
  <2>2. GameHolds(h, cs[h.current].name)
    BY <1>7, <1>10, <1>11 DEF SameClock, Leaves, name
  <2> QED
    BY <1>6, <1>8, <2>1, <2>2 DEF BotsHold
<1>12. CASE p = g.current /\ Passed(Cleared(g), h) /\ Leaves(g, h, other, p, r)
  <2>1. /\ Cleared(g).current = g.current /\ Cleared(g).starting = g.starting
        /\ Cleared(g).turn = g.turn
    BY DEF Cleared, GameStates
  <2>2. /\ h.current = Opponent(g.current) /\ h.starting = g.starting
        /\ h.turn = IF h.current = g.starting THEN g.turn + 1 ELSE g.turn
    BY <1>12, <2>1 DEF Passed
  <2>3. \A i \in Players : ClockAgrees(cs[i], i, h)
    BY <1>2, <1>6, <1>9, <2>2, ClockTicks
  <2>4. GameHolds(h, cs[h.current].name)
    BY <1>7, <1>10, <1>12, <2>2 DEF Leaves, other
  <2> QED
    BY <1>6, <1>8, <2>3, <2>4 DEF BotsHold
<1> QED
  BY <1>1, <1>11, <1>12

-----------------------------------------------------------------------------
(***************************************************************************)
(* The invariant of a game of bots.                                        *)
(***************************************************************************)
\* In such a game each bot that has something to submit is one that plays.
LEMMA WhoActsPlays ==
  ASSUME NEW g \in GameStates, NEW bs \in [Players -> Bot], BotsHold(g, bs),
         NEW p \in Players, ~bs[p].stopped
  PROVE  Playing(g, bs[g.current].name, p, bs[p])
<1>1. g.current \in Players
  BY DEF GameStates
<1>2. bs[g.current] \in Bot /\ bs[p] \in Bot
  BY <1>1
<1>3. bs[g.current].name \in Names
  BY <1>2 DEF Bot
<1>4. NotesHold(bs[p], p, g) /\ OwnsWhatItKnows(bs[p], g.players[p])
  BY DEF BotsHold, BotHolds
<1>5. GameHolds(g, bs[g.current].name)
  BY DEF BotsHold
<1> QED
  BY <1>2, <1>3, <1>4, <1>5 DEF Playing

\* One submission, and what both bots hear of it.
Submitted(g, bs, p, s, h, cs) ==
  /\ p \in Players /\ ~bs[p].stopped
  /\ s \in Submissions(bs[p], p, Snapshot(g, p)) /\ h \in Apply(g, s.act)
  /\ cs = IF h.err THEN [bs EXCEPT ![p] = [s.bot EXCEPT !.stopped = TRUE]]
          ELSE Told([bs EXCEPT ![p] = s.bot], h)

LEMMA SubmittedHolds ==
  ASSUME NEW g, Sound(g), Truthful(g), NEW bs \in [Players -> Bot], BotsHold(g, bs),
         NEW p, NEW s, NEW h, NEW cs, Submitted(g, bs, p, s, h, cs)
  PROVE  /\ WellFormed(g, s.act) /\ Obedience(g, s.act)
         /\ cs \in [Players -> Bot] /\ BotsHold(h, cs)
<1> DEFINE name == bs[g.current].name
           other == bs[Opponent(g.current)].name
<1>1. /\ g \in GameStates /\ p \in Players /\ ~bs[p].stopped
      /\ s \in Submissions(bs[p], p, Snapshot(g, p)) /\ h \in Apply(g, s.act)
  BY DEF Sound, Submitted
<1>2. Playing(g, name, p, bs[p])
  BY <1>1, WhoActsPlays
<1>3. other \in Names
  BY <1>1, PlayersFact DEF Bot
<1> HIDE DEF name, other
<1>4. WellFormed(g, s.act) /\ Obedience(g, s.act)
  BY <1>1, <1>2, SubmissionAllowed
<1>5. Acts(g, h, name, other, p, bs[p], s.bot)
  BY <1>1, <1>2, <1>3, SubmissionActs
<1>6. \A i \in Players : ~bs[i].stopped
  <2>1. \A i \in Players : BotHolds(bs[i], i, g)
    BY DEF BotsHold
  <2> QED
    BY <1>1, <2>1, NobodyStopped
<1>7. h \in GameStates
  BY <1>1, <1>4, ApplyKeeps DEF Keeps, Sound
<1>8. ~g.ended
  BY <1>1, SubmissionCases
<1>9. CASE h.err
  <2>1. h = Fail(Cleared(g)) /\ s.bot = bs[p] /\ TurnedAway(bs[p], p, g)
    BY <1>5, <1>9 DEF Acts
  <2>2. cs = [bs EXCEPT ![p] = [s.bot EXCEPT !.stopped = TRUE]]
    BY <1>9 DEF Submitted
  <2>3. cs = [bs EXCEPT ![p] = [bs[p] EXCEPT !.stopped = TRUE]]
    BY <2>1, <2>2
  <2>4. cs \in [Players -> Bot] /\ BotsHold(h, cs)
    BY <1>1, <1>6, <2>1, <2>3, StopHolds
  <2> QED
    BY <1>4, <2>4
<1>10. CASE ~h.err
  <2>1. cs = Told([bs EXCEPT ![p] = s.bot], h)
    BY <1>10 DEF Submitted
  <2>2. Acts(g, h, bs[g.current].name, bs[Opponent(g.current)].name, p, bs[p], s.bot)
    BY <1>5 DEF name, other
  <2>3. cs \in [Players -> Bot] /\ BotsHold(h, cs)
    BY <1>1, <1>6, <1>7, <1>8, <1>10, <2>1, <2>2, ActionHolds
  <2> QED
    BY <1>4, <2>3
<1> QED
  BY <1>9, <1>10

LEMMA StepSubmits ==
  ASSUME BotNext
  PROVE  \E p, s : Submitted(gs, bots, p, s, gs', bots') /\ gs'.turn <= MaxTurn
<1>1. PICK p \in Players : BotActs(p)
  BY DEF BotNext
<1>2. PICK s \in Pending(p) : \E h \in Apply(gs, s.act) :
        /\ h.turn <= MaxTurn
        /\ gs' = h
        /\ bots' = IF h.err
                   THEN [bots EXCEPT ![p] = [s.bot EXCEPT !.stopped = TRUE]]
                   ELSE Told([bots EXCEPT ![p] = s.bot], h)
  BY <1>1 DEF BotActs
<1>3. ~bots[p].stopped /\ s \in Submissions(bots[p], p, Snapshot(gs, p))
  BY <1>2 DEF Pending
<1> QED
  BY <1>2, <1>3 DEF Submitted

\* A call of Apply that obeys its prompt keeps the engine's invariant.
LEMMA CallKeepsAInv ==
  ASSUME AInv, NEW act, WellFormed(gs, act), Obedience(gs, act), gs' \in Apply(gs, act)
  PROVE  AInv'
<1>1. Sound(gs) /\ Truthful(gs)
  BY DEF AInv, IInv
<1>2. Keeps(gs, gs') /\ Visible(gs, gs')
  BY <1>1, ApplyKeeps
<1>3. Truthful(gs')
  BY <1>1, ApplySincere DEF Obedience
<1>4. gs'.ended => gs'.decision = NoDecision
  BY <1>2 DEF AInv, Visible, SameTurn
<1>5. Sound(gs')
  BY <1>2 DEF Keeps
<1>6. CardsConserved'
  BY <1>2 DEF AInv, Keeps, SameExisting, IInv, CardsConserved
<1>7. IdlePlayerIsClean'
  BY <1>2 DEF AInv, Keeps, IInv, IdlePlayerIsClean, WaitingIsClean, CleanPlayer
<1> QED
  BY <1>3, <1>4, <1>5, <1>6, <1>7 DEF AInv, IInv

LEMMA NextBInv == BInv /\ [BotNext]_botVars => BInv'
<1>1. BInv /\ UNCHANGED botVars => BInv'
  BY DEF BInv, AInv, IInv, CardsConserved, IdlePlayerIsClean, botVars
<1>2. ASSUME BInv, BotNext PROVE BInv'
  <2>1. Sound(gs) /\ Truthful(gs) /\ bots \in [Players -> Bot] /\ BotsHold(gs, bots)
    BY <1>2 DEF BInv, AInv, IInv
  <2>2. PICK p, s : Submitted(gs, bots, p, s, gs', bots')
    BY <1>2, StepSubmits
  <2>3. /\ WellFormed(gs, s.act) /\ Obedience(gs, s.act)
        /\ bots' \in [Players -> Bot] /\ BotsHold(gs', bots')
    BY <2>1, <2>2, SubmittedHolds
  <2>4. gs' \in Apply(gs, s.act)
    BY <2>2 DEF Submitted
  <2>5. AInv'
    BY <1>2, <2>3, <2>4, CallKeepsAInv DEF BInv
  <2> QED
    BY <2>3, <2>5 DEF BInv
<1> QED
  BY <1>1, <1>2

\* Both bots hear of the deal: the first player counts its first turn.
LEMMA DealHolds ==
  ASSUME NEW g \in GameStates, g.current = g.starting, g.phase = "action", g.turn = 1,
         ~g.ended, g.decision = NoDecision, g.pendingPlays = <<>>,
         g.supply = InitialPiles, g.players[g.current].actions = 1,
         \A p \in Players, c \in Cards : Owned(g.players[p], c) = StartDeck[p][c],
         NEW names \in [Players -> Names],
         NEW bs, bs = Told([p \in Players |-> NewBot(names[p])], g)
  PROVE  bs \in [Players -> Bot] /\ BotsHold(g, bs)
<1> DEFINE new == [p \in Players |-> NewBot(names[p])]
<1>1. ASSUME NEW p \in Players
      PROVE  /\ new[p] \in Bot /\ new[p].name = names[p]
             /\ new[p].turns = 0 /\ new[p].lastTurn = 0 /\ new[p].bought = 0
             /\ new[p].trashed = 0 /\ ~new[p].stopped
  BY DEF NewBot, Bot
<1>2. new \in [Players -> Bot]
  BY <1>1
<1>3. bs = Told(new, g)
  OBVIOUS
<1> HIDE DEF new
<1>4. bs \in [Players -> Bot] /\ \A p \in Players : bs[p] = Hears(new[p], p, g)
  BY <1>2, <1>3, ToldHears
<1>5. ASSUME NEW p \in Players
      PROVE  /\ bs[p].name = names[p] /\ bs[p].bought = 0 /\ bs[p].trashed = 0
             /\ ~bs[p].stopped /\ bs[p].turns = bs[p].lastTurn
             /\ bs[p].turns = IF p = g.current THEN 1 ELSE 0
  <2>1. new[p] \in Bot /\ bs[p] = Hears(new[p], p, g)
    BY <1>1, <1>4
  <2>2. LET r == Hears(new[p], p, g)
        IN  /\ r \in Bot /\ r.name = new[p].name /\ r.bought = new[p].bought
            /\ r.trashed = new[p].trashed /\ r.stopped = new[p].stopped
            /\ ~g.ended =>
                 IF g.current = p /\ g.turn # new[p].lastTurn
                 THEN r.turns = new[p].turns + 1 /\ r.lastTurn = g.turn
                 ELSE r.turns = new[p].turns /\ r.lastTurn = new[p].lastTurn
    BY ONLY <2>1, p \in Players, g \in GameStates, HearsSame
  <2> QED
    BY <1>1, <2>1, <2>2
<1>6. GameHolds(g, bs[g.current].name)
  <2>1. bs[g.current].name \in Names
    BY <1>5 DEF GameStates
  <2>2. ~IsGameOver(g)
    <3>1. Cardinality({c \in Cards : InitialPiles[c] = 0}) \in Nat
      <4>1. IsFiniteSet({c \in Cards : InitialPiles[c] = 0})
        BY CardsAssumption, FS_Subset
      <4> QED
        BY <4>1, FS_CardinalityType
    <3>2. InitialPiles["province"] # 0
      <4>1. "province" \in Cards /\ InitialPiles \in Bag
        BY CardsAssumption, EngineAssumption DEF BasicCards
      <4> QED
        BY <4>1, DealAssumption DEF Bag
    <3>3. EmptyPiles(g) = {c \in Cards : InitialPiles[c] = 0}
      BY DEF EmptyPiles
    <3>4. ~(Cardinality({c \in Cards : InitialPiles[c] = 0}) >= 3)
      BY <3>1, DealAssumption
    <3> QED
      BY <3>2, <3>3, <3>4 DEF IsGameOver
  <2>3. RemodelInTime(g, bs[g.current].name)
    BY <2>2 DEF RemodelInTime
  <2> QED
    BY <2>1, <2>3, NothingAsked DEF GameHolds
<1>7. ASSUME NEW p \in Players
      PROVE  BotHolds(bs[p], p, g)
  <2>1. ClockAgrees(bs[p], p, g)
    BY <1>5 DEF ClockAgrees
  <2>2. OwnsWhatItKnows(bs[p], g.players[p])
    BY <1>5, DealAssumption DEF OwnsWhatItKnows
  <2>3. \A c \in Cards : StartDeck[p][c] \in Nat
    BY EngineAssumption DEF Bag
  <2>4. NotesHold(bs[p], p, g)
    <3>1. "copper" \in Cards
      BY CardsAssumption DEF BasicCards
    <3>2. /\ Owned(g.players[p], "copper") = StartDeck[p]["copper"] - bs[p].trashed
          /\ bs[p].trashed <= 4
      BY <1>5, <2>3, <3>1
    <3>3. \A c \in Cards : Owned(g.players[p], c) = StartDeck[p][c] + bs[p].bought
      BY <1>5, <2>3
    <3> QED
      BY <3>2, <3>3 DEF NotesHold
  <2> QED
    BY <1>5, <2>1, <2>2, <2>4 DEF BotHolds
<1> QED
  BY <1>4, <1>6, <1>7 DEF BotsHold

LEMMA DealtOwned ==
  ASSUME NEW h0 \in DrawCards(Undealt(0), 5), NEW h1 \in DrawCards(Undealt(1), 5),
         NEW first \in Players, NEW dealt,
         dealt = [p \in Players |-> IF p = 0 THEN h0 ELSE h1],
         NEW g, g = NewGame(first, dealt)
  PROVE  /\ g.players[first].actions = 1
         /\ \A p \in Players, c \in Cards : Owned(g.players[p], c) = StartDeck[p][c]
<1>1. EmptyBag \in Bag /\ \A c \in Cards : EmptyBag[c] = 0
  BY BagTypes DEF EmptyBag
<1>2. ASSUME NEW p \in Players
      PROVE  /\ Undealt(p) \in PlayerState
             /\ \A c \in Cards : Owned(Undealt(p), c) = StartDeck[p][c]
  <2>1. StartDeck[p] \in Bag /\ <<>> \in Seq(Cards)
    BY EngineAssumption
  <2>2. Undealt(p) \in PlayerState
    BY <1>1, <2>1 DEF Undealt, PlayerState
  <2>3. ASSUME NEW c \in Cards PROVE Owned(Undealt(p), c) = StartDeck[p][c]
    <3>1. BagOfSeq(<<>>)[c] = 0 /\ StartDeck[p][c] \in Nat
      BY <1>1, <2>1, CountEmpty DEF Bag
    <3> QED
      BY <1>1, <3>1 DEF Owned, Undealt
  <2> QED
    BY <2>2, <2>3
<1>3. ASSUME NEW p \in Players
      PROVE  /\ dealt[p] \in PlayerState
             /\ \A c \in Cards : Owned(dealt[p], c) = StartDeck[p][c]
  <2>1. DrawCards(Undealt(p), 5) \subseteq Rearranged(Undealt(p))
    BY <1>2, DrawCardsKeeps
  <2>2. dealt[p] \in DrawCards(Undealt(p), 5)
    BY DEF Players
  <2> QED
    BY <1>2, <2>1, <2>2 DEF Rearranged, SameOwned
<1> DEFINE ps == [p \in Players |-> IF p = first THEN StartTurn(dealt[p]) ELSE dealt[p]]
<1>4. g.players = ps
  BY DEF NewGame
<1>5. StartTurn(dealt[first]).actions = 1
  BY <1>3 DEF StartTurn, PlayerState
<1>6. ASSUME NEW p \in Players, NEW c \in Cards
      PROVE  Owned(StartTurn(dealt[p]), c) = Owned(dealt[p], c)
  BY <1>3, StartTurnKeeps DEF SameOwned
<1> QED
  BY <1>3, <1>4, <1>5, <1>6

LEMMA InitBInv == BotInit => BInv
<1> SUFFICES ASSUME BotInit PROVE BInv
  OBVIOUS
<1>1. AInv /\ gs \in GameStates
  BY InitAInv DEF BotInit, AInv, IInv, Sound
<1>2. PICK first \in Players, h0 \in DrawCards(Undealt(0), 5), h1 \in DrawCards(Undealt(1), 5) :
        gs = NewGame(first, [p \in Players |-> IF p = 0 THEN h0 ELSE h1])
  BY DEF BotInit, Init
<1>3. PICK names \in Pairings : bots = Told([p \in Players |-> NewBot(names[p])], gs)
  BY DEF BotInit
<1>4. names \in [Players -> Names]
  BY PairingsAssumption
<1>5. /\ gs.current = first /\ gs.starting = first /\ gs.phase = "action"
      /\ gs.turn = 1 /\ ~gs.ended /\ gs.decision = NoDecision
      /\ gs.pendingPlays = <<>> /\ gs.supply = InitialPiles
  BY <1>2 DEF NewGame
<1>6. /\ gs.players[first].actions = 1
      /\ \A p \in Players, c \in Cards : Owned(gs.players[p], c) = StartDeck[p][c]
  BY <1>2, DealtOwned
<1>7. bots \in [Players -> Bot] /\ BotsHold(gs, bots)
  BY <1>1, <1>3, <1>4, <1>5, <1>6, DealHolds
<1> QED
  BY <1>1, <1>7 DEF BInv

-----------------------------------------------------------------------------
(***************************************************************************)
(* A bot that is asked has an answer.                                      *)
(***************************************************************************)
LEMMA SomeBetween ==
  ASSUME NEW S, NEW U, IsFiniteSet(U), S \subseteq U, NEW k \in Nat,
         Cardinality(S) <= k, k <= Cardinality(U)
  PROVE  \E T \in SUBSET U : S \subseteq T /\ Cardinality(T) = k
<1> DEFINE s == Cardinality(S)
           R == U \ S
<1>1. IsFiniteSet(S) /\ IsFiniteSet(R) /\ s \in Nat
  BY FS_Subset, FS_CardinalityType
<1>2. Cardinality(R) = Cardinality(U) - s
  <2>1. U \cap S = S
    OBVIOUS
  <2> QED
    BY <1>1, <2>1, FS_Difference
<1>3. Cardinality(U) \in Nat
  BY FS_CardinalityType
<1>4. k - s \in Nat /\ k - s <= Cardinality(R)
  BY <1>1, <1>2, <1>3
<1>5. PICK P \in SUBSET R : Cardinality(P) = k - s
  BY <1>1, <1>4, SomeOf
<1>6. IsFiniteSet(P) /\ S \cap P = {}
  BY <1>1, FS_Subset
<1>7. Cardinality(S \cup P) = s + (k - s) - Cardinality(S \cap P)
  BY <1>1, <1>5, <1>6, FS_Union
<1>8. Cardinality(S \cup P) = k
  <2>1. Cardinality(S \cap P) = 0
    BY <1>6, FS_EmptySet
  <2> QED
    BY <1>1, <1>7, <2>1
<1> QED
  BY <1>8

\* The cards resolveMilitiaDiscard sorts to the end of the hand.
LEMMA MilitiaDiscardsSome ==
  ASSUME NEW v, v.hand \in Bag, NEW n \in Nat
  PROVE  MilitiaDiscards(v, n) # {}
<1> DEFINE hand == v.hand
           S == Copies(hand)
           Below(t) == {x \in S : MilitiaKeepValue(x[1]) < t}
           k(t) == Cardinality(Below(t))
<1>1. IsFiniteSet(S) /\ Size(hand) \in Nat
  BY SizeIsNat
<1>2. CASE n >= Size(hand)
  <2>1. hand \in PickFirstN(hand, n)
    BY <1>2 DEF PickFirstN
  <2>2. \A d \in Cards : ~(hand[d] < hand[d])
    BY DEF Bag
  <2>3. hand \in MilitiaDiscards(v, n)
    BY <2>1, <2>2 DEF MilitiaDiscards
  <2> QED
    BY <2>3
<1>3. CASE ~(n >= Size(hand))
  <2>1. \A c : MilitiaKeepValue(c) \in {-10, 0, 50, 80, 90, 100}
    BY DEF MilitiaKeepValue
  <2>2. \A t : IsFiniteSet(Below(t)) /\ k(t) \in Nat
    BY <1>1, FS_Subset, FS_CardinalityType
  <2>3. k(-10) = 0 /\ k(101) = Size(hand)
    <3>1. Below(-10) = {}
      BY <2>1
    <3>2. Below(101) = S
      BY <2>1
    <3> QED
      BY <3>1, <3>2, FS_EmptySet DEF Size
  <2>4. \E t, u \in {-10, 0, 50, 80, 90, 100, 101} :
          /\ k(t) <= n /\ n <= k(u) /\ t < u
          /\ \A x \in {-10, 0, 50, 80, 90, 100} : x < u => x <= t
    <3> DEFINE a == k(-10)
               b == k(0)
               c == k(50)
               d == k(80)
               e == k(90)
               f == k(100)
               g == k(101)
    <3>1. a \in Nat /\ b \in Nat /\ c \in Nat /\ d \in Nat /\ e \in Nat /\ f \in Nat /\ g \in Nat
      BY <2>2
    <3>2. a <= n /\ n <= g
      BY <1>1, <1>3, <2>3
    <3> HIDE DEF a, b, c, d, e, f, g
    <3>3. \/ a <= n /\ n <= b
          \/ b <= n /\ n <= c
          \/ c <= n /\ n <= d
          \/ d <= n /\ n <= e
          \/ e <= n /\ n <= f
          \/ f <= n /\ n <= g
      BY <3>1, <3>2
    <3> HIDE DEF k
    <3> QED
      BY <3>3 DEF a, b, c, d, e, f, g
  <2>5. PICK t, u \in {-10, 0, 50, 80, 90, 100, 101} :
          /\ k(t) <= n /\ n <= k(u) /\ t < u
          /\ \A x \in {-10, 0, 50, 80, 90, 100} : x < u => x <= t
    BY <2>4
  <2>6. t \in Int /\ u \in Int /\ Below(t) \subseteq Below(u)
    BY <2>1, <2>5
  <2>7. PICK T \in SUBSET Below(u) : Below(t) \subseteq T /\ Cardinality(T) = n
    <3> HIDE DEF Below
    <3> QED
      BY <2>2, <2>5, <2>6, SomeBetween
  <2>8. T \in SUBSET S
    BY <2>7
  <2> DEFINE a == Counted(T)
  <2>9. a \in PickFirstN(hand, n)
    <3>1. T \in kSubset(n, Copies(hand))
      BY <2>7, <2>8 DEF kSubset
    <3> QED
      BY <1>3, <3>1 DEF PickFirstN, Counted
  <2>10. ASSUME NEW c \in Cards, a[c] > 0
         PROVE  MilitiaKeepValue(c) <= t
    <3>1. a[c] = Cardinality({x \in T : x[1] = c})
      BY DEF Counted
    <3>2. {x \in T : x[1] = c} # {}
      <4>1. Cardinality({}) = 0
        BY FS_EmptySet
      <4> HIDE DEF a
      <4> QED
        BY <2>10, <3>1, <4>1
    <3>3. PICK x \in T : x[1] = c
      BY <3>2
    <3>4. MilitiaKeepValue(c) < u
      BY <2>7, <3>3
    <3> QED
      BY <2>1, <2>5, <3>4
  <2>11. ASSUME NEW c \in Cards, a[c] < hand[c]
         PROVE  t <= MilitiaKeepValue(c)
    <3> SUFFICES ASSUME MilitiaKeepValue(c) < t PROVE FALSE
      BY <2>1, <2>6
    <3>1. {x \in S : x[1] = c} \subseteq Below(t)
      OBVIOUS
    <3>2. {x \in T : x[1] = c} = {x \in S : x[1] = c}
      BY <2>7, <2>8, <3>1
    <3>3. a[c] = hand[c]
      <4>1. a[c] = Cardinality({x \in T : x[1] = c})
        BY DEF Counted
      <4>2. Cardinality({x \in S : x[1] = c}) = hand[c]
        BY CopiesOfOne
      <4> HIDE DEF a, S
      <4> QED
        BY <3>2, <4>1, <4>2
    <3> QED
      BY <2>11, <3>3 DEF Bag
  <2> HIDE DEF a
  <2>12. \A c, d \in Cards : a[c] > 0 /\ a[d] < hand[d]
                               => MilitiaKeepValue(c) <= MilitiaKeepValue(d)
    BY <2>1, <2>6, <2>10, <2>11
  <2>13. a \in MilitiaDiscards(v, n)
    BY <2>9, <2>12 DEF MilitiaDiscards
  <2> QED
    BY <2>13
<1> QED
  BY <1>2, <1>3

\* The cheapest of some cards.
LEMMA CheapestThere ==
  ASSUME NEW S, S # {}
  PROVE  Cheapest(S) # {}
<1> DEFINE costs == {CardCost(c) : c \in S}
<1>1. \A c : CardCost(c) \in Nat
  BY DEF CardCost
<1>2. costs \in SUBSET Nat /\ costs # {}
  BY <1>1
<1>3. PICK i \in costs : \A j \in costs : i <= j
  BY <1>2, FirstOne
<1>4. PICK c \in S : CardCost(c) = i
  BY <1>3
<1>5. c \in Cheapest(S)
  BY <1>3, <1>4 DEF Cheapest
<1> QED
  BY <1>5

\* A bot that is asked has an answer.
LEMMA AnswerThere ==
  ASSUME NEW g0, NEW name, NEW p, NEW b, IsAsked(g0, name, p, b)
  PROVE  Resolve(b, Snapshot(g0, p)) # {}
<1> DEFINE d == g0.decision
           v == Snapshot(g0, p)
<1>1. /\ g0 \in GameStates /\ d # NoDecision /\ p = d.player /\ d \in Decision
      /\ d.step \in 0..2 /\ d.min \in Nat /\ v.decision = d
      /\ v.hand = g0.players[p].hand
  <2>1. g0 \in GameStates /\ d # NoDecision /\ p = d.player
    BY DEF IsAsked, Sound
  <2>2. d \in Decision /\ v.decision = d
    BY <2>1, PromptRead
  <2> QED
    BY <2>1, <2>2 DEF Decision, Snapshot
<1>2. /\ name \in Names /\ p \in Players /\ (p = g0.current => b.name = name)
      /\ Familiar(g0, name)
  BY DEF IsAsked, Playing, GameHolds
<1>3. v.hand \in Bag
  BY <1>1, <1>2, PlayersFact DEF PlayerState
<1>4. Answerable(g0.players[p], d)
  BY <1>1 DEF IsAsked, Truthful
<1>5. Expected(g0, name)
  BY <1>1, <1>2 DEF Familiar
<1>6. \/ d.card = "militia"
      \/ b.name = name /\ \/ d.card = "chapel" /\ name = "chapel_bm"
                          \/ d.card = "remodel" /\ name = "remodel_bm"
                          \/ d.card = "library" /\ name = "library_bm"
                          \/ d.card = "sentry" /\ name = "sentry_bm"
                          \/ d.card = "throne_room" /\ name = "throneroom_bm"
  BY <1>1, <1>2, <1>5, ExpectedCases
<1> HIDE DEF v, d
<1>7. \A S, T : T # {} => OrElse(S, T) # {}
  BY DEF OrElse
<1>8. CASE d.card = "militia" /\ b.name = "militia_bm"
  <2>1. Resolve(b, v) = {[list |-> c] : c \in MilitiaDiscards(v, d.min)}
    BY <1>1, <1>8 DEF Resolve
  <2> QED
    BY <1>1, <1>3, <2>1, MilitiaDiscardsSome DEF v
<1>9. CASE d.card = "militia" /\ b.name # "militia_bm"
  <2>1. Resolve(b, v) = {[list |-> c] : c \in PickFirstN(v.hand, d.min)}
    BY <1>1, <1>9 DEF Resolve, SafeRefusal, PromptKind
  <2>2. PickFirstN(v.hand, d.min) # {}
    BY <1>1, <1>3, MilitiaDiscardsSome DEF MilitiaDiscards
  <2> QED
    BY <2>1, <2>2 DEF v
<1>10. CASE d.card = "chapel" /\ b.name = "chapel_bm"
  <2>1. Resolve(b, v) = {[list |-> ChapelTrashes(b, v, d)]}
    BY <1>1, <1>10 DEF Resolve
  <2> QED
    BY <2>1 DEF v
<1>11. CASE d.card = "remodel" /\ b.name = "remodel_bm"
  <2>1. Resolve(b, v) = RemodelAnswers(v, d)
    BY <1>1, <1>11 DEF Resolve
  <2>2. CASE d.step = 0
    <3>1. PICK c \in Cards : v.hand[c] > 0
      BY <1>1, <1>4, <1>11, <2>2 DEF Answerable, HasCard
    <3>2. c \in InHandOf(v)
      BY <1>3, <3>1 DEF InHandOf, Bag
    <3>3. (IF HandContains(v, "estate") THEN {"estate"} ELSE Cheapest(InHandOf(v))) # {}
      BY <3>2, CheapestThere
    <3>4. RemodelAnswers(v, d) =
            {[list |-> OneOf(x)] :
               x \in IF HandContains(v, "estate") THEN {"estate"} ELSE Cheapest(InHandOf(v))}
      BY <2>2 DEF RemodelAnswers
    <3> QED
      BY <2>1, <3>3, <3>4 DEF v
  <2>3. CASE d.step # 0
    <3>1. \E X : X # {} /\ RemodelAnswers(v, d) = {[choice |-> x] : x \in X}
      <4> DEFINE best == {"province"}
      <4>1. OrElse(Dearest(WithinCost(v, d.limit)), {"copper"}) # {}
        BY <1>7
      <4> QED
        BY <2>3, <4>1 DEF RemodelAnswers
    <3> QED
      BY <2>1, <3>1 DEF v
  <2> QED
    BY <2>2, <2>3
<1>12. CASE d.card = "library" /\ b.name = "library_bm"
  <2>1. Resolve(b, v) = {[yes |-> FALSE]}
    BY <1>1, <1>12 DEF Resolve, SafeRefusal, PromptKind
  <2> QED
    BY <2>1 DEF v
<1>13. CASE d.card = "sentry" /\ b.name = "sentry_bm"
  <2>1. d.step = 0 => Resolve(b, v) = {[order |-> SentryTrashes(d)]}
    BY <1>1, <1>13 DEF Resolve
  <2>2. d.step = 1 => Resolve(b, v) = {[order |-> <<>>]}
    BY <1>1, <1>13 DEF Resolve, SafeRefusal, PromptKind
  <2>3. d.step = 2 => Resolve(b, v) = {[order |-> d.shown]}
    BY <1>1, <1>13 DEF Resolve, SafeRefusal, PromptKind
  <2>4. d.step = 0 \/ d.step = 1 \/ d.step = 2
    BY ONLY <1>1
  <2>5. \E order : Resolve(b, v) = {[order |-> order]}
    BY <2>1, <2>2, <2>3, <2>4
  <2> QED
    BY ONLY <2>5 DEF v
<1>14. CASE d.card = "throne_room" /\ b.name = "throneroom_bm"
  <2>1. Resolve(b, v) = {[choice |-> x] : x \in ThroneRoomTargets(v)}
    BY <1>1, <1>14 DEF Resolve
  <2>2. ThroneRoomTargets(v) # {}
    BY <1>7 DEF ThroneRoomTargets
  <2> QED
    BY <2>1, <2>2 DEF v
<1> QED
  BY <1>6, <1>8, <1>9, <1>10, <1>11, <1>12, <1>13, <1>14

-----------------------------------------------------------------------------
(***************************************************************************)
(* The theorems.                                                           *)
(***************************************************************************)

\* Two bots of any strategies keep the invariant in every reachable state: the
\* prompt is one their own cards make, their notes agree with the zones they do
\* not see, and their clocks with the turn.
THEOREM BotInvariant == BotSpec => []BInv
  BY InitBInv, NextBInv, PTL DEF BotSpec

\* The engine turns a bot of the package away in one case only: a BigMoney or a
\* SmithyBM buys from a pile it does not know to be empty.  No answer and no play
\* of any strategy, in any kingdom, is ever rejected.
THEOREM BotsAreRefusedOnlyAtEmptyPile == BotSpec => []RefusedOnlyAtEmptyPile
<1>1. BInv => RefusedOnlyAtEmptyPile
  <2> SUFFICES ASSUME BInv, NEW p \in Players, bots[p].stopped
               PROVE  /\ bots[p].name \in {"bigmoney", "smithy_bm"}
                      /\ gs.phase = "buy" /\ gs.decision = NoDecision
                      /\ \E c \in {"province", "gold", "silver"} :
                           gs.supply[c] = 0 /\ gs.players[p].coins >= Cost[c]
    BY DEF RefusedOnlyAtEmptyPile
  <2>1. TurnedAway(bots[p], p, gs)
    BY DEF BInv, BotsHold, BotHolds
  <2> QED
    BY <2>1 DEF TurnedAway
<1> QED
  BY <1>1, BotInvariant, PTL

\* What a bot counts and notes from the snapshots it is sent is true of the game:
\* its turns, the cards it bought, the Coppers its Chapels trashed.
THEOREM BotsNotesAgree == BotSpec => []NotesAgree
<1>1. BInv => NotesAgree
  <2> SUFFICES ASSUME BInv, NEW p \in Players, ~bots[p].stopped
               PROVE  /\ ~gs.ended => bots[p].turns = IF p \in {gs.starting, gs.current}
                                                      THEN gs.turn ELSE gs.turn - 1
                      /\ NotesHold(bots[p], p, gs)
    BY DEF NotesAgree, NotesHold
  <2>1. BotHolds(bots[p], p, gs)
    BY DEF BInv, BotsHold
  <2> QED
    BY <2>1 DEF BotHolds, ClockAgrees
<1> QED
  BY <1>1, BotInvariant, PTL

\* What a bot submits is one of the calls of the engine's own specification.
LEMMA SubmissionIsCall ==
  ASSUME Obedient, BuyChoices = Cards, AInv, NEW p, NEW s, Rejections,
         Submitted(gs, bots, p, s, gs', bots'), gs'.turn <= MaxTurn,
         bots \in [Players -> Bot], BotsHold(gs, bots)
  PROVE  Next
<1> DEFINE name == bots[gs.current].name
           b == bots[p]
           act == s.act
<1>1. /\ Sound(gs) /\ Truthful(gs) /\ gs \in GameStates /\ p \in Players /\ ~b.stopped
      /\ s \in Submissions(b, p, Snapshot(gs, p)) /\ gs' \in Apply(gs, act)
  BY DEF AInv, IInv, Sound, Submitted
<1>2. Playing(gs, name, p, b)
  BY <1>1, WhoActsPlays
<1>3. Call(act)
  BY <1>1 DEF Call
<1> HIDE DEF name, b
<1>4. CASE gs.decision # NoDecision
  <2> DEFINE d == gs.decision
             answer == act.answer
  <2>1. /\ act = Answer(gs, p, answer)
        /\ IsAsked(gs, name, p, b) /\ answer \in Resolve(b, Snapshot(gs, p))
    BY <1>1, <1>2, <1>4, AnswerAllowed
  <2> HIDE DEF act, answer
  <2>2. /\ Obeys(gs, d, answer) /\ Formed(d, answer)
        /\ d.card = "sentry" =>
             /\ answer.order \in Seq(Cards) /\ SameNames(answer.order, d.shown)
             /\ Len(answer.order) <= Len(d.shown)
    BY <2>1, BotsObey
  <2>3. answer \in Answers(gs, d)
    BY <1>1, <1>4, <2>2, ObeyingAnswers
  <2>4. ResolveDecision(p, d.id)
    BY <1>3, <2>1, <2>3 DEF ResolveDecision, Answer
  <2> QED
    BY <1>1, <1>4, <2>4 DEF Next
<1>5. CASE gs.decision = NoDecision
  <2>1. HasTurn(gs, name, p, b) /\ Submits(b, p, gs, s)
    BY <1>1, <1>2, <1>5, SubmissionCases DEF HasTurn
  <2>2. \/ \E c \in Cards : act = Play(p, c)
        \/ \E c \in Cards : act = Buy(p, c)
        \/ act = End(p)
    BY <2>1, MoveAllowed
  <2> HIDE DEF act
  <2>3. \/ \E c \in Cards : PlayCard(p, c)
        \/ \E c \in BuyChoices : BuyCard(p, c)
        \/ EndPhase(p)
    BY <1>3, <2>2 DEF PlayCard, BuyCard, EndPhase, Play, Buy, End
  <2> QED
    BY <1>1, <2>3 DEF Next
<1> QED
  BY <1>4, <1>5

\* A game of two bots is a game of the engine between clients that obey their
\* prompts: the composition with the strategies refines the engine's specification.
THEOREM BotsPlayByTheRules ==
  ASSUME Obedient, Rejections, BuyChoices = Cards
  PROVE  BotSpec => PlaysByTheRules
<1>1. BotInit => Init
  BY DEF BotInit
<1>2. BInv /\ [BotNext]_botVars => [Next]_gs
  <2>1. BInv /\ UNCHANGED botVars => UNCHANGED gs
    BY DEF botVars
  <2>2. ASSUME BInv, BotNext PROVE Next
    <3>1. PICK p, s : Submitted(gs, bots, p, s, gs', bots') /\ gs'.turn <= MaxTurn
      BY <2>2, StepSubmits
    <3> QED
      BY <2>2, <3>1, SubmissionIsCall DEF BInv
  <2> QED
    BY <2>1, <2>2
<1> QED
  BY <1>1, <1>2, BotInvariant, PTL DEF BotSpec, Spec, PlaysByTheRules

\* The bots never both wait for the other: the safety half of BotsPlayOn, for every
\* deck and kingdom.
THEOREM BotsNeverBothWait == BotSpec => []NeverBothWait
<1>1. BInv => NeverBothWait
  <2> SUFFICES ASSUME BInv, ~gs.ended, \A p \in Players : ~bots[p].stopped
               PROVE  \E p \in Players : Pending(p) # {}
    BY DEF NeverBothWait
  <2>1. /\ Sound(gs) /\ Truthful(gs) /\ gs \in GameStates
        /\ bots \in [Players -> Bot] /\ BotsHold(gs, bots)
    BY DEF BInv, AInv, IInv, Sound
  <2>2. \A p : Pending(p) = IF bots[p].stopped THEN {}
                            ELSE Submissions(bots[p], p, Snapshot(gs, p))
    BY DEF Pending
  <2>3. CASE gs.decision # NoDecision
    <3> DEFINE p == gs.decision.player
               v == Snapshot(gs, p)
    <3>1. p \in Players
      BY <2>1, <2>3 DEF GameStates, Decision
    <3>2. Playing(gs, bots[gs.current].name, p, bots[p])
      BY <2>1, <3>1, WhoActsPlays
    <3>3. IsAsked(gs, bots[gs.current].name, p, bots[p])
      BY <2>1, <2>3, <3>2 DEF IsAsked
    <3>4. PICK answer : answer \in Resolve(bots[p], v)
      BY <3>3, AnswerThere
    <3>5. v.decision = gs.decision /\ ~v.ended
      BY DEF Snapshot
    <3> HIDE DEF v
    <3>6. ResolveAction(bots[p], p, v) # {}
      BY <3>4 DEF ResolveAction
    <3>7. Submissions(bots[p], p, v) = ResolveAction(bots[p], p, v)
      BY <2>3, <3>5 DEF Submissions
    <3> QED
      BY <2>2, <3>1, <3>6, <3>7 DEF v
  <2>4. CASE gs.decision = NoDecision
    <3> DEFINE p == gs.current
               v == Snapshot(gs, p)
    <3>1. p \in Players
      BY <2>1 DEF GameStates
    <3>2. v.decision = NoDecision /\ ~v.ended /\ v.current = p
      BY <2>4 DEF Snapshot
    <3> HIDE DEF v
    <3>3. PickAction(bots[p], p, v) # {}
      BY DEF PickAction
    <3>4. Submissions(bots[p], p, v) = PickAction(bots[p], p, v)
      BY <3>2 DEF Submissions
    <3> QED
      BY <2>2, <3>1, <3>3, <3>4 DEF v
  <2> QED
    BY <2>3, <2>4
<1> QED
  BY <1>1, BotInvariant, PTL

\* So such a game keeps what the engine promises to such clients: no call that fails
\* touches the pending decision, no replay is lost, no card is set aside unseen.
THEOREM BotGamesLoseNothing ==
  ASSUME Obedient, Rejections, BuyChoices = Cards
  PROVE  BotSpec => /\ RejectionKeepsDecision
                    /\ []ReplayAwaitsDecision /\ []SetAsideIsShown
<1>1. BotSpec => Spec
  BY BotsPlayByTheRules DEF PlaysByTheRules
<1> QED
  BY <1>1, ObedienceKeepsDecisions, ObedienceLosesNothing, PTL
=============================================================================
