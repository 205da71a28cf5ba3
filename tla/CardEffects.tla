---------------------------- MODULE CardEffects -----------------------------
(***************************************************************************)
(* What each card does when it is played (Card.OnPlay) and when a decision *)
(* it asked for is answered (Card.OnResolve): internal/engine/cards.  Both *)
(* yield the set of states the call may end in.                            *)
(*                                                                         *)
(* An answer is a record: [list |-> bag] for a CardListAnswer,             *)
(* [order |-> sequence] for the CardListAnswer of a reordering,            *)
(* [choice |-> card] for a CardChoiceAnswer (NoCard when it declines), and *)
(* [yes |-> boolean] for a YesNoAnswer.                                    *)
(***************************************************************************)
EXTENDS GameState

\* The common opening of an OnPlay: cards drawn, then resources added.
Plus(g, p, cards, actions, buys, coins) ==
  {AddResources(h, p, actions, buys, coins) :
     h \in WithPlayer(g, p, DrawCards(g.players[p], cards))}

HandPrompt(min, max) == [NoPrompt EXCEPT !.min = min, !.max = max]
GainPrompt(limit) == [NoPrompt EXCEPT !.limit = limit]
ShownPrompt(cards) == [NoPrompt EXCEPT !.shown = cards]

-----------------------------------------------------------------------------
(* Treasures.                                                              *)
CopperOnPlay(g, p) == Plus(g, p, 0, 0, 0, 1)
GoldOnPlay(g, p) == Plus(g, p, 0, 0, 0, 3)

\* The first Silver of the turn also pays one coin per Merchant charge.
SilverOnPlay(g, p) ==
  LET q == g.players[p]
      bonus == IF q.silver THEN 0 ELSE q.charges
  IN  Plus([g EXCEPT !.players[p].silver = TRUE], p, 0, 0, 0, 2 + bonus)

(* Cards and resources only.                                               *)
VillageOnPlay(g, p) == Plus(g, p, 1, 2, 0, 0)
SmithyOnPlay(g, p) == Plus(g, p, 3, 0, 0, 0)
FestivalOnPlay(g, p) == Plus(g, p, 0, 2, 1, 2)
LaboratoryOnPlay(g, p) == Plus(g, p, 2, 1, 0, 0)
MarketOnPlay(g, p) == Plus(g, p, 1, 1, 1, 1)
MoatOnPlay(g, p) == Plus(g, p, 2, 0, 0, 0)

MerchantOnPlay(g, p) ==
  {[h EXCEPT !.players[p].charges = @ + 1] : h \in Plus(g, p, 1, 1, 0, 0)}

CouncilRoomOnPlay(g, p) ==
  LET other == Opponent(p)
  IN  UNION {WithPlayer(h, other, DrawCards(h.players[other], 1)) :
               h \in Plus(g, p, 4, 0, 1, 0)}

-----------------------------------------------------------------------------
(* Attacks.                                                                *)
WitchOnPlay(g, p) ==
  {IF AttackVictims(h, p) = {} THEN h
   ELSE GainCard(h, Opponent(p), "curse", "discard") :
     h \in Plus(g, p, 2, 0, 0, 0)}

\* Mutant of MilitiaQueue: the prompt asks for one card too many.
MilitiaQueueTooMany(g, victims) ==
  LET toAsk == {v \in victims : Size(g.players[v].hand) > 3}
      v == CHOOSE w \in toAsk : TRUE
      n == Size(g.players[v].hand) - 2
  IN  IF toAsk = {} THEN g
      ELSE RequestDecision(g, v, "militia", 0, HandPrompt(n, n))

\* militiaQueue: a victim with more than three cards must discard down to it.
MilitiaQueue(g, victims) ==
  LET toAsk == {v \in victims : Size(g.players[v].hand) > 3}
      v == CHOOSE w \in toAsk : TRUE
      n == Size(g.players[v].hand) - 3
  IN  IF toAsk = {} THEN g
      ELSE RequestDecision(g, v, "militia", 0, HandPrompt(n, n))

MilitiaOnPlay(g, p) ==
  {MilitiaQueue(h, AttackVictims(h, p)) : h \in Plus(g, p, 0, 0, 0, 2)}

MilitiaOnResolve(g, p, answer) ==
  LET over == Size(g.players[p].hand) - 3
      expected == IF over < 0 THEN 0 ELSE over
  IN  IF Size(answer.list) # expected THEN {Fail(g)}
      ELSE {DiscardFromHand(g, p, answer.list)}

\* victoriesInHand.
VictoriesInHand(g, p) ==
  [c \in Cards |-> IF HasType(c, "victory") THEN g.players[p].hand[c] ELSE 0]

\* bureaucratQueue: no victory is only revealed, one goes on the deck, and with
\* more the victim chooses.
BureaucratQueue(g, victims) ==
  LET v == CHOOSE w \in victims : TRUE
      n == Size(VictoriesInHand(g, v))
      only == CHOOSE c \in Cards : VictoriesInHand(g, v)[c] > 0
  IN  IF victims = {} \/ n = 0 THEN g
      ELSE IF n = 1 THEN PutOnDeck(g, v, only)
      ELSE RequestDecision(g, v, "bureaucrat", 0, HandPrompt(1, 1))

BureaucratOnPlay(g, p) ==
  LET h == GainCard(g, p, "silver", "deck")
  IN  {BureaucratQueue(h, AttackVictims(h, p))}

BureaucratOnResolve(g, p, answer) ==
  LET legal == {c \in Cards : /\ answer.list = OneOf(c)
                              /\ HasType(c, "victory") /\ InHand(g, p, c)}
  IN  IF legal = {} THEN {Fail(g)} ELSE {PutOnDeck(g, p, c) : c \in legal}

IsNonCopperTreasure(c) == HasType(c, "treasure") /\ c # "copper"

\* Discards the (at most two) revealed cards other than those named `kept'.
DiscardOthers(g, v, revealed, kept) ==
  LET discarded(h, i) ==
        IF i > Len(revealed) \/ revealed[i] = kept THEN h
        ELSE DiscardFromDeck(h, v, revealed[i])
  IN  discarded(discarded(g, 1), 2)

\* Trashes the chosen treasure and discards the other revealed cards.
BanditTake(g, v, chosen, revealed) ==
  DiscardOthers(TrashFromDeck(g, v, chosen), v, revealed, chosen)

\* banditQueue on a victim whose top cards have been revealed.
BanditRaid(g, v) ==
  LET revealed == Revealed(g.players[v])
      treasures == {i \in DOMAIN revealed : IsNonCopperTreasure(revealed[i])}
  IN  IF treasures = {} THEN DiscardOthers(g, v, revealed, NoCard)
      ELSE IF Cardinality(treasures) = 1
      THEN BanditTake(g, v, revealed[CHOOSE i \in treasures : TRUE], revealed)
      ELSE RequestDecision(g, v, "bandit", 0, ShownPrompt(revealed))

BanditQueue(g, victims) ==
  IF victims = {} THEN {g}
  ELSE LET v == CHOOSE w \in victims : TRUE
       IN  {BanditRaid(h, v) :
              h \in WithPlayer(g, v, RevealFromDeck(g.players[v]))}

BanditOnPlay(g, p) ==
  LET h == GainCard(g, p, "gold", "discard")
  IN  BanditQueue(h, AttackVictims(h, p))

BanditOnResolve(g, p, d, answer) ==
  IF InSeq(answer.choice, d.shown) /\ IsNonCopperTreasure(answer.choice)
  THEN {BanditTake(g, p, answer.choice, d.shown)}
  ELSE {Fail(g)}

-----------------------------------------------------------------------------
(* Choices from the hand, the supply and the discard pile.                 *)
CellarOnPlay(g, p) ==
  {RequestDecision(h, p, "cellar", 0, HandPrompt(0, Size(h.players[p].hand))) :
     h \in Plus(g, p, 0, 1, 0, 0)}

\* Draws as many cards as were named, present in the hand or not.
CellarOnResolve(g, p, answer) ==
  LET h == DiscardFromHand(g, p, answer.list)
  IN  WithPlayer(h, p, DrawCards(h.players[p], Size(answer.list)))

ChapelOnPlay(g, p) == {RequestDecision(g, p, "chapel", 0, HandPrompt(0, 4))}
ChapelOnResolve(g, p, answer) == {TrashFromHand(g, p, answer.list)}

MoneylenderOnPlay(g, p) ==
  {IF InHand(g, p, "copper")
   THEN RequestDecision(g, p, "moneylender", 0, HandPrompt(0, 1)) ELSE g}

MoneylenderOnResolve(g, p, answer) ==
  {IF answer.list = EmptyBag THEN g
   ELSE AddResources(TrashFromHand(g, p, answer.list), p, 0, 0, 3)}

PoacherOnPlay(g, p) ==
  LET n == Cardinality(EmptyPiles(g))
  IN  {IF n = 0 THEN h
       ELSE RequestDecision(h, p, "poacher", 0, HandPrompt(n, n)) :
         h \in Plus(g, p, 1, 1, 0, 1)}

PoacherOnResolve(g, p, answer) == {DiscardFromHand(g, p, answer.list)}

\* Mutant of Gainable: the limit itself is too much.
GainableBelow(c, limit) == c \in Registered /\ Cost[c] < limit

\* GainFromSupply answers: a registered card within the limit.
Gainable(c, limit) == c \in Registered /\ Cost[c] <= limit

WorkshopOnPlay(g, p) == {RequestDecision(g, p, "workshop", 0, GainPrompt(4))}

WorkshopOnResolve(g, p, d, answer) ==
  {IF Gainable(answer.choice, d.limit)
   THEN GainCard(g, p, answer.choice, "discard") ELSE Fail(g)}

ArtisanOnPlay(g, p) == {RequestDecision(g, p, "artisan", 0, GainPrompt(5))}

ArtisanOnResolve(g, p, d, answer) ==
  IF d.step = 0
  THEN {IF Gainable(answer.choice, 5)
        THEN RequestDecision(GainCard(g, p, answer.choice, "hand"), p,
                             "artisan", 1, HandPrompt(1, 1))
        ELSE Fail(g)}
  ELSE {PutOnDeck(g, p, answer.choice)}

RemodelOnPlay(g, p) ==
  {IF g.players[p].hand = EmptyBag THEN g
   ELSE RequestDecision(g, p, "remodel", 0, HandPrompt(1, 1))}

\* Step 0 trashes one named card, step 1 gains one costing up to 2 more.
RemodelOnResolve(g, p, d, answer) ==
  IF d.step = 0
  THEN IF Size(answer.list) # 1 THEN {Fail(g)}
       ELSE {RequestDecision(TrashFromHand(g, p, answer.list), p, "remodel", 1,
                             GainPrompt(Cost[c] + 2)) :
               c \in {d1 \in Cards : answer.list = OneOf(d1)}}
  ELSE {IF Gainable(answer.choice, d.limit)
        THEN GainCard(g, p, answer.choice, "discard") ELSE Fail(g)}

MineOnPlay(g, p) ==
  {IF HandHasType(g, p, "treasure")
   THEN RequestDecision(g, p, "mine", 0, HandPrompt(0, 1)) ELSE g}

\* Step 0 trashes the named cards and prices the gain by the first of them.
MineOnResolve(g, p, d, answer) ==
  IF d.step = 0
  THEN IF answer.list = EmptyBag THEN {g}
       ELSE {RequestDecision(TrashFromHand(g, p, answer.list), p, "mine", 1,
                             GainPrompt(Cost[c] + 3)) :
               c \in {d1 \in Cards : answer.list[d1] > 0}}
  ELSE {IF Gainable(answer.choice, d.limit) /\ HasType(answer.choice, "treasure")
        THEN GainCard(g, p, answer.choice, "hand") ELSE Fail(g)}

HarbingerOnPlay(g, p) ==
  {IF h.players[p].discard = EmptyBag THEN h
   ELSE RequestDecision(h, p, "harbinger", 0, HandPrompt(0, 1)) :
     h \in Plus(g, p, 1, 1, 0, 0)}

HarbingerOnResolve(g, p, answer) ==
  {IF answer.choice \in Cards /\ g.players[p].discard[answer.choice] > 0
   THEN [g EXCEPT !.players[p].discard = DropOne(@, answer.choice),
                  !.players[p].top = Append(@, answer.choice)]
   ELSE g}

-----------------------------------------------------------------------------
(* Cards taken off the deck and inspected.                                 *)

\* RevealAndDiscardFromDeck(gs, px, 1), then the offer to play an action.
VassalOnPlay(g, p) ==
  LET q == Reshuffled(g.players[p])
      discarded(t) ==
        [g EXCEPT !.players[p] = [t.rest EXCEPT !.discard = AddOne(@, t.card)]]
  IN  IF DeckEmpty(q) THEN {g}
      ELSE {IF HasType(t.card, "action")
            THEN RequestDecision(discarded(t), p, "vassal", 0,
                                 ShownPrompt(<<t.card>>))
            ELSE discarded(t) : t \in Pop(q)}

FlushSetAside(g, p) ==
  [g EXCEPT !.players[p].discard = BagPlus(@, BagOfSeq(g.players[p].setAside)),
            !.players[p].setAside = <<>>]

\* The tests at the head of the loop of libraryStep, and the parked decision
\* on which it returns.
LibraryStops(g, p) ==
  \/ g.decision # NoDecision
  \/ Size(g.players[p].hand) >= 7
  \/ DeckEmpty(g.players[p]) /\ g.players[p].discard = EmptyBag

LibraryDraw(g, p) ==
  IF LibraryStops(g, p) THEN {g}
  ELSE {IF HasType(t.card, "action")
        THEN RequestDecision(
               [g EXCEPT !.players[p] =
                  [t.rest EXCEPT !.setAside = Append(@, t.card)]],
               p, "library", 0, ShownPrompt(<<t.card>>))
        ELSE [g EXCEPT !.players[p] = [t.rest EXCEPT !.hand = AddOne(@, t.card)]] :
          t \in Pop(Reshuffled(g.players[p]))}

\* Mutant of LibraryStep: the cards set aside are not flushed.
LibraryStepNoFlush(g, p) ==
  LET round[k \in 0..7] ==
        IF k = 0 THEN {g} ELSE UNION {LibraryDraw(h, p) : h \in round[k - 1]}
  IN  round[7]

\* Seven rounds are enough: each one adds a card to the hand or stops.
LibraryStep(g, p) ==
  LET round[k \in 0..7] ==
        IF k = 0 THEN {g} ELSE UNION {LibraryDraw(h, p) : h \in round[k - 1]}
  IN  {IF h.decision # NoDecision THEN h ELSE FlushSetAside(h, p) :
         h \in round[7]}

LibraryOnPlay(g, p) == LibraryStep(g, p)

WithoutCard(s, c) == IF InSeq(c, s) THEN Without(s, IndexOf(s, c)) ELSE s

\* Mutant of LibraryOnResolve: a kept card also stays set aside.
LibraryOnResolveCopies(g, p, d, answer) ==
  LibraryStep(IF answer.yes THEN g
              ELSE [g EXCEPT !.players[p].hand = AddOne(@, d.shown[1])], p)

\* A kept card goes back to the hand, a set-aside one stays until the flush.
LibraryOnResolve(g, p, d, answer) ==
  LET c == d.shown[1]
      kept == [g EXCEPT !.players[p].setAside = WithoutCard(@, c),
                        !.players[p].hand = AddOne(@, c)]
  IN  LibraryStep(IF answer.yes THEN g ELSE kept, p)

\* Sentry: the peeled cards are the new end of SetAside, top of deck first.
SentryOnPlay(g, p) ==
  LET asked(h, q) ==
        LET before == Len(h.players[p].setAside)
            revealed == SubSeq(q.setAside, before + 1, Len(q.setAside))
            after == [h EXCEPT !.players[p] = q]
        IN  IF revealed = <<>> THEN after
            ELSE RequestDecision(after, p, "sentry", 0, ShownPrompt(revealed))
  IN  UNION {{asked(h, q) : q \in PeelToSetAside(h.players[p])} :
               h \in Plus(g, p, 1, 1, 0, 0)}

\* Mutant of SentryMove: a card that is not set aside is trashed all the same.
SentryMoveUnchecked(g, p, c, step) ==
  LET out == [g EXCEPT !.players[p].setAside = WithoutCard(@, c)]
  IN  IF c \notin Cards THEN g
      ELSE CASE step = 0 -> [out EXCEPT !.trash = AddOne(@, c)]
             [] step = 1 -> [out EXCEPT !.players[p].discard = AddOne(@, c)]
             [] step = 2 -> [out EXCEPT !.players[p].top = Append(@, c)]

\* One named card leaves SetAside: for the trash, the discard pile or the deck.
\* Only the last step rejects a card that is not there, and then stops.
SentryMove(g, p, c, step) ==
  LET out == [g EXCEPT !.players[p].setAside = WithoutCard(@, c)]
  IN  IF g.err THEN g
      ELSE IF ~InSeq(c, g.players[p].setAside)
      THEN IF step = 2 THEN Fail(g) ELSE g
      ELSE CASE step = 0 -> [out EXCEPT !.trash = AddOne(@, c)]
             [] step = 1 -> [out EXCEPT !.players[p].discard = AddOne(@, c)]
             [] step = 2 -> [out EXCEPT !.players[p].top = Append(@, c)]

SentryMoves(g, p, names, step) ==
  LET moved[k \in 0..Len(names)] ==
        IF k = 0 THEN g ELSE SentryMove(moved[k - 1], p, names[k], step)
  IN  moved[Len(names)]

SetAsideToDeck(g, p) ==
  [g EXCEPT !.players[p].top = @ \o g.players[p].setAside,
            !.players[p].setAside = <<>>]

\* sentryAdvanceFromStep0 and sentryAdvanceFromStep1.
SentryAdvance(g, p, step) ==
  LET left == g.players[p].setAside
  IN  IF left = <<>> THEN g
      ELSE IF step = 1 /\ Len(left) = 1 THEN SetAsideToDeck(g, p)
      ELSE RequestDecision(g, p, "sentry", step + 1, ShownPrompt(left))

SentryOnResolve(g, p, d, answer) ==
  LET h == SentryMoves(g, p, answer.order, d.step)
  IN  {IF h.err THEN h
       ELSE IF d.step = 2 THEN SetAsideToDeck(h, p)
       ELSE SentryAdvance(h, p, d.step)}

ThroneRoomOnPlay(g, p) ==
  {IF HandHasType(g, p, "action")
   THEN RequestDecision(g, p, "throne_room", 0, HandPrompt(1, 1)) ELSE g}

-----------------------------------------------------------------------------
(* Dispatch.  No OnPlay plays another card, so nothing here is recursive.  *)

OnPlay(g, p, c) ==
  CASE c = "copper" -> CopperOnPlay(g, p)
    [] c = "silver" -> SilverOnPlay(g, p)
    [] c = "gold" -> GoldOnPlay(g, p)
    [] c = "village" -> VillageOnPlay(g, p)
    [] c = "smithy" -> SmithyOnPlay(g, p)
    [] c = "festival" -> FestivalOnPlay(g, p)
    [] c = "laboratory" -> LaboratoryOnPlay(g, p)
    [] c = "market" -> MarketOnPlay(g, p)
    [] c = "moat" -> MoatOnPlay(g, p)
    [] c = "merchant" -> MerchantOnPlay(g, p)
    [] c = "council_room" -> CouncilRoomOnPlay(g, p)
    [] c = "witch" -> WitchOnPlay(g, p)
    [] c = "militia" -> MilitiaOnPlay(g, p)
    [] c = "bureaucrat" -> BureaucratOnPlay(g, p)
    [] c = "bandit" -> BanditOnPlay(g, p)
    [] c = "cellar" -> CellarOnPlay(g, p)
    [] c = "chapel" -> ChapelOnPlay(g, p)
    [] c = "moneylender" -> MoneylenderOnPlay(g, p)
    [] c = "poacher" -> PoacherOnPlay(g, p)
    [] c = "workshop" -> WorkshopOnPlay(g, p)
    [] c = "artisan" -> ArtisanOnPlay(g, p)
    [] c = "remodel" -> RemodelOnPlay(g, p)
    [] c = "mine" -> MineOnPlay(g, p)
    [] c = "harbinger" -> HarbingerOnPlay(g, p)
    [] c = "vassal" -> VassalOnPlay(g, p)
    [] c = "library" -> LibraryOnPlay(g, p)
    [] c = "sentry" -> SentryOnPlay(g, p)
    [] c = "throne_room" -> ThroneRoomOnPlay(g, p)
    [] OTHER -> {g}

\* PlayCardInPlace: runs OnPlay without moving the card.
PlayCardInPlace(g, p, c) == OnPlay(g, p, c)

\* PlayCardFromZone for ZoneHand and ZoneDiscard.
PlayCardFromZone(g, p, c, zone) ==
  LET q == g.players[p]
      held == c \in Cards /\ IF zone = "hand" THEN q.hand[c] > 0
                                               ELSE q.discard[c] > 0
      moved == IF zone = "hand" THEN [q EXCEPT !.hand = DropOne(@, c)]
                                ELSE [q EXCEPT !.discard = DropOne(@, c)]
  IN  IF held
      THEN PlayCardInPlace(
             [g EXCEPT !.players[p] = [moved EXCEPT !.inPlay = AddOne(@, c)]], p, c)
      ELSE {Fail(g)}

VassalOnResolve(g, p, d, answer) ==
  IF answer.yes THEN PlayCardFromZone(g, p, d.shown[1], "discard") ELSE {g}

\* Mutant of ThroneRoomOnResolve: the first play leaves the card in the hand.
ThroneRoomPlaysInPlace(g, p, answer) ==
  LET c == answer.choice
  IN  IF ~InHand(g, p, c) THEN {Fail(g)}
      ELSE PlayCardInPlace([g EXCEPT !.pendingPlays =
                              Append(@, [player |-> p, card |-> c])], p, c)

\* Queues the second play, then runs the first.
ThroneRoomOnResolve(g, p, answer) ==
  LET c == answer.choice
      queued == [g EXCEPT !.pendingPlays = Append(@, [player |-> p, card |-> c])]
  IN  PlayCardFromZone(IF InHand(g, p, c) THEN queued ELSE g, p, c, "hand")

\* OnResolve of the card that asked.
OnResolve(g, d, answer) ==
  LET p == d.player
  IN  CASE d.card = "militia" -> MilitiaOnResolve(g, p, answer)
        [] d.card = "bureaucrat" -> BureaucratOnResolve(g, p, answer)
        [] d.card = "bandit" -> BanditOnResolve(g, p, d, answer)
        [] d.card = "cellar" -> CellarOnResolve(g, p, answer)
        [] d.card = "chapel" -> ChapelOnResolve(g, p, answer)
        [] d.card = "moneylender" -> MoneylenderOnResolve(g, p, answer)
        [] d.card = "poacher" -> PoacherOnResolve(g, p, answer)
        [] d.card = "workshop" -> WorkshopOnResolve(g, p, d, answer)
        [] d.card = "artisan" -> ArtisanOnResolve(g, p, d, answer)
        [] d.card = "remodel" -> RemodelOnResolve(g, p, d, answer)
        [] d.card = "mine" -> MineOnResolve(g, p, d, answer)
        [] d.card = "harbinger" -> HarbingerOnResolve(g, p, answer)
        [] d.card = "vassal" -> VassalOnResolve(g, p, d, answer)
        [] d.card = "library" -> LibraryOnResolve(g, p, d, answer)
        [] d.card = "sentry" -> SentryOnResolve(g, p, d, answer)
        [] d.card = "throne_room" -> ThroneRoomOnResolve(g, p, answer)
=============================================================================
