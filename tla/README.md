# Dominion: a TLA+ model of the game server

The repository is a server-authoritative implementation of the card game
Dominion: a rules engine (`internal/engine`), 33 cards
(`internal/engine/cards`), an in-memory store, a Connect-Go service that
applies actions and streams snapshots, and bots that play through that
service. This directory holds TLA+ modules of the engine and all its cards, of
the service with its store, streams and bots, and of the bots' strategies;
configurations that check them with TLC; and proofs of their main invariants
and of three refinements, checked by TLAPS.

`PROJECT.json` lists the components, runs, mutants, theorems, hazards and, for
every definition that models code, the lines it stands for.

## 1. The system

| Component | Code | State | Operations |
|---|---|---|---|
| Game state, primitives | `engine/state.go`, `primitives.go`, `attack.go`, `decision.go`, `play.go` | `GameState`: players' zones and counters, supply, trash, turn, phase, one `PendingDecision`, a stack of `PendingPlays` | draw, reveal, discard, trash, gain, put on deck, play from a zone, request a decision, ask for reactions |
| Card data | `engine/card.go`, `types.go`, `cards/registry.go` | the registry, constant after `init` | lookup |
| Card effects | `cards/*.go` | none of its own | `OnPlay` of every treasure and action card, `OnResolve` of the 16 that ask something |
| Engine | `apply.go`, `phases.go`, `scoring.go`, `newgame.go` | the `GameState` | `NewGame`; `Apply` of PlayCard, BuyCard, EndPhase, ResolveDecision |
| Game store | `store/memory.go` | games by ID, room codes, a mutex | `Put`, `Get`, `WithLock` |
| Game service | `service/game_service.go` | subscribers per game (channels of 64), a sequence number per game | CreateGame, SubmitAction and its fan-out, StreamGameEvents |
| Translation | `service/translate.go` | none | action from protobuf, snapshot of a state for a viewer |
| Bot | `bot/state.go`, `bot.go`, `client.go` | `ClientState`: last sequence number and last snapshot seen | drive loop: receive, reduce, answer or act, resubscribe on a gap |
| Strategies | `bot/*_bm.go`, `strategy.go` | a note or two: cards set out to buy, Coppers trashed | choose an action (`PickAction`) or an answer (`Resolve`, `safeRefusal`) |

How they interact. A client calls SubmitAction; the service runs `Apply` on
the game inside `store.WithLock`, and still under the lock sends one snapshot
(or the end of the game) to every subscriber's channel, dropping it when the
channel is full. `Apply` looks cards up in the registry and calls their
`OnPlay` or `OnResolve`, which call the primitives, which change the
`GameState` in place. A card that needs a choice leaves a `PendingDecision`
behind and returns; the choice comes back as a ResolveDecision, perhaps from
the other player, and `Apply` continues in the card's `OnResolve`. A Throne
Room pushes a `PendingPlay` for the second play of its card and then plays it
once; after each answer, when no decision is open, `Apply` unwinds the stack until
a replay asks again.

What is hard.

* A turn is spread over many calls. Card effects stop in the middle and resume
  in another call, for another player, after another card: everything such an
  effect relies on (cards set aside, replays owed, the number of cards to
  discard) has to survive in the state and be true when it resumes.
* `RequestDecision` overwrites whatever is pending. That no question is lost
  depends on the order of the calls in every handler and in the unwinding loop.
* `Apply` mutates the state before it has finished validating: on an error,
  what was done stays done.
* Decks run out at any draw, reveal or peel, and each of these has its own
  rule for shuffling the discard pile in.
* Cards are found again by name after a decision, and copies share a name.
* The service reads a snapshot outside the lock, registers the subscriber
  later, and drops events for slow consumers, while bots act on events only.

What makes it correct. For the engine: no card is created or lost; a turn
leaves nothing behind; a prompt can be answered the way it says; questions are
asked one at a time; replays run exactly once; a held Moat protects; the game
ends when the rules say and names the right winners; every turn ends. For the
service and the bots: a subscriber that keeps up sees every change or a gap in
the numbers; the player who must act learns it; two bots never wait on each
other.

## 2. Modules

| Module | Models | Notes |
|---|---|---|
| `CardData` | card types, costs, victory points, the basic supply | `CONSTANT Cards`: the piles of one game |
| `GameState` | the state record, decks, primitives, attacks' reaction scan, `RequestDecision` | operators from states to (sets of) states |
| `CardEffects` | `OnPlay` / `OnResolve` of every card, Throne Room's and Vassal's nested plays | one operator per handler |
| `Engine` | `NewGame`, `Apply` and its four operations, cleanup, scoring; the properties | `VARIABLE gs`; actions `PlayCard`, `BuyCard`, `EndPhase`, `ResolveDecision` |
| `TurnProtocol` | abstract specification: whose turn, which phase, who owes an answer | no cards; `Engine` implements it |
| `GameService` | store, SubmitAction, fan-out, stream handlers, drive loops and client states | the engine reduced to the board of `TurnProtocol` |
| `BoardFeed` | abstract specification: readers of a versioned board | `GameService` implements it |
| `Strategies` | the eleven strategies and `safeRefusal` on a viewer's snapshot | operators from a bot and a snapshot to what it may submit |
| `BotGame` | two bots playing `Engine` with their strategies | composes `Engine` and `Strategies`; implements `Engine` |
| `BotAnswers` | any strategy asked in any game of `Engine` | one property |
| `MCEngine`, `MCBots` | the instances TLC checks | with the twelve `MC*.cfg`; `GameService` needs no MC module |
| `GameStateProofs`, `CardEffectsProofs`, `EngineProofs` | what the primitives, the cards and the calls of the engine keep, and how a turn and the game end | checked by TLAPS |
| `EffectProofs` | whom the effects of cards touch and ask, and what they leave set aside | checked by TLAPS |
| `AnswerProofs` | what a prompt may rely on, which answers are accepted, what the bots answer to attacks | checked by TLAPS |
| `BotProofs` | what games of two bots keep, whom the engine refuses, and that they are games of the engine | checked by TLAPS |
| `GameServiceProofs`, `DeliveryProofs` | the order of a stream's events; what reaches a bot and what it makes of it | checked by TLAPS |

How they fit together. `Engine` is the game with every card and no network.
`GameService` is the network with a game of which only the board is kept, and
the board moves by the steps of `TurnProtocol`, which `Engine` is proved to
implement. `BotGame` is the engine with the strategies on top, with the network
again left out: every bot sees the game as it is. What may keep it from that is
what `GameService` is about.

**State.** `gs` is the `*GameState`. Zones whose order no code reads (hand,
discard pile, cards in play, trash, supply) are bags, functions from `Cards`
to `Nat`. A deck is the bag `deck` of the cards shuffled and not seen since,
under the sequence `top` of cards placed or revealed on it; drawing from the
bag picks any of its cards. That is exactly the behaviour of a shuffled slice
whose order is unknown, and it makes the RNG of `rng.go` a nondeterministic
choice taken when a card is first seen. `indexOf`, which finds the bottom-most
copy of a card, takes it from the bag when the bag holds one. `setAside` stays
a sequence, since Library and Sentry read its order. `err` stands for the error
`Apply` returned last. `CtxKeyRemainingVictims` is left out because `NewGame`
admits two players only, so after the one victim none remains; event lists,
names and the seed are left out because nothing in the engine reads them.

**Actions.** One action is one call of `Apply`, from the first check to the
return, as it runs under the store's lock: spending the Action, looking for the
card, its effect and all nested effects, or the cleared decision, `OnResolve`
and the whole unwinding loop. Where a call returns an error, the model keeps
every change made before it. Calls are made by either player, with any card of
the instance, and with the ID of the pending decision or the one before.

**Answers.** `Obedient = TRUE` restricts answers to those that obey the prompt
as a client sees it (`Min`, `Max`, the type filter, the revealed cards).
`Obedient = FALSE` admits any list out of the hand, any single card that is not
in it, names that were not shown, and declining where that is not offered.
Answers of another Go type than the handler expects are left out: the type
assertion panics, and no state follows.

**The service.** `GameService` splits the code where goroutines interleave.
SubmitAction is two steps, `SubmitAction` (the mutex is taken and `Apply` changes
the state) and `FanOut` (one event into every registered channel, dropped when
it is full, then the mutex is released and the bot answered), with `lock` held
in between. A handler of StreamGameEvents is `GetGame` (which waits for the
mutex, `memory.go`), `SendSnapshot` (which does not), `Register`, `Forward` per
event and `Unregister`. A bot is `Subscribe`, `Receive` (one event: reduce it,
and decide) and the submission. A snapshot read while `lock` is held is any mix
of the fields before and after the action (`Torn`), and since the map of the
supply is iterated while it is written, the Go runtime may also stop the process
(`Crash`); `ConnectionLost` follows. `Accepted` says which boards an accepted
action may lead to, `MayReject` when the engine may refuse: what is out of turn or
answers an old question, a card named after an old board, and, on any board, a
`"blind"` purchase, the Province, Gold or Silver that BigMoney and SmithyBM name
without a look at the pile. Everything else a strategy names on the board as it is
the engine accepts, by `BotsAreRefusedOnlyAtEmptyPile`. `at` counts accepted
actions, so that boards can be compared; no code reads it.

**The strategies.** A strategy is modelled on `Snapshot(g, p)`, what
`SnapshotFromState` shows its viewer: its own hand, the counters, the supply, the
pending decision. A hand is a bag, so "the first card in hand that ..." is any
card that ..., and the answer a set. The prompt a strategy sees is the kind
`DecisionToProto` writes (`PromptKind`), not the card that asked. The notes kept
between calls (`turns`, `bought`, `trashed`) are a bot's state. Answers to
prompts a strategy has no rule for go through `safeRefusal`, with the bots' own
table of card types.

**Proofs and RECURSIVE.** No module declares a RECURSIVE operator: loops are
recursive functions over the number of rounds (`drawn`, `round`), so that the
modules can be proved about.

## 3. Runs

In the runs of the engine, decks are chosen by `StartDeck`, so that a run starts
in a position of the middle of a game (3 to 9 cards a player, 10 in `newgame`,
shuffled and dealt by `NewGame`), which a longer game reaches by buying and
trashing those cards. The trash starts empty in such a position: no handler
reads it, so what it held before makes no difference.

| Run | Instance | Checks | Shows |
|---|---|---|---|
| `newgame` | 7 Coppers and 3 Estates each, full supply, buys of Village, Chapel and Silver, two rounds | `CardsConserved`, `DealsFive` | cards survive buys, reshuffles and the cleanup; the next hand is five cards wherever they were |
| `throne` | two Throne Rooms, Militia, Cellar, Vassal against Village and Moneylender | `ReplayAwaitsDecision`, `OneReplayPerCopy`, `FollowsProtocol`, `TurnsEnd` | replays wait for questions of both players, none is doubled or lost, no question overwrites another, and every turn ends |
| `sift` | two Sentries, Library, Vassal, Harbinger, Merchant over a deck of nine, against a Council Room | `SetAsideIsShown`, `CardsConserved`, `IdlePlayerIsClean` | nothing is stranded in SetAside across calls and reshuffles; Merchant charges and the Silver mark do not outlive the turn |
| `attacks` | Bandit, Bureaucrat, Witch, Militia, Festival against a deck with a Moat | `PromptsAreHonest`, `MoatProtects`, `VictimsCanAnswer` | a held Moat stops each attack; what victims are asked can be answered, and every bot's answer is accepted |
| `gains` | Workshop, Artisan, Remodel, Mine, Poacher, Gardens with piles at 0 and 1, against a Poacher with a hand of one card left | `PromptsAreHonest`, `CardsConserved`, `WinnersOwnMost`, `EndsBetweenTurns` | prompts never offer what cannot be taken; the third empty pile ends the game, at the end of the turn, for the right winners |
| `chaos` | Throne Room, Militia, Sentry, Mine; disobedient answers, rejected calls | `TypeOK`, `CardsConserved`, `IdlePlayerIsClean`, `FollowsProtocol` | what holds even when decisions are dropped half-way |
| `bots` | nine pairings in which each of the eleven strategies plays, four rounds | `PlaysByTheRules`, `RefusedOnlyAtEmptyPile`, `NotesAgree`, `NeverBothWait`, `BotsPlayOn` | bots only make calls the rules of `Engine` know, are refused in one case only, keep true notes, never both wait, and play on to the end |
| `streams` | two bots, four actions, two streams each, channels and connections of one event | `TypeOK`, `RejectedOnTheBoard`, `SilentOnlyAtFull`, `MonotoneFeed`, `StallsOnlyBehind` | what the network can and cannot do to a game |
| `rejected_play`, `rejected_answer`, `bandit`, `stall` | | one claim each | the disagreements of section 5 |

The properties, with what they mean, are at the end of `Engine.tla`, `BotGame.tla`
and `GameService.tla` and in `BotAnswers.tla`; each has a comment. Each passing
run's property has a mutant of a mapped definition (a `... mutant of ...`
operator next to it) under which TLC finds it violated.

**What `streams` says of the service.** A bot is shown real boards in order
(`MonotoneFeed`), whatever is dropped or asked for again. A bot that has never seen
a snapshot read in the middle of an action does not act on an old board, nor twice
on one: the order "read, then register" makes sure of it. A refusal is then a matter
of the strategy, a purchase without a look at the pile, made on the board the
game is at (`RejectedOnTheBoard`). The price of that order is the window of the finding
`stall`: an action accepted between the two reaches nobody on that stream. Once
a numbered event has come through, there is only one other way to fall behind
without a gap ever telling: the newest event found the channel full
(`SilentOnlyAtFull`). And these are the only ways in which a game of two healthy
bots stops (`StallsOnlyBehind`).

**Bounds.** `MaxTurn` stops an instance of the engine: no turn after it starts. Two
rounds in `newgame` see the first reshuffle of a ten-card deck; in the other runs
one round suffices because small decks run out and are reshuffled within a turn,
by the draws of the cards or by the cleanup. In `sift`, nine cards and two
Sentries are the least with which a Sentry finds one card on the deck and others
in the discard pile (of the four under a hand of five the first Sentry draws one,
puts one back and discards one; the second draws one and finds one), so that it
shuffles while cards are set aside; the victim in
`attacks` owns eight so that a Bandit can reveal two different treasures while the
Moat is still in the deck. `BuyChoices` limits what is bought to the piles a run
is about. `InitialPiles` starts piles low, so that they run out within a turn. The
card sets keep any two cards that interact through a shared part of the state
together: Throne Room and Vassal with cards that ask the player and the opponent,
the cards that set aside or put back with each other, the gainers with the empty
piles.

In `bots` the decks have five cards, so that a hand is the whole deck until the
first purchase and what is bought in one turn is played within the next two, and
the supply is run down (`BotPiles`): three piles can run out, and with five
Provinces left ChapelBM's end game has begun. Four rounds let every strategy buy
its card, play it and answer its prompts; the Throne Room that a `throneroom_bm`
starts with saves it the round to buy one.

In `streams`, a `Capacity` of 1 in place of 64 and a `Window` of 1 make a channel
full after two events that are not read; the code depends on the capacity only
through `len(ch) < cap(ch)`. Two streams per bot let a bot resubscribe while its
old handler is still registered. Four actions are enough for an action in each
window, one dropped, one that shows the gap, and one after it; `stall` needs three.
`TypeOK`, `MonotoneFeed`, `SilentOnlyAtFull` and `RejectedOnTheBoard` are proved
for every value of the four constants. `Finished` counts an instance that has reached a bound as done,
so no stall is blamed on a bound.

The first three properties of `bots`, and `NeverBothWait`, are proved for every
pairing, deck and supply of `DealAssumption`; what the bounds of the run leave to it
alone is `BotsPlayOn`.

**Deadlock.** `CHECK_DEADLOCK FALSE` in every cfg: an instance ends when the
game is over, its last turn is, or nobody has anything left to receive or submit,
and does then stop. That bots do not stop too early is what `BotsPlayOn` and
`StallsOnlyBehind` say.

**Fairness.**
`TurnsEnd`: `WF_gs(Next)`, some call that `Apply` accepts is made as long as there
is one. The bots' drive loop does so, since it submits an answer when its player is
asked and an action on its own turn, as long as it is shown the board. It does not
assume that any particular call is made, so a player may play all cards before
ending the phase. In `throne` no call is rejected and each call uses up a card, an
answer, or a phase, so what the property says is that the chain of prompts and
replays has an end.

`BotsPlayOn`: weak fairness of `BotNext`. `FairBotSpec` writes the condition under
which it is enabled out as `Waited` (some bot has something to submit), because TLC
evaluates `ENABLED` of this action too slowly.

`StallsOnlyBehind`, `DrivesUntilGameEnds`: weak fairness of every goroutine on its
own, that is, of each bot's submissions and drive loop, and of each handler. Go
schedules every runnable goroutine in the end, `sync.Mutex` hands over to
a waiter that starves, and a handler blocked in `Send` goes on when its
connection has room. Nothing makes the process crash, a snapshot be read in the
middle of an action, or an action be accepted rather than refused where both are
possible.

**Refinements.** `FollowsProtocol` (`Engine` implements `TurnProtocol`, also
proved), `MonotoneFeed` (`GameService` implements `BoardFeed`, also proved) and
`PlaysByTheRules` (`BotGame` implements `Engine` with obedient clients, also
proved, so that everything shown of such clients holds of the bots).

## 4. Proofs

The theorems about the engine are in `EngineProofs`, `EffectProofs` and
`AnswerProofs`, for every `Cards` that satisfies `CardsAssumption` of
`CardData` and all values of the constants that satisfy `EngineAssumption`: every kingdom, every deck, every supply, any number of
turns, answers obedient or not. Those about games of bots are in `BotProofs`, for
any pairing of the eleven strategies and any decks and supply that also satisfy
`DealAssumption` of `BotGame`. Those about the service are in
`GameServiceProofs` and `DeliveryProofs`, for all values that satisfy `ServiceAssumption`: any capacity
of the channels and connections (64 in the code), any number of actions and
streams.

| Theorem | Module | Statement |
|---|---|---|
| `Invariant` | `EngineProofs` | `Spec => []IInv` |
| `TypeCorrect` | | `Spec => []TypeOK` |
| `Conservation` | | `Spec => []CardsConserved` |
| `CleanBetweenTurns` | | `Spec => []IdlePlayerIsClean` |
| `ReplaysAreOwedOnce` | | `Spec => []OneReplayPerCopy` |
| `Refinement` | | `Spec => FollowsProtocol` |
| `WinnersAreThoseWhoOwnMost` | | `Spec => []WinnersOwnMost` |
| `EndsOnlyBetweenTurns` | | `Spec => EndsBetweenTurns` |
| `DealsFiveCards` | | `Spec => DealsFive` |
| `AMoatProtects` | `EffectProofs` | `Spec => MoatProtects` |
| `ReplaysAreMade` | | `Spec /\ RejectionKeepsDecision => []ReplayAwaitsDecision` |
| `SetAsideCardsAreShown` | | `Spec /\ RejectionKeepsDecision => []SetAsideIsShown` |
| `AcceptedCallsKeepDecisions` | | `~Rejections` implies `Spec => RejectionKeepsDecision` |
| `PromptsCanBeObeyed` | `AnswerProofs` | `Spec => [](PromptsAreHonest)`, but for a gain with no Coppers left |
| `AttackedBotsAnswer` | | `Spec => []VictimsCanAnswer` |
| `ObedienceKeepsDecisions` | | `Obedient` implies `Spec => RejectionKeepsDecision` |
| `ObedienceLosesNothing` | | `Obedient` implies `Spec => []ReplayAwaitsDecision /\ []SetAsideIsShown` |
| `BotInvariant` | `BotProofs` | `BotSpec => []BInv` |
| `BotsAreRefusedOnlyAtEmptyPile` | | `BotSpec => []RefusedOnlyAtEmptyPile` |
| `BotsNotesAgree` | | `BotSpec => []NotesAgree` |
| `BotsNeverBothWait` | | `BotSpec => []NeverBothWait` |
| `BotsPlayByTheRules` | | `Obedient`, `Rejections`, `BuyChoices = Cards` imply `BotSpec => PlaysByTheRules` |
| `BotGamesLoseNothing` | | under the same condition, `BotSpec` implies `RejectionKeepsDecision`, `[]ReplayAwaitsDecision` and `[]SetAsideIsShown` |
| `FeedsInOrder` | `GameServiceProofs` | `Spec => []IInv` |
| `ServiceTypes` | | `Spec => []TypeOK` |
| `BoardsNeverGoBack` | | `Spec => MonotoneFeed` |
| `DeliveryInvariant` | `DeliveryProofs` | `Spec => []DInv` |
| `SilenceNeedsAFullChannel` | | `Spec => []SilentOnlyAtFull` |
| `ChoicesStand` | | `Spec => []RejectedOnTheBoard` |

**The engine's inductive invariant.** None of these properties is inductive alone.
`TypeOK` contains that counters stay natural numbers: an Action spent is paid
for by the guard, but a Bag emptied is not, unless the card is known to be
there. `CardsConserved` fails for a Library that moves the card it asked about
from SetAside to the hand, unless that card is in SetAside (`LibraryShown`).
`IdlePlayerIsClean` fails when an answer gives its player coins, unless nobody
but the current player is asked, except by one of the three attacks whose
handlers give nothing (`CurrentAsks`). And a replay may only add to the current
player's turn, once per copy in play, if that is so for each one queued
(`ReplaysInPlay`). `IInv` is the conjunction of these with the properties.

**The argument.** `GameStateProofs` proves of each primitive what it keeps:
the types, how many copies of each card exist, whose turn it is, the waiting
player's means and SetAside. Loops (`DrawCards`, `Peel`, `Unwind`) are handled
by an induction over their rounds that is carried out on the finite interval
the recursive function is defined on. `CardEffectsProofs` then shows that every
`OnPlay` and `OnResolve` leads from a state without a decision into
`Outcome(g)`, the states that keep all this and leave at most one fresh
decision of the allowed shape. `EngineProofs` adds the unwinding loop, buys,
phases and cleanup, concludes that every call `Keeps` the invariant and is
`Visible` as a step of `TurnProtocol`, and closes each theorem with the usual
step from `Init`, `Next` and PTL.

**Whom effects touch.** `Outcome(g)` says nothing of the player who waits, nor of
what `OnPlay` and `OnResolve` leave in SetAside, and `MoatProtects`,
`ReplayAwaitsDecision` and `SetAsideIsShown` are about these. `EffectProofs` goes
through the cards a second time. Primitives and most cards are `LocalTo` the
player who plays them: the other player has what he had, and SetAside stays.
Sentry and Library change SetAside, and what they leave is `AsideShown` in the
question they ask, or nothing. Attacks reach the other player through
`AskForReactions` alone; for a holder of a Moat that is the end of it. The loop of
`applyResolveDecision` is followed by induction over its rounds: it ends with an
error, with a question, or with no replay left. `Guarded(g, h)` gathers this for
one call of `Apply`.

**Rejected answers.** `ReplayAwaitsDecision` and `SetAsideIsShown` hold as long as no
rejected answer drops its decision. The code drops it (finding `rejected_answer`),
so the two theorems have `RejectionKeepsDecision` for a hypothesis: what the
design promises of a rejected answer is all that is missing. The strengthening is
`RInv`, that is `IInv` and `Orderly(gs)`: replays and cards set aside wait for an
answer. `AcceptedCallsKeepDecisions` shows that the hypothesis holds where no call
is rejected, as in the runs `throne` and `sift`, and `ObedienceKeepsDecisions` that
it holds of all clients that answer as they are asked, whatever other calls of
theirs are rejected. `AMoatProtects` has no such hypothesis.

**Honest prompts.** That an obedient answer is accepted is not inductive either: a
handler that looks for a card in hand relies on what was there when the prompt was
made, perhaps by a card that another one played. `Answerable(q, d)` says for each
card what its prompt relies on in its player's state: a Militia's victim holds three cards
more than it has to discard, a Throne Room's player holds an Action, a Vassal's
card lies in the discard pile, a Sentry's last step shows exactly what is set
aside. `AInv` adds to `IInv` that this is so for the pending decision
(`Truthful(gs)`) and that there is none after the end; TLC checked it on the
instances of `throne`, `sift`, `attacks`, `gains` and `chaos` before it was proved.
`AnswerProofs` goes through the handlers once more: each leaves a `Truthful` state
behind, and no error where the answer `Obeys` (`Sincere`), and the unwinding loop
keeps that. Two lemmas then find an obedient answer to every prompt
(`ListCanBeGiven`, `ChoiceCanBeMade`). The second needs a pile to gain from. Workshop,
Artisan, Remodel and Mine ask even when no pile is cheap enough, and with no
Coppers left the prompt may offer nothing; the theorem says so, and nothing else
is left open. `PromptsAreHonest` itself speaks of clients with `Obedient`;
`AttackedBotsAnswer` of any clients, since whoever
misbehaves, the state in which an attack asks its victim is still `Answerable`, and
what `Resolve` yields there `Obeys`.

**The end of a turn and of the game.** `DealsFive` counts the cards of a hand, of
which `IInv` knows only how many there are of each kind. The last part of
`EngineProofs` adds the sizes of bags and follows `DrawCards` round by round: as long as deck or discard
pile hold a card, each round draws one. `WinnersOwnMost` compares a score, which
skips SetAside and the cards in play, with all that is owned: it is proved together
with `IInv`, because an ended game does not change and the cleanup that ends it
has emptied both, while `IdlePlayerIsClean` speaks for the other player.

**The bots' inductive invariant.** A strategy has rules of its own for one or two
prompts and `safeRefusal` for the others, and `safeRefusal` is refused by several
cards. That no answer of a bot is refused therefore needs that a bot is never asked
by a card it has no rule for. `BInv` says so: the pending question comes from a card
that the bot on turn plays itself, or from its Militia (`Expected`), and replays are
owed for Throne Rooms and Witches only (`Familiar`). That in turn needs to know which
actions a ThroneRoomBM owns, since it alone plays whatever action it draws
(`OwnsWhatItKnows`), for which the decks must hold no other action: `DealAssumption`,
which the seven Coppers and three Estates of `NewGame` satisfy. A ThroneRoomBM that
starts with a Remodel answers its first prompt by no card and is refused.

The second question of a Remodel is the delicate one: with nothing to gain within the
limit, `resolveRemodel` falls back on a Copper that may be gone. Its card is worth
two Coins more than what went, so an Estate, a Curse or a Copper pile would do; all
three are empty only if the game is over, and it is not, since a RemodelBM has one
Action a turn and plays it before anything is gained (`RemodelInTime`). For this
`DealAssumption` has that no game starts where it should be over.

`ClockAgrees` relates the turns a bot counts from the snapshots to the game's;
`NotesHold` its purchases and trashed Coppers to its zones, of which it sees the hand
only. A RemodelBM is the one that may own more than it noted: with no Silver left a
second Remodel can be the dearest card in reach, which `resolveRemodel` gains and does
not note, so its count is stated while there are Silvers. `TurnedAway` is what is
known of a bot that has been refused. TLC checked
`BInv` on the instance of `bots` before it was proved.

**The argument.** One part follows the cards the bots play: each leaves both players'
cards alone, but for a Witch's Curse, and asks what `Expected` allows (`Played`). One
part shows for each strategy that what `Resolve` yields `Obeys` the prompt
(`BotsObey`), so that `AnswerProofs` has it accepted, and what it does to cards and
notes (`AnswerLeaves`). One goes down the ladders of the Buy phase (`LaddersSound`):
a rung names a card within the coins, whose pile is not empty unless it is one of
the Province, Gold or Silver rungs of BigMoney and SmithyBM, while SmithyBM
counts on nine Smithys before it buys one. `SubmissionActs` gathers these for one
submission; `ActionHolds` and `StopHolds` say what the two bots make of its outcome.
`NeverBothWait` adds an answer to each such prompt (`AnswerThere`); for
`resolveMilitiaDiscard` that is a part of the hand cut off at a value
(`MilitiaDiscardsSome`). `BotsPlayByTheRules` needs no assumption on the decks of its
own; its conditions only make `Spec` wide enough: refused calls are made, every pile
may be bought from.

**The service's inductive invariant.** That the next board a bot sees is no older
than the last follows from nothing in the bot: `FeedInv` says that of each stream
the events on the wire, then those in the channel, then the game itself carry
rising versions (`Flowing`), that nothing waits in a channel before the handler
has registered it, and that all that is still to come on a bot's newest stream is
at least as new as what the bot looks at (`Ahead`). `HolderWaits` ties the mutex
to the bot whose submission holds it, so that the answer goes to a bot that has a
stream. One lemma per action shows that it keeps these (`StreamStep` and
`HandlerStep` for those that change one stream), and `StepKeeps` that each step is
one of `BoardFeed` or none.

**What reaches a bot.** `DInv` says of the newest stream of a bot in its loop, the
only one the bot reads: once a numbered event is on it, the last board on its way
is the one the last finished action left, unless the channel was full then
(`Informed`). A board on which the bot has to act is the game's and the last on
its way, provided that nothing read in the middle of an action has reached the bot
or will (`TurnLast`, `Honest`); and a bot that submits acts on the game's board,
and nobody else does (`ActsOnNow`). The last two hold each other up: the other bot
may not act on such a board, and this one waits for its answer before it reads
on. No board of the past is needed, only where the present one is. So a bot that is
refused without a race was refused a blind purchase on the game's board, and since
it is its turn there, the game stays at that board (`RefusedInv`).

**Model-checked only.** `TurnsEnd`, `BotsPlayOn` and `StallsOnlyBehind` are liveness
under fairness, beyond TLAPS. Of `BotsPlayOn` the safety half is proved
(`BotsNeverBothWait`): what only TLC shows is that a turn has an end. Every other
property of a passing run is the subject of a theorem.

## 5. Where the code and its documents disagree

* **A rejected play costs an Action** (run `rejected_play`). `applyPlayCard`
  decrements `Actions` (`apply.go:116`) before `PlayCardFromZone` finds that the
  card is not in hand. The comment on `Apply` (`apply.go:23-26`) promises the
  state from before the action.
* **A rejected answer drops the decision** (run `rejected_answer`).
  `applyResolveDecision` clears `PendingDecision` (`apply.go:81`) and an error of
  `OnResolve` leaves it cleared. The design (`2026-04-12-dominion-grpc-design.md`,
  line 917) says that it stays pending. A Militia victim who answers with the
  wrong number of cards keeps the whole hand; a Sentry's cards stay in SetAside
  until the cleanup, and replays wait until another card asks something. The
  run `chaos` and the theorems show what survives all the same.
* **A Bandit does not take what it shows** (run `bandit`, two causes). Of two equal
  treasures it discards none: the loop over the rest skips every card with the
  chosen name (`kingdom_bandit.go:36`), while the tier 3 design (line 250) says the
  rest is discarded. And it may take a card nobody has seen: `TrashFromDeck` and
  `DiscardFromDeck` remove the first occurrence in the slice
  (`primitives.go:240`), the bottom-most, while their comments and the tier 3
  design (lines 113-117) speak of the top region just revealed.
* **Two bots may wait for ever** (run `stall`). `streamGameEventsInto` sends its
  snapshot before it registers the subscriber (`game_service.go:182-194`). The
  other bot's action falls in between; the new subscriber looks at the board
  before it, the game waits for its move, and no event follows that could show a
  gap. `Run` promises to drive its strategy "until the game ends" (`bot.go:8-10`).
  The run needs no full channel, no torn snapshot and no crash.

Smaller differences are modelled as the code has them, without a run:

* `RevealFromDeck` shuffles what is left of the deck together with the discard
  pile whenever it holds fewer cards than asked for (`primitives.go:212`), where its
  comment speaks of an empty deck.
* Silver pays the Merchant charges without draining them
  (`basics_treasure.go:28`, comment at `state.go:50-52`), which makes no difference
  because the Silver mark stops a second payment.
* "Deterministic strategies must never submit illegal moves" (tier 5 design, line
  303, and the design, line 992): BigMoney and SmithyBM buy a Province, Gold or Silver
  without a look at its pile (`bigmoney.go:33-38`, `smithy_bm.go:49-59`). At an empty
  one `applyBuyCard` refuses (`apply.go:135`) and `Run` ends with the error. That
  this is the only case is `RefusedOnlyAtEmptyPile`; `bots` reaches it in its
  run-down supply.
* `safeRefusal` is "the minimum legal answer" (`strategy.go:33-34`), but it answers
  the first prompt of Remodel and Mine with no card, which is refused, and the
  first one of Sentry with one card where a list is expected; the strategies that
  buy these cards have rules of their own for them.
* ChapelBM's "Estates are kept for VP" (`chapel_bm.go:7-9`): its answer to Chapel
  trashes Estates first (`chapel_bm.go:86-94`).
* SmithyBM counts its Smithys as ten minus the pile (`smithy_bm.go:45`), which
  counts the opponent's too.
* "Reads via Get are lock-free" (`memory.go:13-14`): `Get` takes the mutex, for the
  lookup only.

## 6. Not modelled

* Commands, HTTP plumbing, protobuf definitions and generated code.
* Room codes: `GetByCode` has no caller. Games not found.
* Readers other than the two bots, and several games at once: games share the
  mutex and nothing else.
* The cancelling of a context, and a connection that fails while the server lives.
* A snapshot whose unlocked read spans more than one action.
* The kinds of events the server never sends (phase, turn, decision changes).
* `resolveKingdom`'s validation of a kingdom: `Cards` is any kingdom.
* Answers of another Go type than the handler expects: the assertion panics.
* Strategies over a lossy network: `GameService` lets a bot pick any kind of move,
  and `BotGame` shows it the game as it is; a strategy on an old board is covered
  by the former only as far as who acts.

## 7. Plan

Done: the engine with its cards and its refinement of `TurnProtocol`; the service
with store, streams and drive loops and its refinement of `BoardFeed`; all eleven
strategies and their refinement of the engine; the theorems of section 4.

Left, beyond what the provers reach: a measure that goes down with every call of a
turn, from which `TurnsEnd` and `BotsPlayOn` would follow. Left, for a larger model:
the strategies on a board that the network has let grow old.
