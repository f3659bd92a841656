# A verification project for the Texas Hold'em server

TLA+ models of the 6-max no-limit hold'em server in `server/`, and of the part of
the web client that follows it, checked with TLC on small instances and proved
about with TLAPS for every instance.

## 1. The system

One Go process serves browsers over websockets. Each poker table is an *actor*:
a goroutine that takes one command at a time from a queue of 64 and owns all the
table's state. A hand is plain mutable state of the actor. Timers
(`time.AfterFunc`) post commands back to the queue. Sessions run in goroutines of
their own; a manager finds or makes tables; finished hands are saved by
short-lived goroutines.

| component | state | operations | talks to |
|---|---|---|---|
| table actor (`table/table.go`) | chairs, current hand, button, turn timer, seat counter, queue | sit, leave, sit out/in, action, pre-action; start hand, advance street, end hand, turn timeout | the hand (calls), its own queue (timers), sessions (send channels), store (goroutine) |
| hand (`table/hand.go`) | stage, per-seat stack, bet, committed, folded, all-in, acted, pre-action, current bet, minimum raise, seat to act | blinds, the six player actions, round closed, advance, next street, settle, fold-out award, pre-action set/resolve/clear | side pots, evaluation, deck |
| side pots (`eval/sidepot.go`) | none (pure) | `BuildPots` | hand |
| hand evaluation (`eval/eval.go`) | none (pure) | `Evaluate7`, `Compare` | hand |
| deck (`deck/deck.go`) | a shuffled list | new, shuffle | hand |
| manager (`table/manager.go`) | map of tables | find or create | reads the seat counter of the actors, starts them |
| client session (`ws/handler.go`) | user id, table, send channel | login, sit, action, pre-action, sit out/in, leave, disconnect | manager (calls), actor (queue), writer (channel) |
| hand history (`hand.go`, `table.go`, `store/`) | the record of a hand; one document per hand | record, finalize, save | hand, store |
| web client (`web/src`) | socket, view of the table | reducer of server messages, buttons | session |
| entry point (`cmd/server`) | none | dial the store, serve, shut down | all |

**What is hard here.** Not one handler but their order. A client's command is
handled between any two of the table's own; three pauses (turn, street, end of
hand) are each only a timer that will post a command; a stopped timer may have
fired already; a leave can come at any moment, for any seat, and frees the chair
for somebody else while the hand still knows it by number; pre-actions fire
recursively; money moves through six actions, two kinds of blinds and two kinds
of payout and must balance over every path. Around the actor, a socket may be
lost while its session waits for a queue, an answer or its own channel; messages
to a slow client are dropped; and the record of a finished hand is marshalled by a
goroutine while the actor still owns it, under a timeout after which the write may
still land. Nothing is persisted that is read back, so a restart raises no
question of recovery; a process that ends only has saves in flight to lose.

**What makes each component correct.**

- *Hand*: chips are accounted for; streets follow closed betting rounds; raises
  are full-sized or all-in; a folded or all-in seat is out of the betting; the
  pot is paid once, in full, to the right seats.
- *Side pots and evaluation*: no chip lost, nobody wins more from a seat than it
  matched; the integer score orders hands as the rules of poker do.
- *Table actor*: exactly one thing drives a hand; every hand ends; an entry
  blind is paid once; absent players lose their place in time; the seat counter
  is right; pre-actions and timeouts apply to the turn they were meant for.
- *Manager and sessions*: whoever is gone loses the chair; nobody is refused but
  because of others; nobody waits for ever; a client has one chair.
- *Hand history*: what is stored is a finished hand, and stays as it ended unless
  the hand goes on after that; savers do not pile up.
- *Web client*: the view catches up after losses and never mixes two hands, as
  long as a hand ends when it is said to; the buttons come up for every turn of
  the player.

## 2. The modules

| module | models | what it is |
|---|---|---|
| `SidePots` | `eval.BuildPots`, its result | the pots of a hand in closed form: layers, floors, slices, eligibility |
| `BuildPots` | `eval.BuildPots`, its loop | a state machine, one step per pot, compared with `SidePots` |
| `Eval` | `eval.go` | scores of five and seven cards as the code packs them; the rules of poker beside them |
| `Showdown` | `hand.settle` | the loop of pots, then one pot after the other to the best score; compared with `Hand`'s settlement in one step |
| `MCShowdown` | | boards, deals and contributions for TLC |
| `Hand` | `hand.go` | the hand as a record, each method an operator from hand to hand |
| `Table` | `table.go` | the actor: one action per command, plus the timers |
| `TableMoney` | | abstract: what a table promises about chips, without rules of play |
| `TableProperties` | | what the table is to satisfy; the refinement of `TableMoney` |
| `MCTable` | | values of the constants for TLC |
| `Lobby` | `handler.go`, `manager.go` | readers, writers and bounded channels of sessions, the manager, and tables reduced to chairs and queue |
| `LobbyProperties` | | what sessions and manager are to satisfy |
| `History` | `hand.record`, `persistHandRecord`, `store/`, exit | the record of a hand, its concurrent savers and the database; its properties |
| `Client` | broadcasts, send channel, `web/src/store`, `App.tsx`, `ActionBar.tsx` | what a table sends, what is dropped, and the view the browser folds it into; its properties |
| `PotProofs` | | sums, levels and floors; that the layers hold every chip |
| `ShowdownProofs` | | the loop of `BuildPots`, the award of one pot after the other, and the scores it goes by |
| `EvalProofs` | | that scores order holdings of seven cards as the rules of poker do |
| `TableProofs` | | every method of `Hand`, then every handler of `Table`; what no step of `Table` may do to a hand |
| `OrderlyProofs` | | what orderly play guarantees: turns, streets, raises, one payment, and that `Table` implements `TableMoney` |
| `ClientProofs` | | what becomes of a view while messages are under way |
| `LobbyProofs`, `HistoryProofs` | | the theorems about `Lobby` and `History` |

`Table` EXTENDS `Hand`, which EXTENDS `SidePots`; `TableProperties` EXTENDS
`Table` and instantiates `TableMoney`; `MCTable` EXTENDS `TableProperties`.
`Showdown` EXTENDS `BuildPots` and `Eval` and instantiates `Hand`. `Lobby`,
`History` and `Client` stand alone: each takes of a table what it needs, and names
it in its header.

### Table and Hand: state

| model | code |
|---|---|
| `seats[s]` : user, stack, bank, out, owes, missed, timeouts | `Table.seats[s]`: `UserID`, `Stack`, `TimeBankMs`, `SittingOut`, `MustPostBB`, `MissedHands`, `ConsecutiveTimeouts` |
| `hand` (id 0 is nil) | `Table.hand`; the booleans of `seatState` are sets of seats, `dealt` the non-nil ones |
| `hand.score` | what `Evaluate7` will say of each seat, drawn when the hand starts |
| `hand.won`, `hand.finals` | history: chips paid to each seat, payouts made |
| `turn` | `turnHandID`, `turnSeat`, and whether `turnTimer` is running |
| `due` | how many of each of the table's own commands are under way |
| `hands` | gives hands their ids (uuids in the code) |
| `seatedCount` | `Table.seatedCount` |

`lastRaiser` and the `userID` of a `seatState` are written and never read by the
code, and are left out.

### Table and Hand: actions

`Sit`, `Leave`, `SitOut`, `SitIn`, `Action`, `PreAction` are the clients'
commands, modelled at the moment the actor handles them: what a session knew when
it sent one does not matter, since the handler looks only at the present state.
Commands that are answered with an error and change nothing (wrong hand, no hand,
not seated, not to act) are left out; an *illegal* action by the seat to act is
not, because it does change state (the time bank and the timeout counter).

`StartHand`/`StartInVain`, `AdvanceStreet`, `EndHand`, `TurnTimeout`,
`StaleCommand`, `StaleTimeout` handle the table's own commands. A command is in
`due` from the moment its timer is set and may be handled at any time after, in
any order: this allows every delay and every order of the queue.
`TurnTimerFires` is the callback of the turn timer: before it, `cancelTurnTimer`
recalls the timeout; after it, nothing does. `Drop` is the `default` branch of
`scheduleAfter` and `armTurnTimer`: the queue is full and the command is gone.

A handler is one action, with everything it calls. What it does to the hand, the
turn and the queue is a pipeline on a record (`Machine`): `Act`,
`MaybeFinishStreetOrHand`, `BroadcastToAct`, `EndByFoldOut`,
`SettleAndBroadcast` are the functions of those names. The code recurses from
`broadcastToAct` through a pre-action that fires back to `broadcastToAct`; a seat
has one pre-action and firing clears it, so the recursion is at most as deep as
there are seats, and `Chain` asks seven times.

### Table and Hand: abstractions

- *Cards.* A street deals nothing but a change of stage: at most 2*6+5 = 17 of 52
  cards are drawn. `Deals` says which rankings of the seats' hands are tried.
  `Showdown` has the cards: it deals them, scores every holding as the code does,
  and pays pot by pot.
- *Time.* Delays are not modelled, only the order of events. Using the time bank
  is an amount `BankUses` taken when an answer comes.
- *Amounts* are exact; the instances use small blinds and stacks.
- *Blinds* are any two integers that are not both 0 (`BlindsAssumption`): the
  server takes them from the first client's frame and replaces only a pair of zeros.
  `ProperBlinds` says that they are in order, as all the web client offers are: not
  negative, the big one positive and not below the small one. Section 6 says what
  happens otherwise.
- *Broadcasts* change no state of the table; they are `Client`'s.

### TableMoney: the abstract table

Five variables: chips of each chair outside the hand, chips in front of each
player, chips each paid in, who may still win, and whether the hand is on and
paid. A step of betting only moves chips from a live player into the pot; the pot
goes once, in full, to live players, nobody getting more than it has matched.
`PlaysForMoney` is `TableMoney`'s specification with the refinement mapping of
`TableProperties`: `paidIn` is `hand.committed`, `live` the seats that have not
folded, `phase` whether `finals` is still 0. A pre-action chain, a street and a
payout are each one abstract step; everything else about turns, timers and rules
of raising is a stutter or an instance of `Wager`.

### Lobby

| model | code |
|---|---|
| `conn` | the websocket; lost for good once it is lost |
| `pc`, `post` | where the reader's loop is: waiting for a frame, for room in a table's queue, for the answer of `Sit`, for room in its own `sendCh` |
| `login`, `at` | `session.userID` (each login makes a new one), `session.table` |
| `sent`, `writer` | messages in `sendCh`; the writer goroutine |
| `made`, `stake` | the manager's map |
| `chairs`, `queue` | `Table.seats`, `Table.cmdIn` |
| `count` | `Table.seatedCount`, all the manager sees of the chairs; the handlers keep both |
| `overtaken` | history: another client has taken a chair at the table since the manager gave it to this one |

`Login`, `Stray`, `Sit`, `Play`, `Leave` are frames, `Disconnect`/`PostLast` the
end of `ServeHTTP`; `Post` waits for room in the queue; `HandleSit`, `HandleLeave`,
`HandlePlay` take the head of the queue, and `Evict`/`Talk` stand for the table's
own commands, which broadcast and may free a chair. What the reader does with the
answer of `Sit` (setting `s.table`) is taken together with the answer: nobody else
reads it. `FindOrCreate` is one step: it has the manager's mutex, and its scan of the
map returns at the first counter below the number of chairs. `Deliver` is `sendTo`, which drops what does not fit; a reply of the
reader waits (`Reply`). `Options`: `"resit"` (a seated client asks for a table),
`"relogin"` (it logs in again), `"stray"` (while seated it sends frames that are
answered with an error). Without them a client is *polite*, as the web client is
apart from the double click in section 6.

### History

A record is the length of its timeline and how often it was finalized. `Act`
grows it. `Finish` and `FinishAgain` begin to finalize it (`BeginRecord`):
`finalizeRecord` writes field after field, and until `Persist` spawns the saver the
record is `filling`. A saver marshals it in three steps, in the order of the fields
and without a lock, while the actor goes on: what comes before the timeline
(`ReadFront`), the timeline (`ReadActions`), what comes behind it (`ReadBack`). What
it reads of a result that is being replaced is `Half`. It sends the document, and
gives up after `SaveTimeout`; the write lands (`Land`), fails, or lands later, when
the next hand or the process's exit may already have come. Time passes in ticks of
half a second, because `SaveTimeout` (2 s) below `EndDelay` (2.5 s) is what the
properties rest on; the ASSUME states it. `LateHands` are the hands that may go on
after their end, as a leave or a late action makes them do in `Table`.

A map written while it is marshalled could also make the Go runtime end the process;
`Exit`, which may come at any time, covers that.

### Client

The table is reduced to what its messages tell: hand, street, whose turn was
announced, whether the betting is open, whether the player is in. Each handler of
the actor is an action that yields the sequence of messages the code sends, in its
order; `SendTo` puts them into the bounded channel or drops them; `Receive`
applies the client's reducer of `session.ts` as `App.tsx` dispatches. A card of the
board is the hand and the street it came on, so a wrong or doubled card shows.

The seat named by `toAct` may act whenever the code lets it: on its turn, in the
pause after the round (`Closes` schedules the next street once more), and after the
hand is settled. A street scheduled twice is dealt twice, and when the hand has been
shown down the second one opens the betting again (`Reopens`), which `reopened`
records. Another player may leave at any of these points (`OtherLeaves`). A fold-out
before the flop sends a null board, at which the page throws and is taken down
(`Gone`). That a hand may be stuck by its blinds is left to `Table`.

### Options and bounds of the table

`Options` says which hard behaviours the environment shows, so that one run can
be small and ask one question: `"sit_out"`, `"slow"` (turns run out of time),
`"leave"` (during a hand), `"late"` (the seat still shown as to act acts although
no turn is open for it), `"twice"` (one user takes two chairs), `"race"` (an
action is handled while a turn timeout is queued), `"drop"`. With `Options`
within `{"sit_out", "slow"}` play is *orderly*. The theorems hold for every value
unless they name one.

`MaxHands`, `MaxDue`, `MaxFinals`, `MaxTimeouts` bound the hands dealt, equal
commands under way, payouts of one hand, and one player's consecutive timeouts;
a step beyond a bound is not taken. In orderly play none of them cuts anything
but further hands: one hand schedules each command at most once.

## 3. The runs

The table runs have three chairs (6 in the code): with three seats there is a
button that is not a blind, a heads-up hand when one player is missing, a seat the
turn may pass over, and a main pot with two side pots. Blinds are 1 and 2.

| run | instance | shows |
|---|---|---|
| `showdown` | 4 seats; contributions 0..4 and every set folded with one deal, eight contributions with 36 deals over six boards that make every kind of hand | scores order hands as the rules do (`ScoreIsStrength`); the loop loses no chip, makes the layers of `SidePots`, keeps table stakes; paying pot by pot is `Hand`'s `Settle` (`PaysAsOneStep`) |
| `orderly` | 3 players, stacks of 4 or 7, every betting action, ties; one hand | streets follow closed rounds, raises are full-sized, the pot is paid once, to the right seats; `Table` implements `TableMoney` |
| `hand_ends` | 3 players with stacks of 1, 2 or 6 who may never answer | exactly one of a turn, a pause and an end drives the hand; every hand ends, unless a blind took a seat's last chip |
| `sitting` | 3 players coming, going, sitting out and in; two hands | the seat counter is right; who is away too long loses the chair; an entry blind is paid once |
| `leavers` | 3 players leaving during the hand with every pre-action at any time, chairs taken again, one user in two chairs | chips stay accounted for, bets stay within the level; no pre-action waits behind an open turn of its seat |
| `late` | 2 players, late actions, races with the timer, time banks, lost commands; limit of 2 timeouts | who times out too often sits out, banks stay within the cap; a folded or all-in seat pays nothing more |
| `lobby` | 2 clients, 2 tables of one chair, channels and queues of one | polite clients leave no ghosts and have one chair each; a refusal means that another client took a chair since the manager chose the table; nobody waits for ever |
| `history` | 2 hands, the first settled up to twice, late writes, failures, exit at any time | documents are of finished hands, and final and whole if the hand was left alone; savers do not pile up; a settled hand is stored or its loss logged |
| `client` | 2 hands of 2 streets, a channel of 1, a message dropped anywhere, one leave or snapshot at any point, two streets scheduled at once | the view catches up part by part and mixes no two hands, but for the turn of a hand that went on after its end; the bar comes up for every turn of the player |
| `pot_paid_twice`, `stack_sync`, `ghost_chair` | | violations, section 6 |

Each run asks one question with the environment that matters to it; together
they take every action and every branch of each next-state relation.

**Why the bounds are enough.** Limits of 2 timeouts and 2 missed hands instead of
the code's 10 and 10 (`table.go:18-27`) make eviction happen within two hands; the
counters are only compared with the limits, and section 5 proves `Standing` for
every limit. Stacks of 4 to 7 make every action from a full raise to a short all-in
and a blind that takes most of a stack occur within one hand; in `hand_ends`,
stacks of 1 and 2 are below, at and above a blind. Channels and queues of one are
full at once, so every wait happens; two sessions and two tables are the least with
a rival and a second table. In `history`, 2 ticks against 3 instead of 4 against
5 keep the order of timeout and delay; two hands are the least for a write of one
to land in the next, and only the first may go on after its end, since two hands
meet only in `NoPileUp`, which is about hands that do not. In `client` a channel of 1
is smaller than every burst of messages, two scheduled streets are what a repeated
check makes, and one leave or snapshot falls between any two handlers. Scores use radix 15 and 15^5 instead of 2^8 and 2^60, since TLC's
integers have 32 bits; the ASSUME of `Eval` says what the packing needs, the code's
values satisfy it, and section 5 proves the order of scores for any that do.

`CHECK_DEADLOCK FALSE` is set for the runs because the system may stop there: no
more hands are dealt than the bound, a lone player waits for others, every socket
is lost, the process has exited, or the code really gets stuck (section 6).

Each property has a mutant, a plausible bug in one definition, under which TLC
finds the property violated; the mutants stand beside the definitions they change.

## 4. Fairness

- *Table* (`hand_ends`): a running timer fires (`TurnTimerFires`, which
  `time.AfterFunc` promises) and the actor handles a command that was posted: its
  loop takes whatever is in the queue and no handler blocks. Four of the conjuncts
  are weak fairness with the enabling condition written out
  (`[]<>~Ready \/ []<><<A>>_vars`), the condition being the guard of the action.
  Clients owe nothing. `"drop"` is not among the options of that run: with commands
  lost to a full queue nothing retries, and the code guarantees no progress.
- *Lobby*: actors handle what is in their queues and writers run (weak); a reader
  that waits for room in a channel gets it if there is room again and again
  (strong), since Go serves blocked senders in the order they came. Frames,
  disconnections and the table's own steps are not fair.
- *History*: time passes and savers run (weak). The database owes nothing: that a
  saver ends is due to its timeout.
- *Client*: the actor finishes its broadcast and the writer empties the channel
  (weak). No hand has to go on.

## 5. What is proved

By TLAPS, for every value of the constants that satisfies the ASSUMEs: any users,
two to six seats, any chips, deals, options and bounds; any number of hands, savers
and ticks with the timeout below the delay; any sessions, tables, chairs and
capacities; any channel, streets and number of messages lost. About the blinds the
ASSUME says only what the server does, that they are not both 0. The theorems of
`TableProofs` and `OrderlyProofs` that speak of the specification therefore have
`ProperBlinds` as a hypothesis: they are about tables like those the web client asks
for, and say nothing of others.

| theorem | property | |
|---|---|---|
| `TableProofs!TypeCorrect` | `TypeOK` | with blinds in order, no stack, bet or prize is ever negative; only known commands are scheduled |
| `TableProofs!HandStaysInOrder` | `HandInOrder` | with blinds in order, nobody has bet above the current bet or more than committed; only dealt-in seats fold, go all-in, act |
| `TableProofs!ChipsAccountedFor` | `Ledger` | with blinds in order, what a seat came with and was paid is what it has and has committed |
| `TableProofs!PlayersStand` | `Standing` | blinds in order; absence limits and the bank cap hold |
| `TableProofs!SeatsCounted` | `SeatedCount` | blinds in order; the seat counter is the number of occupied chairs |
| `TableProofs!OutStaysOut` | `OutOfBetting` | blinds in order; a seat that folded or is all-in stays so and pays no more |
| `TableProofs!ShowdownIsFair` | `FairShowdown` | blinds in order; whatever clients and timers did before |
| `TableProofs!EntryIsPaid` | `EntryPaid` | blinds in order; an entry blind is paid once, however players come and go |
| `OrderlyProofs!OrderlyPlayIsForMoney` | `PlaysForMoney` | in orderly play, with blinds in order, `Table` implements `TableMoney` |
| `OrderlyProofs!HandPaidOnce` | `PaidOnce` | in orderly play, with blinds in order |
| `OrderlyProofs!HandHasOneDriver` | `OneDriver` | in orderly play, with blinds in order, if `SmallBlind < BigBlind` |
| `OrderlyProofs!NothingLingers` | `NoLingering` | in orderly play, with blinds in order |
| `OrderlyProofs!StreetsFollowClosedRounds` | `StreetAfterClosed` | in orderly play, with blinds in order |
| `OrderlyProofs!RaisesAreFull` | `RaiseSize` | in orderly play, with blinds in order |
| `PotProofs!PotsHoldEverything` | | the pots of the layers hold all contributions |
| `TableProofs!SettlePaysThePot` | | a settlement credits exactly the pot |
| `ShowdownProofs!PotsTyped` | `TypeOK` | no seat pays more into a pot than it has left |
| `ShowdownProofs!PotsLoseNothing` | `NothingLost` | the loop neither makes nor loses a chip |
| `ShowdownProofs!PotsWithinStakes` | `TableStakes` | what a seat may win is what it matched |
| `ShowdownProofs!PotsAreLayers` | `IsLayered` | the loop makes the layers of `SidePots` |
| `EvalProofs!BestOfSeven` | | the walk of `evaluate` ends with the score of the strongest five |
| `EvalProofs!ScoreOrdersHoldings` | | any two holdings of seven cards, as the rules of poker order them |
| `ShowdownProofs!ScoresOrderHands` | `ScoreIsStrength` | the same, in every deal |
| `ShowdownProofs!PotByPotIsOneStep` | `PaysAsOneStep` | whatever the cards, contributions, folds and ties |
| `HistoryProofs!TypeCorrect` | `TypeOK` | among the rest, no saver outlives its timeout |
| `HistoryProofs!DocumentsAreComplete` | `NothingUnfinished` | no document shows a hand before its end; half a result only of a hand settled again |
| `HistoryProofs!DocumentsAreFinal` | `SavedIsFinal` | a hand left alone is stored as it ended, and stays so |
| `HistoryProofs!SaversDoNotPileUp` | `NoPileUp` | at most one saver, if no hand is settled twice |
| `LobbyProofs!TypeCorrect` | `TypeOK` | channels and queues keep to their capacity |
| `LobbyProofs!RefusedOnlyByRivals` | `RefusedByRivals` | who is refused was overtaken by another client since the manager chose the table, whatever clients do |
| `LobbyProofs!NoGhostsIfPolite` | `NoGhosts` | if `Options = {}` |
| `LobbyProofs!OneChairIfPolite` | `OneChair` | if `Options = {}` |
| `ClientProofs!TypeCorrect` | `TypeOK` | the channel keeps to its capacity |
| `ClientProofs!ViewsCatchUp` | `CatchesUp` | whatever was dropped, but for the turn of a hand that went on after its end |
| `ClientProofs!ViewsShowOneHand` | `OneHandShown` | as long as nothing was dropped, with the same exception |

**Table.** `TypeOK` is not inductive: that a stack stays a natural number
when a raise to some level is paid needs the seat's bet to be at most the level,
and that the seat is one dealt in. The invariant `Inv` adds `Sound(hand)`: bets
within the current bet, bets within what is committed, folded, all-in and acted
among the dealt, and the ledger equation. The proof has three layers:

1. `TableProofs`, first part: each method of a hand takes sound hands to sound hands of the
   same id (`FoldSound` ... `SettleSound`, `StartSound`). The arithmetic is in
   `PutInSound` (chips into the pot), `PayUpSound`/`PayOverSound` (a payment
   within, or making, the level), `CreditSound` and `ShareNat` (awards, which
   rest on a winner existing and a pot's floor lying below its level).
   `NextInFacts` and `NextIsAnother` say that going round the table finds a seat,
   and another one: so the two blinds are different seats.
2. Second part: each function of the actor takes a fit machine to a
   fit machine of the same hand (`ActFit`, `AskFit`, `ChainFit`, ...).
3. One lemma per action, then `NextInv` and the theorems. `Standing` and
   `SeatedCount` are inductive relative to `Inv`.

**Pots.** There is no induction over the layers: there are at most six of them, and
sums over seats are written out. `Telescope` shows that the amounts of the pots up to
layer k add up to what all seats put in below k's level, by a chain through the
layers below it: `AmountIsDifference` says that a pot is the difference of what is
put in below its level and below its floor, and `FloorFacts` that its floor is the
level of the layer before. At the top layer this is everything
(`PotsHoldEverything`). `SharesMakeThePot` divides one pot with its odd chips, and
`TotalSwap` exchanges the two sums, by seat and by pot (`SettlePaysThePot`).

*The loop.* `LoopInv` says what `BuildPots` has done when it has been through the chips
up to some level: what a seat has left is what it put in above that level, the pots
are the layers up to it, in order and with their eligible seats, and a seat may win
from them what all seats put in below the level or its own contribution, whichever
is lower. A turn of the loop takes the level to the least contribution of a live seat
above it; the step that merges dead money takes it to the top. `NothingLost`,
`TableStakes` and `IsLayered` are not inductive without the level, since a pot of the
loop is only known to be a layer by what was left when it was made.

*The award.* `AwardInv` says that after n pots each seat has been paid its parts of the
first n layers, a part being the share of the best scores of that layer and, for the
lowest winning seat, the odd chips. With all pots awarded these are all the parts, and
`Hand`'s settlement pays the same ones if the best scores are the winners of the
ranking. That they are is `ScoreIsStrength`, which the next part proves.

**Scores.** Nothing here is an invariant: it is a theorem about two holdings, for four
suits, every `KickerRadix` above 14 and every `CategoryUnit` that leaves room for five
kickers (the ASSUMEs of `Eval`, which 2^8 and 2^60 satisfy), and for holdings in which no
card occurs twice (the ASSUME of `Showdown`: a deck has every card once). Four steps:

1. *Digits.* `OneDigit` says that x*R + a > y*R + b is decided by x and y first, then by a
   and b; `DigitsInOrder` makes of it that packed scores are compared category first, then
   kicker by kicker, and `UnitDivides` that dividing gives the category back.
2. *Five cards.* `Tally` counts five places; `DescendingIsOrdered` and `GroupsAre` say which
   elements the CHOOSEs of `Descending` and `Groups` are. Five cards are then one of nine
   kinds (`EveryHandStands`, from `Catalogue`, a split by the number of ranks and
   how often each occurs), and for each of them `QuadsWorth` ... `SingleWorth` say what score5
   packs and what the rules say of it.
3. *Kickers.* The rules look at sets of ranks, those that occur most often first; the score
   at a list. `TopsOfOne` ... `TopsOfFive` unfold the comparison of two sets into one from
   the top, and `KickersDecide` puts the two side by side, kind by kind. So `ScoresOfFive`.
4. *Seven cards.* `TheSelections` follows the walk of `evaluate` from one choice to the
   next, `EveryFiveIsChosen` finds every five of seven places among them, and
   `BestOfSeven` takes the greatest score, which belongs to a hand that no other beats.

**Betting.** `Later(h, g)` says that g is h later in the same hand: who is out stays
out and only others have paid. It is transitive and every method of a hand
satisfies it; `ChainMoves`, `NextStreetMoves` and one lemma per action lift it
to steps of the table, and `HandStep` sums them up: a step leads on within the hand,
or begins one, or ends it; and where it shows the hand down, the hand after is
`Settle` of one that has the contributions of the hand before. `ShowdownIsFair`
then follows from the winners of the pots (`PaidWon`) and from the bound of
all pots up to a level (`PaidWithin`). `EntryIsPaid` writes out what
the dead blinds, then the two blinds, take from each seat (`StartDeals`); `DealtTo` holds
on through the first question of the hand, since a new hand has no pre-action waiting.

**Orderly play.** Under `Options \subseteq {"sit_out", "slow"}`, `OrderlyInv` says
what is under way for the hand, and that nothing else is. The table has no hand, or
one that is
- `Open`: the seat to act has chips (or is a small blind whose last chip was
  posted), has no pre-action, and either its turn timer runs or its timeout is the
  only command posted;
- `Pausing`: the round is closed and the next street is the only command posted;
- `Ending`: paid once, in full, and its end is the only command posted;
- `Halted`: stuck by the blinds (section 6), with no command posted at all.

That the hand stands still only in one of these is the work: after an answer the
actor asks the next seat, whose pre-action may fire and ask the next again.
`Asking(m, k)` says that at most k pre-actions are left; each that fires is used up,
so after at most six (`ArmedAtMostSix`) the actor has come to rest (`ChainRests`).
The turn goes on only to a seat that can answer (`AskedWell`), and a street is
scheduled only where `Closed` holds. A command handled is then one the state expects (`UnderWay`), so an old
timer, street or end finds nothing to do (`NothingStale`). `HandHasOneDriver` needs
`SmallBlind < BigBlind`: with equal blinds a small blind that took a seat's last chip
could still be checked, and the seat would hold later streets open as well.

*The refinement.* A hand in play has been paid nothing and is still contested
(`InPlay`, `Contested`); one that has been paid got it once, within what each winner
matched (`Paid`); and a chair without a player has no chips (`EmptyChairs`). From these
`HandPlays` reads off a step within a hand, a whole chain of pre-actions taken together:
live seats may pay or drop out, and if it is the step that ends the hand the pot goes.
A hand that was paid does not change until it is over (`EndedStays`). One lemma per
kind of step (`SitPlays`, `LeavePlays`, `DealPlays`, `BetsPlay`, `EndPlays`, `RestPlays`)
then maps it to a step of `TableMoney` or to a stutter, and `MoneyStep` sums them up.

**History.** `IInv` adds five parts. `AfterSettlement`: a saver exists only for a
settlement the record has had. `InFinalize`: while a record is filled, it is the one
of the hand in play; the savers of that hand are of earlier settlements, so that the
first time there are none, and later the hand is `touched`. `Complete`: the record,
and what a saver has read, sent or left behind, reaches at least to the first
settlement, and is half a result only if the hand is `touched`. `Faithful`: what a
saver has read of a hand nobody touched after it was settled is the record.
`InTime`: as long as no hand is settled twice, a live saver saves the hand in play
and has been at it as long as that hand is settled. So when the hand ends, after
`EndDelay`, a live saver would be older than `SaveTimeout`, which it cannot be:
`NoPileUp` rests on `SaveTimeout < EndDelay` and is false without it.

**Lobby.** `Inv` adds `Counted` (the counter of a table is the number of its occupied
chairs, which no handler may break), `Fresh` (a table not made yet is empty and nobody
is on the way to it), `Purpose` (who posts has logged in and posts to a table that was made)
and `Known` (a command or chair bears a login its session has had). For polite
clients, `Behaved(c)` follows one session's commands through the queues: it logs in
once; it has at most one sit under way, and none while it has the chair of its
table; where it has a chair but is not recorded, its leave is queued; and, the
crux (`LeavesFirst`), *where it still has a chair, its leave is queued ahead of its
next sit*, since both go through one queue in the order it posted them. So a sit
that is handled never finds its user in a chair.

For any clients, `Promised` says that a table at which a client waits for a chair,
and was not overtaken, has room by its counter: the manager saw room when it chose the
table, and only a `HandleSit` for another client, which is an overtaking, takes it.
A refusal finds all chairs taken, so by `Counted` no room: the client was overtaken.

**Client.** The channel makes the difficulty: what is sent now arrives at a view that
messages still under way will have changed. So `IInv` speaks of the views these lead
to: `Unfolds(u, s)` says that u is the view the client has, the one after the next
message, and so on to s, which the message sent next will find. A step of the writer
drops the first of them, a step of the actor that sends adds one. Of the messages a
handler has still to send (`Sending(s)`):
- `Truthful`: each is right about everything it settles, but for the hole cards that
  the start of a hand clears just before they come, and for the turn, about which it
  only repeats what the table said last (`Word`); between hands and after the end of
  one that is no turn, or one of a `reopened` hand (`Loose`);
- `Repairs(s)`: a part of s that none of them will change is right, unless it is stale;
  and one that adds to the view, as a board card does, comes first, so that it is added
  to what it should be;
- `InContext(s)`, while nothing is lost: each is about the hand s shows, or is the one
  that brings it, and s then shows no turn.
`Handled` shows this of each handler, whose messages are written out in their order.
`SentIsRepaired`, `SentKeepsContext`, `SentIsCoherent` and `LostIsStale` show that
sending a message, or losing it, keeps it. A view whose page is gone stays so
(`GoneStays`), and nothing is said of it. With an empty channel s is the view itself:
`CatchesUp`. And every view on the way is `Coherent`, the first one included:
`OneHandShown`.

**Only model-checked.** Liveness (`HandEnds`, `NobodyWaits`, `Stored`, `TurnShown`), which
is beyond this prover. Every other property of the runs is stated by a theorem.

## 6. Where the code does something else than it says

Three runs find a violation of what a comment says:

| run | comment | what the code does |
|---|---|---|
| `pot_paid_twice` | `hand.go:783` the whole pot goes to the winner | a leave between the showdown and the end of the hand runs `maybeFinishStreetOrHand` again: with one seat left the pot is paid a second time |
| `stack_sync` | `table.go:508` sync each player's stack | the loop goes by chair: the player in a leaver's chair gets the leaver's chips in exchange for its own |
| `ghost_chair` | `handler.go:47` remove from any table we were seated on | the session remembers one table; a client that sat twice leaves one chair behind |

Others were met while modelling; the modules take these steps, without a run of
their own:

- *The turn after the round.* `toAct` is "-1 when betting closed" (`hand.go:50`),
  but the seat that closed the round stays to act during the pause, and its
  next action or pre-action schedules the next street a second time. The action
  bar of the web client stays up in the pause, for the same reason (option `late`).
- *A hand that goes on after its end.* On the river such a second street is handled
  when the hand has been shown down (`table.go:760`, whose guard is only for the
  river): it sends a `deal_community` without cards, opens the betting again and sends
  `to_act`, after the `hand_end`; a leave of another player in the pause after the
  showdown moves the turn on, or schedules a street, in the same way (`table.go:194`). Nothing takes that turn
  from the screen until the next one is announced, so `CatchesUp` and `OneHandShown`
  except the turn of such hands (`reopened`).
- *No board.* After a fold-out before the flop `community` is nil, which
  `messages.go:215` sends as `null`, where the client's type has `string[]`
  (`messages.ts:187`); the store puts it in its state and `TableScene.ts:147` takes
  its length, which throws. The page is taken down, unless the next snapshot comes
  before it is drawn.
- *Blinds nobody checks.* `handler.go:129` replaces a pair of zeros; any other pair
  is taken. With blinds of 10 and 5 the small blind has bet above the current bet,
  which `hand.go:53` calls the "highest individual bet"; with 10 and 2 its raise to 4
  is accepted and takes six chips back out of the pot (`hand.go:455`). With -5 and 10
  the small blind posts a negative bet. `Hand` takes all of these; the theorems about
  tables assume `ProperBlinds`.
- *An exact blind.* A stack that equals the blind is not marked all-in
  (`hand.go:276`), so the seat can neither act nor count as done: the round, which
  "ends when every seat that can still act has acted" (`hand.go:500`), never does.
  Likewise heads-up when the blind puts the small blind all-in (`hand.go:259`),
  and when the blinds put everybody all-in (`hand.go:261`): the table waits for an
  action that cannot come. `OneDriver` and `HandEnds` name this as the only way a
  hand gets stuck (`StuckByBlinds`).
- *A short all-in* "does not reopen the action" (`hand.go:476`), but a player
  who has called may raise again after it: nothing in `applyAction` looks at
  `hasActed`.
- *A leave moves the turn.* `maybeFinishStreetOrHand` advances after any leave
  (`table.go:190`, `table.go:730`): the turn passes over a player who has not
  answered, and over two when the leaver was to act.
- *A stale timeout.* One already queued when its turn was answered passes the two
  guards "against stale fires" (`table.go:108`) if the seat is still, or again, to
  act.
- *The odd chip* goes to the lowest winning seat number, not "to first seat after
  button" (`hand.go:640`).
- *The time bank* is replenished for everybody seated and not sitting out, not
  "only for players who actually played this hand" (`table.go:516`).
- *A hand finalized twice.* A leave after the showdown finalizes the record again
  as a fold-out, whose pots and reveals are those of the showdown
  (`hand.go:660-690`); both savers write, in either order, although the document
  is said to be overwritten "with the latest payload" (`mongo.go:69`). A saver of
  the first settlement may also marshal while the second one fills the record
  (`hand.go:664-699`) and store half of each. `History` has both, and calls such a
  hand `touched`.
- *A second login* of a seated session (`handler.go:111`) gives it a new user id:
  the old chair is never left. No comment speaks of it.
- *Replies of the reader* wait for room in its own channel (`handler.go:198`). Once
  the writer has stopped, a seated client whose frames need replies can block its
  reader for ever, and its chair is kept. `NobodyWaits` is stated without option
  `stray`.
- *Dropped messages.* A snapshot repairs the board and the seats in the client's
  view; hole cards, the turn and the showdown stay wrong until the next message of
  their kind. After a dropped `hand_start`, the last hand's cards stay on the
  screen. `CatchesUp` says which part depends on which message.
- *The socket* queues what is sent while it is closed, but nothing ever reconnects
  it (`ws.ts`), so what is queued after a close is never sent.

## 7. What is not modelled, and why

- *Deck*: a shuffled list; a hand never draws more than 17 of its cards. That it has
  every card once is an ASSUME of `Showdown`.
- *Build and deployment files*: no behaviour of the program.
- *Flags, routing, accepting websockets, dialling the database, its indexes,
  closing it*: I/O of libraries. What a library does is modelled where `server/`
  depends on it: a socket that is lost, a write that fails or lands late.
- *Drawing*: `TableScene.ts` and the pages but for the dispatch in `App.tsx` and the
  condition of the action bar; amounts, pots and names in the client's view.
- *The five cards of a result, and the labels of hands*, which are for display.
- *Actors stopping*: at shutdown a session may wait for an actor that has returned
  (`table.go:246`); `main` returns at once, which ends the process, so `Lobby`
  leaves shutdown out and `History` has it.
- *Sizes of the code's integers*: chips are `int`, 64 bits wide, and cannot
  overflow by play; scores fit by the ASSUME of `Eval`.

`PROJECT.json` lists every part, and every hazard with its line.

## 8. Plan

All components whose protocol matters are modelled, and every safety property the runs
check is proved. What is left:

1. A composition of `Lobby` with the table's real eviction, to state that a
   client removed for absence learns of it.
2. The safety part of `TurnShown`: that the channel holds the `to_act` of a turn until
   the view shows it.
