------------------------------ MODULE Table ------------------------------
(* The table actor: server/internal/table/table.go.  One goroutine handles  *)
(* one command at a time; commands come from the clients' sessions and from *)
(* timers of its own (time.AfterFunc), which post them back when they fire. *)
(*                                                                          *)
(* A client's command is modelled at the moment the actor handles it.  The  *)
(* table's own commands are in `due' from the moment they are scheduled to  *)
(* the moment they are handled, in any order: a delay says when a command   *)
(* is posted at the earliest, and the queue what is handled before it.      *)
(* Broadcasts to clients change no state of the table and are left out.     *)
EXTENDS Hand

CONSTANTS
  Users, Nobody,           \* the clients, and the user of an empty chair
  BuyIns,                  \* chips a client may sit down with
  Deals,                   \* what the deck may hold: how the seats' hands rank
  Intents, PreActions,     \* what clients ask for
  BankUses,                \* time used beyond the base time of a turn
  TimeBankInit, TimeBankPerHand, TimeBankCap,
  MaxConsecutiveTimeouts, MaxSittingOutHands,
  Options,                 \* what clients and timers may do: see below
  MaxHands,                \* bound on the number of hands
  MaxDue,                  \* bound on identical commands under way at once
  MaxFinals,               \* bound on how often one hand is paid out
  MaxTimeouts              \* bound on one player's consecutive timeouts

\* "sit_out": players sit out and in;  "slow": a turn's time runs out;  "leave":
\* players leave during a hand;  "late": the seat the code still shows as to act
\* acts although no turn is open for it;  "twice": a seated user sits again;
\* "race": a player's action is handled while a fired turn timeout is queued;
\* "drop": a timer fires when the command queue is full, and its command is lost.
AllOptions == {"sit_out", "slow", "leave", "late", "twice", "race", "drop"}

ASSUME TableAssumption ==
  /\ Nobody \notin Users
  /\ BuyIns \subseteq Nat \ {0}
  /\ Deals \subseteq [Seats -> Nat]
  /\ Intents \subseteq [kind : ActionKinds, amount : Int]
  /\ PreActions \subseteq Pendings
  /\ BankUses \subseteq Nat
  /\ {TimeBankInit, TimeBankPerHand, TimeBankCap} \subseteq Nat
  /\ TimeBankInit <= TimeBankCap
  /\ {MaxConsecutiveTimeouts, MaxSittingOutHands} \subseteq Nat \ {0}
  /\ Options \subseteq AllOptions
  /\ MaxHands \in Nat /\ {MaxDue, MaxFinals, MaxTimeouts} \subseteq Nat \ {0}

VARIABLES
  seats,        \* t.seats: the player in each chair
  hand,         \* t.hand
  button,       \* t.button
  turn,         \* t.turnHandID, t.turnSeat, and whether t.turnTimer is running
  due,          \* how many of each command of the table's own are under way
  hands,        \* hands dealt so far (gives each its id)
  seatedCount   \* t.seatedCount, which the manager reads

vars == <<seats, hand, button, turn, due, hands, seatedCount>>

Players == [user : Users \cup {Nobody}, stack : Nat, bank : Nat, out : BOOLEAN,
            owes : BOOLEAN, missed : Nat, timeouts : Nat]
NoPlayer == [user |-> Nobody, stack |-> 0, bank |-> 0, out |-> FALSE,
             owes |-> FALSE, missed |-> 0, timeouts |-> 0]

HandIds == 0..MaxHands
NoTurn == [hand |-> 0, seat |-> NoSeat, live |-> FALSE]
Turns == [hand : HandIds, seat : SeatOrNone, live : BOOLEAN]

Commands == [kind : {"start", "advance", "end", "timeout"},
             hand : HandIds, seat : SeatOrNone]
Command(kind, id, s) == [kind |-> kind, hand |-> id, seat |-> s]
StartCmd == Command("start", 0, NoSeat)
AdvanceCmd(id) == Command("advance", id, NoSeat)
EndCmd(id) == Command("end", id, NoSeat)
TimeoutCmd(id, s) == Command("timeout", id, s)

Schedule(d, c) == [d EXCEPT ![c] = @ + 1]
Consume(d, c) == [d EXCEPT ![c] = @ - 1]
WithinBounds(d) == \A c \in Commands : d[c] <= MaxDue
---------------------------------------------------------------------------
Taken == {s \in Seats : seats[s].user # Nobody}
HandOn == hand.id # 0

EligibleForHand(p) == p.user # Nobody /\ ~p.out /\ p.stack > 0
Participants(ss) == {s \in Seats : EligibleForHand(ss[s])}
ActivePlayers(ss) == Cardinality(Participants(ss))

\* The chair a user's command is about: the first one with that user.
ChairOf(u, s) == seats[s].user = u /\ \A o \in Seats : seats[o].user = u => s <= o

\* "if t.activePlayers() >= 2 && t.hand == nil" after sitting down or back in.
ScheduleStart(ss) == IF ActivePlayers(ss) >= 2 /\ ~HandOn THEN Schedule(due, StartCmd) ELSE due
---------------------------------------------------------------------------
(* What the actor does to the hand, the turn timer and its scheduled commands *)
(* while it handles one command.  `ask' says that broadcastToAct is still to  *)
(* run: the code recurses through it for every pre-action that fires.         *)

Machine(h, t, d) == [hand |-> h, turn |-> t, due |-> d, ask |-> FALSE]

EndByFoldOut(m) ==
  [m EXCEPT !.hand = AwardSinglePot(@), !.due = Schedule(@, EndCmd(m.hand.id))]

SettleAndBroadcast(m) ==
  [m EXCEPT !.hand = Settle(@), !.due = Schedule(@, EndCmd(m.hand.id))]

MaybeFinishStreetOrHand(m) ==
  IF Cardinality(NotFolded(m.hand)) <= 1 THEN EndByFoldOut(m)
  ELSE IF ~RoundClosed(m.hand) THEN [m EXCEPT !.hand = Advance(@), !.ask = TRUE]
  ELSE [m EXCEPT !.due = Schedule(@, AdvanceCmd(m.hand.id))]

\* Mutant of Act: the turn timer is left running.
ActKeepsTimer(m, s, intent) ==
  MaybeFinishStreetOrHand([m EXCEPT !.hand = ClearPending(Apply(@, s, intent), s),
                                    !.ask = FALSE])
\* applyActionAndBroadcast for an intent the hand accepts.
Act(m, s, intent) ==
  MaybeFinishStreetOrHand([m EXCEPT !.hand = ClearPending(Apply(@, s, intent), s),
                                    !.turn = NoTurn, !.ask = FALSE])

\* tryResolvePreActionLoop: a pre-action that fits fires, one that does not is dropped.
Resolved(m) == ResolvePending(m.hand, m.hand.toAct)
Fires(m) == Accepts(m.hand, m.hand.toAct, Resolved(m))
\* Mutant of DropStale: a pre-action that no longer fits stays armed.
KeepStale(m) == m
DropStale(m) == IF Resolved(m).kind = "none"
                THEN [m EXCEPT !.hand = ClearPending(@, m.hand.toAct)] ELSE m

ArmTurnTimer(m) ==
  [m EXCEPT !.turn = [hand |-> m.hand.id, seat |-> m.hand.toAct, live |-> TRUE]]

BroadcastToAct(m) ==
  IF m.hand.toAct = NoSeat THEN [m EXCEPT !.ask = FALSE]
  ELSE IF Fires(m) THEN Act(m, m.hand.toAct, Resolved(m))
  ELSE [ArmTurnTimer(DropStale(m)) EXCEPT !.ask = FALSE]

Ask(m) == IF m.ask THEN BroadcastToAct(m) ELSE m

\* A pre-action fires at most once, so six are the most that can fire in a row:
\* with the seventh question the actor is done.
Chain(m) == Ask(Ask(Ask(Ask(Ask(Ask(Ask(m)))))))

Become(m) == /\ hand' = m.hand /\ turn' = m.turn /\ due' = m.due
             /\ WithinBounds(m.due) /\ m.hand.finals <= MaxFinals
---------------------------------------------------------------------------
Init == /\ seats = [s \in Seats |-> NoPlayer]
        /\ hand = NoHand
        /\ button = NoSeat
        /\ turn = NoTurn
        /\ due = [c \in Commands |-> 0]
        /\ hands = 0
        /\ seatedCount = 0

\* seatPlayer takes the first empty chair; the session creates the Player.
FirstFree(s) == /\ seats[s].user = Nobody
                /\ \A o \in Seats : seats[o].user = Nobody => s <= o

Sit(u, chips) ==
  /\ "twice" \in Options \/ \A o \in Seats : seats[o].user # u
  /\ \E s \in Seats :
       /\ FirstFree(s)
       /\ seats' = [seats EXCEPT ![s] =
            [NoPlayer EXCEPT !.user = u, !.stack = chips, !.bank = TimeBankInit,
                             !.owes = HandOn \/ button >= 0]]
  /\ seatedCount' = seatedCount + 1
  /\ due' = ScheduleStart(seats') /\ WithinBounds(due')
  /\ UNCHANGED <<hand, button, turn, hands>>

\* A leaver still in the hand is folded, whoever's turn it is.
FoldLeaver(h, s) == ClearPending(Fold(h, s), s)
LeaveHand(s) ==
  LET gone == FoldLeaver(hand, s)
      m == IF hand.toAct = s THEN Machine(Advance(gone), NoTurn, due)
           ELSE Machine(gone, turn, due)
  IN  Chain(MaybeFinishStreetOrHand(m))

Leave(u) ==
  \E s \in Seats :
    /\ ChairOf(u, s)
    /\ "leave" \in Options \/ ~HandOn
    /\ seats' = [seats EXCEPT ![s] = NoPlayer]
    /\ seatedCount' = seatedCount - 1
    /\ IF s \in NotFolded(hand) THEN Become(LeaveHand(s)) ELSE UNCHANGED <<hand, turn, due>>
    /\ UNCHANGED <<button, hands>>

SitOut(u) ==
  /\ "sit_out" \in Options
  /\ \E s \in Seats : /\ ChairOf(u, s)
                      /\ ~seats[s].out
                      /\ seats' = [seats EXCEPT ![s].out = TRUE]
  /\ UNCHANGED <<hand, button, turn, due, hands, seatedCount>>

SitIn(u) ==
  /\ \E s \in Seats :
       /\ ChairOf(u, s)
       /\ seats[s].out
       /\ seats' = [seats EXCEPT ![s] = [@ EXCEPT !.out = FALSE, !.missed = 0,
                                                  !.owes = TRUE, !.timeouts = 0]]
  /\ due' = ScheduleStart(seats') /\ WithinBounds(due')
  /\ UNCHANGED <<hand, button, turn, hands, seatedCount>>
---------------------------------------------------------------------------
\* The start command finds a hand running or too few players, or starts a hand.
CanStart == ~HandOn /\ ActivePlayers(seats) >= 2

StartInVain ==
  /\ due[StartCmd] > 0
  /\ ~CanStart
  /\ due' = Consume(due, StartCmd)
  /\ UNCHANGED <<seats, hand, button, turn, hands, seatedCount>>

StartReady == due[StartCmd] > 0 /\ CanStart /\ hands < MaxHands
StartHand ==
  /\ StartReady
  /\ LET in == Participants(seats)
         chips == [s \in Seats |-> IF s \in in THEN seats[s].stack ELSE 0]
         owing == {s \in in : seats[s].owes}
     IN  /\ button' = NextIn(button, in)
         /\ \E score \in Deals :
              LET h == NewHand(hands + 1, button', in, chips, score)
                  m == Machine(StartPreflop(h, owing), turn, Consume(due, StartCmd))
              IN  Become(Chain([m EXCEPT !.ask = TRUE]))
         /\ seats' = [s \in Seats |-> IF s \in in THEN [seats[s] EXCEPT !.owes = FALSE]
                                      ELSE seats[s]]
  /\ hands' = hands + 1
  /\ UNCHANGED seatedCount

\* advanceStreet, for a hand that is still this one.
NextStreet(m) ==
  IF m.hand.stage = "river" THEN SettleAndBroadcast(m)
  ELSE LET dealt == DealStreet(m.hand)
           n == [m EXCEPT !.hand = ResetForNextStreet(dealt)]
       IN  IF BettingPossible(n.hand)
           THEN Chain([n EXCEPT !.ask = TRUE])
           ELSE IF dealt.stage = "river" THEN SettleAndBroadcast(n)
           ELSE [n EXCEPT !.due = Schedule(@, AdvanceCmd(m.hand.id))]

AdvanceReady == HandOn /\ due[AdvanceCmd(hand.id)] > 0
AdvanceStreet ==
  /\ AdvanceReady
  /\ Become(NextStreet(Machine(hand, turn, Consume(due, AdvanceCmd(hand.id)))))
  /\ UNCHANGED <<seats, button, hands, seatedCount>>

\* Mutant of Evicted: one hand too late.
EvictedLate(p) == p.stack <= 0 \/ p.missed > MaxSittingOutHands
Evicted(p) == p.stack <= 0 \/ p.missed >= MaxSittingOutHands

\* cleanupHand: chips go back to the chairs, banks grow, players are removed.
AfterHand(s) ==
  LET p == seats[s]
      chips == IF s \in hand.dealt THEN hand.stack[s] ELSE p.stack
      q == IF p.out THEN [p EXCEPT !.stack = chips, !.missed = @ + 1]
           ELSE [p EXCEPT !.stack = chips, !.missed = 0,
                          !.bank = Lower(@ + TimeBankPerHand, TimeBankCap)]
  IN  IF p.user = Nobody \/ Evicted(q) THEN NoPlayer ELSE q

\* Mutant of Removed: players removed for sitting out too long are not counted.
RemovedBroke == {s \in Taken : s \in hand.dealt /\ hand.stack[s] <= 0}
Removed == {s \in Taken : AfterHand(s) = NoPlayer}

EndReady == HandOn /\ due[EndCmd(hand.id)] > 0
EndHand ==
  /\ EndReady
  /\ seats' = [s \in Seats |-> AfterHand(s)]
  /\ seatedCount' = seatedCount - Cardinality(Removed)
  /\ hand' = NoHand
  /\ turn' = NoTurn
  /\ LET d == Consume(due, EndCmd(hand.id))
     IN  due' = IF ActivePlayers(seats') >= 2 THEN Schedule(d, StartCmd) ELSE d
  /\ WithinBounds(due')
  /\ UNCHANGED <<button, hands>>

\* advanceStreetCmd and endHandCmd of a hand that is over are ignored.
StaleCommand ==
  /\ \E id \in 1..MaxHands : \E c \in {AdvanceCmd(id), EndCmd(id)} :
       /\ id # hand.id
       /\ due[c] > 0
       /\ due' = Consume(due, c)
  /\ UNCHANGED <<seats, hand, button, turn, hands, seatedCount>>
---------------------------------------------------------------------------
TimeoutsQueued == \E s \in Seats : due[TimeoutCmd(hand.id, s)] > 0

\* A turn is open for seat s: the timer was armed for it and not cancelled since.
TurnOpen(s) == turn.hand = hand.id /\ turn.seat = s

InOrder(s) == /\ "late" \in Options \/ TurnOpen(s)
              /\ "race" \in Options \/ ~TimeoutsQueued

\* consumeBankFor, `used' being the time beyond the base time.
ConsumeBank(p, used) == [p EXCEPT !.bank = IF @ <= used THEN 0 ELSE @ - used]

\* handleAction for the seat to act.  (Anyone else's action, one that names another
\* hand, and one between hands are answered with an error and change nothing.)
Action(u, intent, used) ==
  /\ HandOn
  /\ \E s \in Seats :
       /\ ChairOf(u, s)
       /\ s = hand.toAct
       /\ InOrder(s)
       /\ seats' = [seats EXCEPT ![s] =
            [ConsumeBank(@, IF TurnOpen(s) THEN used ELSE 0) EXCEPT !.timeouts = 0]]
       /\ IF Accepts(hand, s, intent)
          THEN Become(Chain(Act(Machine(hand, turn, due), s, intent)))
          ELSE UNCHANGED <<hand, turn, due>>
  /\ UNCHANGED <<button, hands, seatedCount>>

\* handlePreAction: arm, or disarm with kind "none"; fires at once in turn.
PreAction(u, p) ==
  /\ HandOn
  /\ \E s \in Seats :
       /\ ChairOf(u, s)
       /\ CanArm(hand, s, p)
       /\ s = hand.toAct => InOrder(s)
       /\ LET m == Machine(SetPending(hand, s, p), turn, due)
          IN  Become(IF s # hand.toAct THEN m
                     ELSE IF Fires(m) THEN Chain(Act(m, s, Resolved(m)))
                     ELSE DropStale(m))
  /\ UNCHANGED <<seats, button, hands, seatedCount>>
---------------------------------------------------------------------------
\* The turn timer's callback runs: from here on Stop cannot recall the timeout.
TurnTimerFires ==
  /\ "slow" \in Options
  /\ turn.live
  /\ turn' = [turn EXCEPT !.live = FALSE]
  /\ due' = Schedule(due, TimeoutCmd(turn.hand, turn.seat)) /\ WithinBounds(due')
  /\ UNCHANGED <<seats, hand, button, hands, seatedCount>>

\* Mutant of TimedOut: the flag is set one timeout too late.
TimedOutLate(p) ==
  [p EXCEPT !.bank = 0, !.timeouts = @ + 1,
            !.out = @ \/ p.timeouts >= MaxConsecutiveTimeouts]
\* A player who does not answer: no bank left, sat out after too many of these.
TimedOut(p) ==
  [p EXCEPT !.bank = 0, !.timeouts = @ + 1,
            !.out = @ \/ p.timeouts + 1 >= MaxConsecutiveTimeouts]

\* Mutant of AutoIntent: the absent player always checks.
AutoCheck(h, s) == [kind |-> "check", amount |-> 0]
AutoIntent(h, s) ==
  [kind |-> IF ToCall(h, s) > 0 THEN "fold" ELSE "check", amount |-> 0]

TimeoutReady == /\ HandOn
                /\ hand.toAct \in hand.dealt
                /\ due[TimeoutCmd(hand.id, hand.toAct)] > 0
TurnTimeout ==
  /\ TimeoutReady
  /\ LET s == hand.toAct
         auto == AutoIntent(hand, s)
         m == Machine(hand, turn, Consume(due, TimeoutCmd(hand.id, s)))
     IN  /\ s \in Taken => seats[s].timeouts < MaxTimeouts
         /\ seats' = IF s \in Taken THEN [seats EXCEPT ![s] = TimedOut(@)] ELSE seats
         /\ Become(IF Accepts(hand, s, auto) THEN Chain(Act(m, s, auto)) ELSE m)
  /\ UNCHANGED <<button, hands, seatedCount>>

\* A timeout of another hand, or of a seat that is not to act, is ignored.
StaleTimeout ==
  /\ \E id \in 1..MaxHands, s \in Seats :
       /\ due[TimeoutCmd(id, s)] > 0
       /\ id # hand.id \/ s # hand.toAct
       /\ due' = Consume(due, TimeoutCmd(id, s))
  /\ UNCHANGED <<seats, hand, button, turn, hands, seatedCount>>

\* scheduleAfter and armTurnTimer post without waiting: into a full queue, nowhere.
Drop ==
  /\ "drop" \in Options
  /\ \E c \in Commands : due[c] > 0 /\ due' = Consume(due, c)
  /\ UNCHANGED <<seats, hand, button, turn, hands, seatedCount>>
---------------------------------------------------------------------------
Next ==
  \/ \E u \in Users, chips \in BuyIns : Sit(u, chips)
  \/ \E u \in Users : Leave(u)
  \/ \E u \in Users : SitOut(u)
  \/ \E u \in Users : SitIn(u)
  \/ StartInVain
  \/ StartHand
  \/ AdvanceStreet
  \/ EndHand
  \/ StaleCommand
  \/ \E u \in Users, intent \in Intents, used \in BankUses : Action(u, intent, used)
  \/ \E u \in Users, p \in PreActions : PreAction(u, p)
  \/ TurnTimerFires
  \/ TurnTimeout
  \/ StaleTimeout
  \/ Drop

\* Timers fire and the actor handles what they post; clients owe nothing.  The last
\* four conjuncts are weak fairness with the enabling condition spelt out: it is the
\* action's guard, and TLC would take too long to find it.
Fairness ==
  /\ WF_vars(TurnTimerFires)
  /\ WF_vars(StartInVain)
  /\ []<>~StartReady \/ []<><<StartHand>>_vars
  /\ []<>~AdvanceReady \/ []<><<AdvanceStreet>>_vars
  /\ []<>~EndReady \/ []<><<EndHand>>_vars
  /\ []<>~TimeoutReady \/ []<><<TurnTimeout>>_vars

Spec == Init /\ [][Next]_vars
FairSpec == Spec /\ Fairness
==========================================================================
