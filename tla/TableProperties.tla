------------------------ MODULE TableProperties ------------------------
(* What module Table is to satisfy at a table whose blinds are in order:     *)
(* ProperBlinds, as the web client asks for and the server does not check.   *)
(* The properties of the first part hold whatever the clients and the timers *)
(* do; those of the second part hold as long as play is orderly: nobody      *)
(* leaves during a hand, acts out of turn or races a timeout (Options within *)
(* {"sit_out", "slow"}); those of the third state what comments of the code  *)
(* say and the code does not do.                                             *)
EXTENDS Table

\* Every variable has its type; in particular no seat's chips go below zero: a call,
\* a blind and a raise are capped at the stack (hand.go:268-498).
TypeOK == /\ seats \in [Seats -> Players]
          /\ hand \in Hands /\ hand.id \in HandIds
          /\ button \in SeatOrNone
          /\ turn \in Turns
          /\ due \in [Commands -> Nat]
          /\ hands \in HandIds
          /\ seatedCount \in Int

\* The seats that folded, are all-in or have acted were dealt in, and nobody has bet
\* above the current bet: what applyAction relies on when it subtracts.
HandInOrder ==
  /\ hand.folded \cup hand.allIn \cup hand.acted \subseteq hand.dealt
  /\ \A s \in Seats : hand.bet[s] <= hand.currentBet
  /\ \A s \in Seats : hand.bet[s] <= hand.committed[s]

\* Each seat's chips are accounted for: what it came with and has been paid is
\* what it still has and has committed (hand.go:268-498 and 576-655).
Ledger == \A s \in Seats :
            hand.stack[s] + hand.committed[s] = hand.stackIn[s] + hand.won[s]

\* The count the manager assigns tables by is the number of players seated, whichever
\* way they went (table.go:183, 302, 548 and 556).
SeatedCount == seatedCount = Cardinality(Taken)

\* Nobody keeps a chair or a turn for ever: who missed hands sits out and is removed in
\* time, who times out too often sits out, and no bank outgrows its cap.
Standing ==
  \A s \in Taken : /\ seats[s].missed < MaxSittingOutHands
                   /\ seats[s].missed > 0 => seats[s].out
                   /\ seats[s].timeouts >= MaxConsecutiveTimeouts => seats[s].out
                   /\ seats[s].bank <= TimeBankCap

SameHand == hand'.id = hand.id

\* A seat that folded or is all-in stays so, and pays nothing more into this hand.
OutOfBetting ==
  [][ SameHand => /\ hand.folded \subseteq hand'.folded
                  /\ hand.allIn \subseteq hand'.allIn
                  /\ \A s \in hand.folded \cup hand.allIn :
                        hand'.committed[s] = hand.committed[s] ]_vars

\* At a showdown no folded seat is paid, nobody is paid more than it matched from
\* each seat, and nobody is paid who is beaten by a seat that put in as much.
FairShowdown ==
  [][ SameHand /\ hand'.stage = "showdown" /\ hand.stage # "showdown" =>
        \A s \in Seats :
          LET c == hand.committed
              prize == hand'.won[s] - hand.won[s]
          IN  prize > 0 =>
                /\ s \in NotFolded(hand)
                /\ \A o \in NotFolded(hand) : c[o] >= c[s] => hand.score[o] <= hand.score[s]
                /\ (\E o \in NotFolded(hand) : c[o] > c[s]) =>
                     prize <= Total([o \in Seats |-> Lower(c[o], c[s])]) ]_vars

\* A player who owes a big blind pays one, as far as the stack goes, when next dealt
\* in, and only one: on top of it at most the small blind (table.go:461-497).
EntryPaid ==
  [][ hand'.id > hand.id =>
        \A s \in hand'.dealt :
          LET bb == BigBlindSeat(hand')
              owed == Lower(BigBlind, seats[s].stack)
          IN  /\ seats[s].owes \/ s = bb => hand'.committed[s] >= owed
              /\ s = bb => hand'.committed[s] = owed
              /\ s # bb => hand'.committed[s] <= SmallBlind + IF seats[s].owes THEN owed ELSE 0
    ]_vars
---------------------------------------------------------------------------
\* What will make the hand go on: an open turn, or a command under way.
TurnsUnderWay == IF turn.live /\ TurnOpen(hand.toAct) THEN 1 ELSE 0
TimeoutsUnderWay == IF hand.toAct = NoSeat THEN 0 ELSE due[TimeoutCmd(hand.id, hand.toAct)]
Drivers == TurnsUnderWay + TimeoutsUnderWay + due[AdvanceCmd(hand.id)] + due[EndCmd(hand.id)]

\* The blinds took all the chips of a seat that is still in the hand and, unable to
\* act, keeps the first betting round open (hand.go:259-276).
StuckByBlinds == /\ hand.stage = "preflop"
                 /\ \E s \in NotFolded(hand) \ hand.acted : hand.stack[s] = 0

\* A hand is driven by exactly one of a turn, a pause and its end: never by two, which
\* would deal a street twice, and by none, which leaves it stuck for good, only when
\* a blind took the last chip of a seat.
OneDriver == HandOn => Drivers = 1 \/ (Drivers = 0 /\ StuckByBlinds)

\* The pot is paid out in full, once, and the record finalized once; until then
\* nobody is paid.
PaidOnce ==
  /\ Total(hand.won) = IF hand.finals = 0 THEN 0 ELSE Pot(hand)
  /\ hand.finals <= 1
  /\ due[EndCmd(hand.id)] > 0 => hand.finals = 1

\* A street is dealt, or the hand shown down, only when everybody who still has chips
\* to bet has matched the bet and, unless they are the only one, acted on this street.
StreetAfterClosed ==
  [][ SameHand /\ hand'.stage # hand.stage =>
        \A s \in CanAct(hand) : /\ ToCall(hand, s) <= 0
                                /\ BettingPossible(hand) => s \in hand.acted ]_vars

\* Orderly play is play for money as module TableMoney has it: whatever the rules of
\* betting make the players do, no chip appears, goes or changes hands but by the pot.
PlayersIn == IF HandOn THEN hand.dealt ELSE {}
Money == INSTANCE TableMoney WITH
  purse  <- [s \in Seats |-> IF s \in PlayersIn THEN 0 ELSE seats[s].stack],
  chips  <- [s \in Seats |-> IF HandOn THEN hand.stack[s] ELSE 0],
  paidIn <- [s \in Seats |-> IF HandOn THEN hand.committed[s] ELSE 0],
  live   <- PlayersIn \ hand.folded,
  phase  <- IF ~HandOn THEN "idle" ELSE IF hand.finals = 0 THEN "betting" ELSE "paid"
PlaysForMoney == Money!MoneySpec

\* While betting is open the level rises by a full raise, or by a player going all-in.
RaiseSize ==
  [][ SameHand /\ hand'.stage = hand.stage /\ hand'.currentBet # hand.currentBet =>
        \/ hand'.currentBet - hand.currentBet >= hand.minRaise
        \/ /\ hand'.currentBet > hand.currentBet
           /\ hand'.allIn # hand.allIn ]_vars

\* A pre-action never waits behind an open turn of its own seat, where it would fire
\* later on another bet than the one it was armed for (table.go:934-938).
NoLingering ==
  HandOn /\ hand.toAct # NoSeat /\ TurnOpen(hand.toAct) =>
    hand.pending[hand.toAct].kind = "none"

\* Every hand ends, even if nobody ever answers: one that does not has a seat whose last
\* chip a blind took, and that seat keeps the first betting round open for good.
HandEnds == \A id \in 1..MaxHands : <>[](hand.id = id) => <>[]StuckByBlinds
---------------------------------------------------------------------------
\* hand.go:783-784: "used when only one player is left ... The whole pot (sum of all
\* committed) goes to the winner."  So a hand pays out no more than its pot.
PaysOnlyThePot == Total(hand.won) <= Pot(hand)

\* table.go:508-509: "Sync each player's persistent stack from per-hand stack".  Who
\* still owes a blind during a hand was not dealt in (nobody sits out in this run),
\* and keeps the stack it sat down with.
OwnStackBack ==
  [][ HandOn /\ hand'.id = 0 =>
        \A s \in Taken : seats[s].owes => seats'[s].stack = seats[s].stack ]_vars
========================================================================
