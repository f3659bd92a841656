--------------------------- MODULE TableMoney ---------------------------
(* What a table promises about money, without its rules of play: chips are  *)
(* in a chair's purse, or in front of a player of the current hand, or paid *)
(* into the pot; only players still in the hand pay, and the pot is paid    *)
(* out once, in full, to players still in the hand, each within what it has *)
(* matched.  Module Table is shown to implement this for orderly play       *)
(* (PlaysForMoney in TableProperties).                                      *)
EXTENDS SidePots

VARIABLES
  purse,      \* chips of each chair that are not in the hand
  chips,      \* chips in front of each player of the hand
  paidIn,     \* chips each player has put into this hand's pot
  live,       \* the players who may still win it
  phase       \* "idle", "betting", or "paid" once the pot has gone

money == <<purse, chips, paidIn, live, phase>>

None == [s \in Seats |-> 0]

MoneyType == /\ purse \in [Seats -> Nat]
             /\ chips \in [Seats -> Nat]
             /\ paidIn \in [Seats -> Nat]
             /\ live \subseteq Seats
             /\ phase \in {"idle", "betting", "paid"}

MoneyInit == /\ purse = None /\ chips = None /\ paidIn = None
             /\ live = {}
             /\ phase = "idle"

\* A client buys in at an empty chair, or takes its chips away with it.
BuyIn == /\ \E s \in Seats :
              /\ purse[s] = 0 /\ chips[s] = 0 /\ paidIn[s] = 0
              /\ purse'[s] > 0
              /\ purse' = [purse EXCEPT ![s] = purse'[s]]
         /\ UNCHANGED <<chips, paidIn, live, phase>>

CashOut == /\ \E s \in Seats : purse' = [purse EXCEPT ![s] = 0]
           /\ UNCHANGED <<chips, paidIn, live, phase>>

\* A hand begins: its players bring their purses, and some pay at once.
Deal == /\ phase = "idle"
        /\ phase' = "betting"
        /\ live' # {}
        /\ \A s \in Seats :
             IF s \in live' THEN /\ purse[s] > 0 /\ purse'[s] = 0
                                 /\ chips'[s] + paidIn'[s] = purse[s]
             ELSE /\ purse'[s] = purse[s]
                  /\ chips'[s] = 0 /\ paidIn'[s] = 0

\* What a player has gained, apart from paying into the pot.
Gain(s) == (chips'[s] + paidIn'[s]) - (chips[s] + paidIn[s])

\* In any step of the betting, players may pay and players may drop out.
Bets == /\ phase = "betting"
        /\ live' # {} /\ live' \subseteq live
        /\ \A s \in Seats : /\ paidIn'[s] >= paidIn[s]
                            /\ paidIn'[s] <= paidIn[s] + chips[s]
                            /\ s \notin live => paidIn'[s] = paidIn[s]
        /\ UNCHANGED purse

Wager == /\ Bets
         /\ phase' = "betting"
         /\ \A s \in Seats : Gain(s) = 0

\* The most s may win: from everybody as much as it paid itself, and all of the pot
\* when nobody still in the hand has paid more.
Matched(s) ==
  IF \A o \in live' : paidIn'[o] <= paidIn'[s] THEN Total(paidIn')
  ELSE Total([o \in Seats |-> Lower(paidIn'[o], paidIn'[s])])

PayOut == /\ Bets
          /\ phase' = "paid"
          /\ \A s \in Seats : /\ 0 <= Gain(s)
                              /\ Gain(s) <= IF s \in live' THEN Matched(s) ELSE 0
          /\ Total([s \in Seats |-> Gain(s)]) = Total(paidIn')

\* The hand is over; a player may lose the chair, and leaves with its chips.
Clear == /\ phase = "paid"
         /\ phase' = "idle"
         /\ \A s \in Seats : purse'[s] \in {0, purse[s] + chips[s]}
         /\ chips' = None /\ paidIn' = None
         /\ live' = {}

MoneyNext == BuyIn \/ CashOut \/ Deal \/ Wager \/ PayOut \/ Clear

MoneySpec == MoneyInit /\ [][MoneyNext]_money
=========================================================================
