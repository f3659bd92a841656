---------------------------- MODULE Showdown ----------------------------
(* hand.settle (server/internal/table/hand.go:574-655) as the code runs it: *)
(* the loop of eval.BuildPots, then eval.Evaluate7 for every seat that has  *)
(* not folded, then one pot after the other to the best of its eligible     *)
(* seats.  Module Hand takes the whole of it in one step from a ranking of  *)
(* the seats' hands (Settle); here it is compared with that step and with   *)
(* the rules of poker.                                                      *)
EXTENDS BuildPots, Eval

CONSTANTS Dealings,        \* boards and hole cards to try
          OneDealing,      \* the one tried with every contribution
          FewContributions \* the contributions tried with every dealing

ASSUME ShowdownAssumption ==
  /\ Dealings \subseteq [board : [1..5 -> Cards], hole : [Seats -> [1..2 -> Cards]]]
  /\ OneDealing \in Dealings
  /\ FewContributions \subseteq [Seats -> 0..MaxChips]

VARIABLES dealing,         \* the cards, never changed
          awarded,         \* how many of the pots have been paid
          won              \* what each seat has been credited

all == <<vars, dealing, awarded, won>>

Holding(d, s) == [i \in 1..7 |-> IF i <= 2 THEN d.hole[s][i] ELSE d.board[i - 2]]

\* A deck holds every card once (deck.go:12-20), and no card is dealt twice.
ASSUME DealingsAssumption ==
  \A d \in Dealings, s \in Seats :
    \A i, j \in 1..7 : Holding(d, s)[i] = Holding(d, s)[j] => i = j

\* Constant tables, so that TLC evaluates every holding once.
Score == [d \in Dealings |-> [s \in Seats |-> Evaluate7(Holding(d, s))]]
BestFive == [d \in Dealings |-> [s \in Seats |-> Strongest(Holding(d, s))]]
Beaten == [d \in Dealings |->
             [s \in Seats |-> {o \in Seats : StrongerThan(BestFive[d][s], BestFive[d][o])}]]

ShowdownInit ==
  /\ Init
  /\ dealing \in Dealings
  /\ dealing = OneDealing \/ contributions \in FewContributions
  /\ awarded = 0
  /\ won = [s \in Seats |-> 0]

Build == Next /\ UNCHANGED <<dealing, awarded, won>>

\* The best of the seats that may win pot p; folded seats have no result.
\* Mutant of BestSeats: the best hand at the table, not of this pot.
BestOfAll(p) ==
  {s \in Seats \ folded : \A o \in Seats \ folded : Score[dealing][o] <= Score[dealing][s]}
BestSeats(p) ==
  LET results == p.eligible \ folded
  IN  {s \in results : \A o \in results : Score[dealing][o] <= Score[dealing][s]}

AwardPot ==
  /\ done
  /\ awarded < Len(pots)
  /\ LET pot == pots[awarded + 1]
         best == BestSeats(pot)
         n == Cardinality(best)
         Pays(s) == IF s \notin best THEN 0
                    ELSE (pot.amount \div n) + IF s = Min(best) THEN pot.amount % n ELSE 0
     IN  won' = [s \in Seats |-> won[s] + Pays(s)]
  /\ awarded' = awarded + 1
  /\ UNCHANGED <<vars, dealing>>

ShowdownNext == Build \/ AwardPot

ShowdownSpec == ShowdownInit /\ [][ShowdownNext]_all
---------------------------------------------------------------------------
\* Module Hand's whole settlement, with the rules of poker to rank the hands.
Hand == INSTANCE Hand WITH SmallBlind <- 1, BigBlind <- 2
Ranked == [committed |-> contributions, folded |-> folded,
           score |-> [s \in Seats |-> Cardinality(Beaten[dealing][s])]]

\* The integer that eval.go packs orders any two holdings as the rules of poker do, and
\* is equal for hands that tie; its category is the kind of the best five cards
\* (eval.go:50-52, 188-282).
ScoreIsStrength ==
  /\ Score[dealing] \in [Seats -> Nat]
  /\ \A s, o \in Seats :
       /\ Score[dealing][s] > Score[dealing][o] <=> o \in Beaten[dealing][s]
       /\ Score[dealing][s] \div CategoryUnit = Kind(BestFive[dealing][s])

\* Whatever the pots and the hands, settling pot by pot pays every seat what module
\* Hand pays it in one step from the ranking of the hands (hand.go:612-651).
PaysAsOneStep ==
  done /\ awarded = Len(pots) =>
    \A s \in Seats :
      won[s] = Total([k \in Seats |-> IF k \in Layers(contributions, folded)
                                      THEN Hand!Share(Ranked, k, s) ELSE 0])
=========================================================================
