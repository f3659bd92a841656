---------------------------- MODULE SidePots ----------------------------
(* The pots of a hand as a function of what every seat has put in: the    *)
(* result of eval.BuildPots (server/internal/eval/sidepot.go), layer by   *)
(* layer, without its loop.  Module BuildPots checks the loop against     *)
(* these definitions; module Hand pays a showdown out with them.          *)
(*                                                                        *)
(* c[s] is the total contribution of seat s, F the set of folded seats.   *)
EXTENDS Integers

CONSTANT MaxSeats          \* seats at the table (6 in the code)

ASSUME MaxSeatsAssumption == MaxSeats \in 2..6

Seats == 0..(MaxSeats - 1)

Lower(a, b) == IF a <= b THEN a ELSE b

\* The sum of a function over the seats, written out: no seat beyond 5 exists.
At(f, s) == IF s \in Seats THEN f[s] ELSE 0
Total(f) == At(f, 0) + At(f, 1) + At(f, 2) + At(f, 3) + At(f, 4) + At(f, 5)

\* Seats that can still win chips they contributed for.
Live(c, F) == {s \in Seats : c[s] > 0 /\ s \notin F}

\* One seat per pot, the lowest-numbered of those whose contribution is its
\* level: the loop makes a pot for every distinct contribution of a live seat.
Layers(c, F) == {k \in Live(c, F) : \A o \in Live(c, F) : c[o] = c[k] => k <= o}

\* The level of the pot below pot k, 0 below the main pot.
FloorOf(c, F, k) ==
  LET under == {o \in Live(c, F) : c[o] < c[k]}
      next  == {o \in under : \A p \in under : c[p] <= c[o]}
  IN  IF next = {} THEN 0 ELSE c[CHOOSE o \in next : TRUE]

IsTop(c, F, k) == \A o \in Live(c, F) : c[o] <= c[k]

\* What seat s puts into pot k: its chips between the pot's floor and its level;
\* the top pot also takes the dead money folded seats put in above every level.
Slice(c, F, k, s) ==
  LET floor == Lower(c[s], FloorOf(c, F, k))
  IN  IF IsTop(c, F, k) THEN c[s] - floor ELSE Lower(c[s], c[k]) - floor

Amount(c, F, k) == Total([s \in Seats |-> Slice(c, F, k, s)])

\* Mutant of Eligible: a short all-in shares in every side pot.
EligibleForAll(c, F, k) == Live(c, F)
Eligible(c, F, k) == {s \in Live(c, F) : c[s] >= c[k]}
=========================================================================
