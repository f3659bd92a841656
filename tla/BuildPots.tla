---------------------------- MODULE BuildPots ----------------------------
(* eval.BuildPots (server/internal/eval/sidepot.go:28-98) as the loop the  *)
(* code runs: every step makes one pot from the smallest contribution left *)
(* among the seats that have not folded.  The result is compared with the  *)
(* layers of module SidePots.                                              *)
EXTENDS SidePots, Sequences, FiniteSets, FiniteSetsExt

CONSTANT MaxChips          \* bound on one seat's contribution

ASSUME MaxChipsAssumption == MaxChips \in Nat

VARIABLES contributions,   \* the input, never changed
          folded,          \* the input, never changed
          remaining,       \* what each seat has left to distribute
          pots,            \* the pots made so far
          done             \* the loop has been left

vars == <<contributions, folded, remaining, pots, done>>

Pot == [amount : Nat, eligible : SUBSET Seats]

Init == /\ contributions \in [Seats -> 0..MaxChips]
        /\ folded \in SUBSET Seats
        /\ remaining = contributions
        /\ pots = <<>>
        /\ done = (\A s \in Seats : contributions[s] = 0)

\* Seats with something left that have not folded; the smallest such contribution
\* is the level of the next pot, and no seat puts more than the level into it.
\* The maps are walked in Go's random order, which no result below depends on.
Open == {s \in Seats : remaining[s] > 0 /\ s \notin folded}
Level == Min({remaining[s] : s \in Open})

\* Mutant of Take: the cap at what the seat has left is forgotten.
TakeLevel(s) == Level
Take(s) == Lower(remaining[s], Level)

\* Mutant of Entitled: folded seats share in the pots they paid into.
EntitledFolded == {s \in Seats : remaining[s] >= Level}
\* Mutant of Entitled: a seat whose whole remainder is the level is left out.
EntitledStrict == {s \in Open : remaining[s] > Level}
Entitled == {s \in Open : remaining[s] >= Level}

\* Mutant of Leftover: the dead money of folded seats is not merged.
LeftoverDropped == 0
Leftover == Total(remaining)

MakePot ==
  /\ ~done
  /\ Open # {}
  /\ pots' = Append(pots, [amount   |-> Total([s \in Seats |-> Take(s)]),
                           eligible |-> Entitled])
  /\ remaining' = [s \in Seats |-> remaining[s] - Take(s)]
  /\ done' = (\A s \in Seats : remaining'[s] = 0)
  /\ UNCHANGED <<contributions, folded>>

\* Only folded seats have chips left: dead money, merged into the last pot.
Merged(pot, chips) == [pot EXCEPT !.amount = @ + chips]
MergeDead ==
  /\ ~done
  /\ Open = {}
  /\ pots' = IF pots = <<>> THEN pots
             ELSE [pots EXCEPT ![Len(pots)] = Merged(@, Leftover)]
  /\ done' = TRUE
  /\ UNCHANGED <<contributions, folded, remaining>>

Next == MakePot \/ MergeDead

Spec == Init /\ [][Next]_vars
---------------------------------------------------------------------------
\* Every value stays in its range; in particular no seat pays more than it has left, and
\* there are no more pots than seats.
TypeOK == /\ contributions \in [Seats -> 0..MaxChips]
          /\ folded \in SUBSET Seats
          /\ remaining \in [Seats -> 0..MaxChips]
          /\ pots \in Seq(Pot) /\ Len(pots) <= MaxSeats
          /\ done \in BOOLEAN

\* What the pots of p with their numbers in I hold.
SumOf(p, I) == Total([s \in Seats |-> IF s + 1 \in I THEN p[s + 1].amount ELSE 0])

\* Chips are neither made nor lost while the pots are built (sidepot.go:67-83), and
\* none are left over as soon as one seat can win (sidepot.go:51-63).
NothingLost ==
  /\ ~done => SumOf(pots, DOMAIN pots) + Total(remaining) = Total(contributions)
  /\ done /\ Live(contributions, folded) # {}
       => SumOf(pots, DOMAIN pots) = Total(contributions)

\* The loop's result is the layers of module SidePots, in the order of their levels.
IsLayered ==
  done => LET layers == Layers(contributions, folded)
              Index(k) == Cardinality({o \in layers : contributions[o] <= contributions[k]})
          IN  /\ Len(pots) = Cardinality(layers)
              /\ \A k \in layers :
                    pots[Index(k)] = [amount   |-> Amount(contributions, folded, k),
                                      eligible |-> Eligible(contributions, folded, k)]

\* The table-stakes rule: the pots a seat may win hold at most what it put in itself
\* from every seat, its own chips included, and exactly that; only the largest live
\* contribution also reaches the dead money above it.
TableStakes ==
  done => \A w \in Live(contributions, folded) :
            LET within == SumOf(pots, {i \in DOMAIN pots : w \in pots[i].eligible})
                capped == Total([s \in Seats |-> Lower(contributions[s], contributions[w])])
            IN  within = IF IsTop(contributions, folded, w) THEN Total(contributions) ELSE capped
===========================================================================
