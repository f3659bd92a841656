------------------------ MODULE ShowdownProofs ------------------------
(* The loop of eval.BuildPots makes the layers of module SidePots, loses no  *)
(* chip, and lets nobody win more than it has matched, for any contributions *)
(* and folded seats, at up to six seats; and paying those pots one after the *)
(* other is the settlement module Hand makes in one step.                    *)
EXTENDS Showdown, PotProofs, EvalProofs
---------------------------------------------------------------------------
(* The invariant of the loop. *)

\* The loop has been through all chips up to this level; the pots are the layers below.
Below(level) == {k \in Layers(contributions, folded) : contributions[k] <= level}
Number(k) == Cardinality(UpTo(contributions, folded, k))

\* The chips between two levels, which is what a turn of the loop puts in a pot.
Between(low, high) ==
  Total([s \in Seats |-> Lower(contributions[s], high) - Lower(contributions[s], low)])

Contributors == Live(contributions, folded)

\* After the last turn the top pot holds the dead money as well.
Reached(level) ==
  /\ \A s \in Seats : remaining[s] = contributions[s] - Lower(contributions[s], level)
  /\ level = 0 \/ \E j \in Contributors : contributions[j] = level
  /\ Len(pots) = Cardinality(Below(level))
  /\ \A k \in Below(level) :
       /\ pots[Number(k)].eligible = Eligible(contributions, folded, k)
       /\ pots[Number(k)].amount =
            IF done THEN Amount(contributions, folded, k)
            ELSE Between(FloorOf(contributions, folded, k), contributions[k])
  /\ \A i \in DOMAIN pots : \E k \in Below(level) : Number(k) = i
  /\ done => \A o \in Contributors : contributions[o] <= level

\* What each seat may win so far.
Staked(level) ==
  ~done => \A w \in Contributors :
             SumOf(pots, {i \in DOMAIN pots : w \in pots[i].eligible})
               = Total(Capped(contributions, Lower(contributions[w], level)))

LoopInv == /\ TypeOK /\ NothingLost /\ TableStakes
           /\ \E level \in 0..MaxChips : Reached(level) /\ Staked(level)
---------------------------------------------------------------------------
(* What a list of pots holds. *)

Chips(p, I) == [s \in Seats |-> IF s + 1 \in I THEN p[s + 1].amount ELSE 0]

LEMMA PotFacts ==
  ASSUME NEW p \in Seq(Pot)
  PROVE  \A i \in DOMAIN p : /\ p[i] \in Pot /\ p[i].amount \in Nat
                             /\ p[i].eligible \in SUBSET Seats
<1>1. \A i \in DOMAIN p : p[i] \in Pot
  OBVIOUS
<1>2. \A q \in Pot : q.amount \in Nat /\ q.eligible \in SUBSET Seats
  BY DEF Pot
<1>3. QED
  BY <1>1, <1>2

LEMMA MergedFacts ==
  ASSUME NEW q \in Pot, NEW x \in Nat
  PROVE  /\ Merged(q, x) \in Pot
         /\ Merged(q, x).amount = q.amount + x /\ Merged(q, x).eligible = q.eligible
BY DEF Merged, Pot

LEMMA ChipsFacts ==
  ASSUME NEW p \in Seq(Pot), NEW I \in SUBSET DOMAIN p
  PROVE  /\ Chips(p, I) \in [Seats -> Nat]
         /\ \A s \in Seats : Chips(p, I)[s] = IF s + 1 \in I THEN p[s + 1].amount ELSE 0
         /\ SumOf(p, I) = Total(Chips(p, I)) /\ SumOf(p, I) \in Nat
<1>1. \A i \in I : p[i].amount \in Nat
  BY PotFacts
<1>2. Chips(p, I) \in [Seats -> Nat]
  BY <1>1 DEF Chips
<1>3. SumOf(p, I) = Total(Chips(p, I))
  BY DEF SumOf, Chips
<1>4. QED
  BY <1>2, <1>3, TotalNat DEF Chips

\* A pot more.
LEMMA SumAppend ==
  ASSUME NEW p \in Seq(Pot), NEW q \in Pot, Len(p) < MaxSeats, NEW I \in SUBSET DOMAIN p
  PROVE  /\ SumOf(Append(p, q), I) = SumOf(p, I)
         /\ SumOf(Append(p, q), I \cup {Len(p) + 1}) = SumOf(p, I) + q.amount
<1> DEFINE g == Append(p, q)
           J == I \cup {Len(p) + 1}
           n == Len(p)
           more == [s \in Seats |-> IF s = n THEN q.amount ELSE 0]
<1>1. /\ g \in Seq(Pot) /\ DOMAIN g = 1..(n + 1) /\ DOMAIN p = 1..n /\ n \in Nat
      /\ \A i \in DOMAIN p : g[i] = p[i]
      /\ g[n + 1] = q
  OBVIOUS
<1>2. n \in Seats /\ q.amount \in Nat
  BY <1>1, MaxSeatsAssumption DEF Seats, Pot
<1>3. I \in SUBSET DOMAIN g /\ J \in SUBSET DOMAIN g
  BY <1>1
<1>4. /\ more \in [Seats -> Int] /\ more[n] = q.amount /\ \A s \in Seats \ {n} : more[s] = 0
  BY <1>2
<1> HIDE DEF g, more
<1>5. Chips(g, I) = Chips(p, I)
  <2>1. \A s \in Seats : s + 1 \in I => g[s + 1].amount = p[s + 1].amount
    BY <1>1
  <2>2. QED
    BY <2>1 DEF Chips
<1>6. Total(more) = q.amount
  BY <1>2, <1>4, TotalSingle
<1>7. \A s \in Seats : Chips(g, J)[s] = Chips(p, I)[s] + more[s]
  <2> TAKE s \in Seats
  <2>1. /\ Chips(g, J)[s] = IF s + 1 \in J THEN g[s + 1].amount ELSE 0
        /\ Chips(p, I)[s] = IF s + 1 \in I THEN p[s + 1].amount ELSE 0
        /\ Chips(p, I)[s] \in Nat
    BY <1>1, <1>3, ChipsFacts
  <2>2. CASE s = n
    BY <1>1, <1>2, <1>4, <2>1, <2>2
  <2>3. CASE s # n
    <3>1. s \in Int /\ n \in Int
      BY <1>1, SeatNumbers
    <3>2. s + 1 # n + 1
      BY <2>3, <3>1
    <3>3. s + 1 \in J <=> s + 1 \in I
      BY <3>2
    <3>4. QED
      BY <1>1, <1>4, <2>1, <2>3, <3>3
  <2>4. QED
    BY <2>2, <2>3
<1>8. Chips(g, J) \in [Seats -> Int] /\ Chips(p, I) \in [Seats -> Int]
  BY <1>1, <1>3, ChipsFacts
<1>9. /\ SumOf(g, J) = Total(Chips(g, J)) /\ SumOf(g, I) = Total(Chips(g, I))
      /\ SumOf(p, I) = Total(Chips(p, I))
  BY <1>1, <1>3, ChipsFacts
<1> DEFINE before == Chips(p, I)
           after == Chips(g, J)
<1> HIDE DEF before, after, J
<1>10. Total(after) = Total(before) + Total(more)
  BY <1>4, <1>7, <1>8, TotalPlus DEF before, after
<1>11. SumOf(g, J) = SumOf(p, I) + q.amount
  BY <1>6, <1>9, <1>10 DEF before, after
<1>12. QED
  BY <1>5, <1>9, <1>11 DEF g, J

\* More chips in the last pot.
LEMMA SumRaised ==
  ASSUME NEW p \in Seq(Pot), p # <<>>, Len(p) <= MaxSeats, NEW x \in Nat,
         NEW I \in SUBSET DOMAIN p
  PROVE  LET g == [p EXCEPT ![Len(p)] = Merged(@, x)]
         IN  /\ g \in Seq(Pot) /\ Len(g) = Len(p)
             /\ \A i \in DOMAIN p : /\ g[i].eligible = p[i].eligible
                                    /\ g[i].amount = IF i = Len(p) THEN p[i].amount + x
                                                     ELSE p[i].amount
             /\ SumOf(g, I) = SumOf(p, I) + IF Len(p) \in I THEN x ELSE 0
<1> DEFINE n == Len(p)
           g == [p EXCEPT ![Len(p)] = Merged(@, x)]
           more == [s \in Seats |-> IF s + 1 = n /\ n \in I THEN x ELSE 0]
<1>1. DOMAIN p = 1..n /\ n \in Nat \ {0} /\ n \in DOMAIN p
  OBVIOUS
<1>2. \A i \in DOMAIN p : p[i] \in Pot /\ p[i].amount \in Nat
  BY PotFacts
<1>3. DOMAIN g = DOMAIN p
  OBVIOUS
<1>4. \A i \in DOMAIN p : g[i] = IF i = n THEN Merged(p[i], x) ELSE p[i]
  BY <1>1
<1>5. \A i \in DOMAIN p : /\ g[i] \in Pot /\ g[i].eligible = p[i].eligible
                          /\ g[i].amount = IF i = n THEN p[i].amount + x ELSE p[i].amount
  <2> TAKE i \in DOMAIN p
  <2>1. /\ Merged(p[i], x) \in Pot /\ Merged(p[i], x).amount = p[i].amount + x
        /\ Merged(p[i], x).eligible = p[i].eligible
    BY <1>2, MergedFacts
  <2>2. g[i] = IF i = n THEN Merged(p[i], x) ELSE p[i]
    BY <1>4
  <2> HIDE DEF g
  <2>3. QED
    BY <1>2, <2>1, <2>2
<1> HIDE DEF g
<1>6. g \in Seq(Pot) /\ Len(g) = n
  <2>1. g = [i \in 1..n |-> g[i]]
    BY <1>1, <1>3 DEF g
  <2>2. g \in [1..n -> Pot]
    BY <1>1, <1>5, <2>1
  <2>3. QED
    BY <1>1, <2>2
<1>7. I \in SUBSET DOMAIN g
  BY <1>3
<1>8. more \in [Seats -> Int] /\ \A s \in Seats : more[s] = IF s + 1 = n /\ n \in I THEN x ELSE 0
  OBVIOUS
<1> HIDE DEF more
<1>9. Total(more) = IF n \in I THEN x ELSE 0
  <2>1. n - 1 \in Seats
    BY <1>1, MaxSeatsAssumption DEF Seats
  <2>2. \A s \in Seats : s + 1 = n <=> s = n - 1
    BY <1>1, SeatNumbers
  <2>3. /\ more[n - 1] = IF n \in I THEN x ELSE 0
        /\ \A s \in Seats \ {n - 1} : more[s] = 0
    BY <1>8, <2>1, <2>2
  <2>4. QED
    BY <1>8, <2>1, <2>3, TotalSingle
<1>10. \A s \in Seats : Chips(g, I)[s] = Chips(p, I)[s] + more[s]
  <2> TAKE s \in Seats
  <2>1. /\ Chips(g, I)[s] = IF s + 1 \in I THEN g[s + 1].amount ELSE 0
        /\ Chips(p, I)[s] = IF s + 1 \in I THEN p[s + 1].amount ELSE 0
    BY <1>6, <1>7, ChipsFacts
  <2>2. s + 1 \in I => s + 1 \in DOMAIN p
    OBVIOUS
  <2>3. QED
    BY <1>2, <1>5, <1>8, <2>1, <2>2
<1>11. Chips(g, I) \in [Seats -> Int] /\ Chips(p, I) \in [Seats -> Int]
  BY <1>6, <1>7, ChipsFacts
<1>12. Total(Chips(g, I)) = Total(Chips(p, I)) + Total(more)
  BY <1>8, <1>10, <1>11, TotalPlus
<1>13. SumOf(g, I) = SumOf(p, I) + IF n \in I THEN x ELSE 0
  BY <1>6, <1>7, <1>9, <1>12, ChipsFacts
<1>14. QED
  BY <1>5, <1>6, <1>13 DEF g
---------------------------------------------------------------------------
(* One turn of the loop. *)

\* The smallest live contribution left.
LEMMA LevelFacts ==
  ASSUME TypeOK, Open # {}
  PROVE  /\ Level \in Nat \ {0}
         /\ \E s \in Open : remaining[s] = Level
         /\ \A s \in Open : Level <= remaining[s]
<1> DEFINE left == {remaining[s] : s \in Open}
<1>1. /\ Open \in SUBSET Seats /\ remaining \in [Seats -> Int]
      /\ \A s \in Open : remaining[s] \in Nat \ {0}
  BY DEF TypeOK, Open
<1>2. \E s \in Open : \A o \in Open : remaining[s] <= remaining[o]
  BY <1>1, FirstSeat
<1>3. \E x \in left : \A y \in left : x <= y
  BY <1>2
<1>4. Level \in left /\ \A y \in left : Level <= y
  BY <1>3, Zenon DEF Level, Min
<1>5. QED
  BY <1>1, <1>4

\* The level below and the level reached, seat by seat.
LEMMA TurnFacts ==
  ASSUME TypeOK, NEW low \in 0..MaxChips, Reached(low), Open # {}
  PROVE  LET high == low + Level
         IN  /\ high \in 1..MaxChips /\ low < high
             /\ \E m \in Contributors : contributions[m] = high
             /\ \A s \in Contributors : contributions[s] > low => contributions[s] >= high
             /\ \A s \in Contributors : contributions[s] > low <=> s \in Open
             /\ Entitled = {s \in Contributors : contributions[s] >= high}
             /\ \A s \in Seats :
                  /\ Take(s) \in 0..MaxChips
                  /\ Take(s) = Lower(contributions[s], high) - Lower(contributions[s], low)
                  /\ remaining[s] - Take(s) = contributions[s] - Lower(contributions[s], high)
<1> DEFINE high == low + Level
<1>1. /\ MaxChips \in Nat /\ low \in Nat
      /\ \A s \in Seats : contributions[s] \in 0..MaxChips /\ remaining[s] \in 0..MaxChips
  BY MaxChipsAssumption DEF TypeOK
<1>2. \A s \in Seats : remaining[s] = IF contributions[s] <= low THEN 0
                                      ELSE contributions[s] - low
  BY <1>1 DEF Reached, Lower
<1>3. \A s : s \in Open <=> s \in Seats /\ remaining[s] > 0 /\ s \notin folded
  BY DEF Open
<1>4. \A s : s \in Contributors <=> s \in Seats /\ contributions[s] > 0 /\ s \notin folded
  BY DEF Contributors, Live
<1>5. \A s : s \in Open <=> s \in Contributors /\ contributions[s] > low
  BY <1>1, <1>2, <1>3, <1>4
<1>6. /\ Level \in Nat \ {0} /\ \A s \in Open : Level <= remaining[s]
  BY LevelFacts
<1>7. PICK m \in Open : remaining[m] = Level
  BY LevelFacts
<1>8. m \in Contributors /\ contributions[m] = high /\ high \in 1..MaxChips /\ low < high
  BY <1>1, <1>2, <1>4, <1>5, <1>6, <1>7
<1>9. \A s \in Contributors : contributions[s] > low => contributions[s] >= high
  BY <1>1, <1>2, <1>4, <1>5, <1>6
<1>10. \A s : s \in Entitled <=> s \in Contributors /\ contributions[s] >= high
  BY <1>1, <1>2, <1>4, <1>5, <1>6, <1>9 DEF Entitled
<1>11. ASSUME NEW s \in Seats
       PROVE  /\ Take(s) \in 0..MaxChips
              /\ Take(s) = Lower(contributions[s], high) - Lower(contributions[s], low)
              /\ remaining[s] - Take(s) = contributions[s] - Lower(contributions[s], high)
  BY <1>1, <1>2, <1>6, <1>8 DEF Take, Lower
<1>12. Entitled = {s \in Contributors : contributions[s] >= high}
  BY <1>10
<1>13. QED
  BY <1>5, <1>8, <1>9, <1>11, <1>12
---------------------------------------------------------------------------
(* Counting layers. *)

LEMMA SomeLayers ==
  ASSUME NEW c \in [Seats -> Nat], NEW F, NEW K \in SUBSET Layers(c, F)
  PROVE  /\ IsFiniteSet(K) /\ Cardinality(K) \in Nat /\ Cardinality(K) <= MaxSeats
         /\ Cardinality(K) = 0 <=> K = {}
<1>1. IsFiniteSet(Seats) /\ Cardinality(Seats) = MaxSeats
  <2>1. MaxSeats \in Nat /\ 0 \in Int /\ MaxSeats - 1 \in Int /\ 0 <= MaxSeats - 1
    BY MaxSeatsAssumption
  <2>2. /\ IsFiniteSet(0..(MaxSeats - 1))
        /\ Cardinality(0..(MaxSeats - 1)) = (MaxSeats - 1) - 0 + 1
    BY <2>1, FS_Interval
  <2>3. QED
    BY <2>1, <2>2 DEF Seats
<1>2. K \subseteq Seats
  BY LiveFacts
<1>3. IsFiniteSet(K) /\ Cardinality(K) <= Cardinality(Seats)
  BY <1>1, <1>2, FS_Subset
<1>4. QED
  BY <1>1, <1>3, FS_CardinalityType, FS_EmptySet

\* The number of a layer counts those up to it.
LEMMA NumberFacts ==
  ASSUME NEW c \in [Seats -> Nat], NEW F, NEW K \in SUBSET Layers(c, F), NEW k \in K,
         UpTo(c, F, k) \subseteq K
  PROVE  /\ Cardinality(UpTo(c, F, k)) \in 1..Cardinality(K)
         /\ Cardinality(UpTo(c, F, k)) = Cardinality(K) => \A o \in K : c[o] <= c[k]
<1>1. \A o : o \in UpTo(c, F, k) <=> o \in Layers(c, F) /\ c[o] <= c[k]
  BY DEF UpTo
<1>2. k \in UpTo(c, F, k)
  BY <1>1, LiveFacts
<1>3. IsFiniteSet(K) /\ Cardinality(K) \in Nat
  BY SomeLayers
<1>4. /\ Cardinality(UpTo(c, F, k)) <= Cardinality(K)
      /\ Cardinality(UpTo(c, F, k)) = Cardinality(K) => UpTo(c, F, k) = K
  BY <1>3, FS_Subset
<1>5. UpTo(c, F, k) \in SUBSET Layers(c, F) /\ UpTo(c, F, k) # {}
  BY <1>1, <1>2
<1>6. Cardinality(UpTo(c, F, k)) \in Nat \ {0}
  BY <1>5, SomeLayers
<1>7. QED
  BY <1>1, <1>3, <1>4, <1>6

LEMMA BelowFacts ==
  ASSUME TypeOK, NEW level \in 0..MaxChips
  PROVE  /\ contributions \in [Seats -> Nat]
         /\ Below(level) \in SUBSET Layers(contributions, folded)
         /\ \A k \in Layers(contributions, folded) :
              k \in Below(level) <=> contributions[k] <= level
         /\ \A k \in Below(level) :
              /\ k \in Contributors /\ k \in Seats
              /\ UpTo(contributions, folded, k) \subseteq Below(level)
              /\ Number(k) \in 1..Cardinality(Below(level))
              /\ Number(k) = Cardinality(Below(level))
                   => \A o \in Below(level) : contributions[o] <= contributions[k]
<1>1. contributions \in [Seats -> Nat] /\ level \in Nat
  BY MaxChipsAssumption DEF TypeOK
<1>2. \A k : k \in Below(level) <=>
               k \in Layers(contributions, folded) /\ contributions[k] <= level
  BY DEF Below
<1>3. \A k \in Below(level) : UpTo(contributions, folded, k) \subseteq Below(level)
  <2> TAKE k \in Below(level)
  <2>1. \A o : o \in UpTo(contributions, folded, k) <=>
                 o \in Layers(contributions, folded) /\ contributions[o] <= contributions[k]
    BY DEF UpTo
  <2>2. \A o \in Layers(contributions, folded) : contributions[o] \in Nat
    BY <1>1, LiveFacts
  <2>3. QED
    BY <1>1, <1>2, <2>1, <2>2
<1>4. Below(level) \in SUBSET Layers(contributions, folded)
  BY <1>2
<1>5. \A k \in Below(level) :
        /\ Number(k) \in 1..Cardinality(Below(level))
        /\ Number(k) = Cardinality(Below(level))
             => \A o \in Below(level) : contributions[o] <= contributions[k]
  BY <1>1, <1>3, <1>4, NumberFacts DEF Number
<1>6. \A k \in Below(level) : k \in Contributors /\ k \in Seats
  BY <1>1, <1>4, LiveFacts DEF Contributors
<1>7. QED
  BY <1>1, <1>2, <1>3, <1>4, <1>5, <1>6

\* The turn of the loop makes the layer above those made.
LEMMA NewLayer ==
  ASSUME TypeOK, NEW low \in 0..MaxChips, Reached(low), Open # {}
  PROVE  LET high == low + Level
         IN  /\ Len(pots) < MaxSeats
             /\ Cardinality(Below(high)) = Len(pots) + 1
             /\ \E k \in Layers(contributions, folded) \ Below(low) :
                  /\ contributions[k] = high /\ Below(high) = Below(low) \cup {k}
                  /\ FloorOf(contributions, folded, k) = low
                  /\ Number(k) = Len(pots) + 1
                  /\ Entitled = Eligible(contributions, folded, k)
<1> DEFINE high == low + Level
<1>1. /\ high \in 1..MaxChips /\ low < high /\ low \in Nat /\ high \in 0..MaxChips
      /\ \E m \in Contributors : contributions[m] = high
      /\ \A s \in Contributors : contributions[s] > low => contributions[s] >= high
      /\ Entitled = {s \in Contributors : contributions[s] >= high}
  BY MaxChipsAssumption, TurnFacts
<1>2. contributions \in [Seats -> Nat] /\ \A s \in Contributors : contributions[s] \in Nat
  BY BelowFacts, LiveFacts DEF Contributors
<1> HIDE DEF high
<1>3. PICK k \in Layers(contributions, folded) : contributions[k] = high
  BY <1>1, <1>2, HasLayer DEF Contributors
<1>4. \A o \in Layers(contributions, folded) :
        /\ o \in Contributors
        /\ o \in Below(low) <=> contributions[o] <= low
        /\ o \in Below(high) <=> contributions[o] <= high
        /\ contributions[o] = high => o = k
  BY <1>1, <1>2, <1>3, BelowFacts, LiveFacts DEF Contributors
<1>5. k \notin Below(low) /\ k \in Contributors
  BY <1>1, <1>3, <1>4
<1>6. Below(high) = Below(low) \cup {k}
  <2>1. \A o \in Layers(contributions, folded) :
          contributions[o] <= high <=> contributions[o] <= low \/ contributions[o] = high
    BY <1>1, <1>2, <1>4
  <2>2. \A o \in Layers(contributions, folded) : o \in Below(high) <=> o \in Below(low) \/ o = k
    BY <1>3, <1>4, <2>1
  <2>3. /\ Below(high) \subseteq Layers(contributions, folded)
        /\ Below(low) \subseteq Layers(contributions, folded)
    BY <1>1, BelowFacts
  <2>4. QED
    BY <1>3, <2>2, <2>3
<1>7. FloorOf(contributions, folded, k) = low
  <2>1. CASE /\ FloorOf(contributions, folded, k) = 0
             /\ \A o \in Contributors : contributions[k] <= contributions[o]
    BY <1>1, <1>2, <1>3, <2>1 DEF Reached
  <2>2. ASSUME NEW i \in Layers(contributions, folded),
               FloorOf(contributions, folded, k) = contributions[i],
               contributions[i] < contributions[k],
               \A o \in Contributors : contributions[o] < contributions[k]
                                         => contributions[o] <= contributions[i]
        PROVE  FloorOf(contributions, folded, k) = low
    <3>1. i \in Contributors /\ contributions[i] \in Nat /\ contributions[i] > 0
      BY <1>2, <1>4, LiveFacts DEF Contributors
    <3>2. contributions[i] <= low
      BY <1>1, <1>3, <2>2, <3>1
    <3>3. CASE low = 0
      BY <2>2, <3>1, <3>2, <3>3
    <3>4. ASSUME NEW j \in Contributors, contributions[j] = low
          PROVE  FloorOf(contributions, folded, k) = low
      BY <1>1, <1>3, <2>2, <3>1, <3>2, <3>4
    <3>5. QED
      BY <3>3, <3>4 DEF Reached
  <2>3. QED
    BY <1>2, <1>5, <2>1, <2>2, FloorFacts DEF Contributors
<1>8. Len(pots) = Cardinality(Below(low))
  BY DEF Reached
<1>9. IsFiniteSet(Below(low)) /\ Cardinality(Below(high)) = Len(pots) + 1
  <2>1. IsFiniteSet(Below(low))
    BY <1>2, BelowFacts, SomeLayers
  <2>2. Cardinality(Below(low) \cup {k}) = Cardinality(Below(low)) + 1
    BY <1>5, <2>1, FS_AddElement
  <2>3. QED
    BY <1>6, <1>8, <2>1, <2>2
<1>10. Cardinality(Below(high)) <= MaxSeats /\ Len(pots) \in Nat
  BY <1>1, <1>2, <1>8, BelowFacts, SomeLayers
<1>11. Number(k) = Len(pots) + 1
  <2>1. \A o : o \in UpTo(contributions, folded, k) <=> o \in Below(high)
    BY <1>3 DEF UpTo, Below
  <2>2. UpTo(contributions, folded, k) = Below(high)
    BY <2>1, Zenon
  <2>3. QED
    BY <1>9, <2>2 DEF Number
<1>12. Entitled = Eligible(contributions, folded, k)
  BY <1>1, <1>3 DEF Eligible, Contributors
<1>13. Len(pots) < MaxSeats
  BY <1>9, <1>10, MaxSeatsAssumption
<1>14. QED
  BY <1>3, <1>5, <1>6, <1>7, <1>9, <1>11, <1>12, <1>13 DEF high
---------------------------------------------------------------------------
(* The chips of a turn. *)

LEMMA CappedSums ==
  ASSUME TypeOK, NEW low \in 0..MaxChips, NEW high \in 0..MaxChips, low <= high
  PROVE  /\ Between(low, high) \in Nat
         /\ Total(Capped(contributions, high)) \in Nat
         /\ Total(Capped(contributions, low)) \in Nat
         /\ Total(Capped(contributions, high))
              = Total(Capped(contributions, low)) + Between(low, high)
<1> DEFINE part == [s \in Seats |-> Lower(contributions[s], high) - Lower(contributions[s], low)]
<1>1. contributions \in [Seats -> Nat] /\ low \in Nat /\ high \in Nat
  BY MaxChipsAssumption DEF TypeOK
<1>2. /\ Capped(contributions, high) \in [Seats -> Nat]
      /\ Capped(contributions, low) \in [Seats -> Nat]
      /\ \A s \in Seats : /\ Capped(contributions, high)[s] = Lower(contributions[s], high)
                          /\ Capped(contributions, low)[s] = Lower(contributions[s], low)
  BY <1>1, CappedFacts
<1>3. \A s \in Seats : Lower(contributions[s], high) - Lower(contributions[s], low) \in Nat
  BY <1>1 DEF Lower
<1>4. part \in [Seats -> Nat] /\ Between(low, high) = Total(part)
  BY <1>3 DEF Between
<1>5. \A s \in Seats : Capped(contributions, high)[s] = Capped(contributions, low)[s] + part[s]
  BY <1>2, <1>3
<1> HIDE DEF part
<1>6. Total(Capped(contributions, high)) = Total(Capped(contributions, low)) + Total(part)
  BY <1>2, <1>4, <1>5, TotalPlus
<1>7. QED
  BY <1>2, <1>4, <1>6, TotalNat

\* What is left over above a level.
LEMMA LeftAbove ==
  ASSUME TypeOK, NEW level \in 0..MaxChips, NEW left \in [Seats -> Nat],
         \A s \in Seats : left[s] = contributions[s] - Lower(contributions[s], level)
  PROVE  /\ Total(left) \in Nat /\ Total(contributions) \in Nat
         /\ Total(contributions) = Total(Capped(contributions, level)) + Total(left)
<1>1. contributions \in [Seats -> Nat] /\ level \in Nat
  BY MaxChipsAssumption DEF TypeOK
<1>2. /\ Capped(contributions, level) \in [Seats -> Nat]
      /\ \A s \in Seats : Capped(contributions, level)[s] = Lower(contributions[s], level)
                          /\ Lower(contributions[s], level) \in Nat
  BY <1>1, CappedFacts
<1>3. \A s \in Seats : contributions[s] = Capped(contributions, level)[s] + left[s]
  BY <1>1, <1>2
<1>4. Total(contributions) = Total(Capped(contributions, level)) + Total(left)
  BY <1>1, <1>2, <1>3, TotalPlus
<1>5. QED
  BY <1>1, <1>4, TotalNat

\* The pot of a layer, dead money apart, is what a turn of the loop puts into it.
LEMMA PlainAmount ==
  ASSUME TypeOK, NEW k \in Contributors,
         \/ ~IsTop(contributions, folded, k)
         \/ \A s \in Seats : contributions[s] <= contributions[k]
  PROVE  Amount(contributions, folded, k)
           = Between(FloorOf(contributions, folded, k), contributions[k])
<1> DEFINE floor == FloorOf(contributions, folded, k)
           slice == [s \in Seats |-> Slice(contributions, folded, k, s)]
           part == [s \in Seats |-> Lower(contributions[s], contributions[k])
                                      - Lower(contributions[s], floor)]
<1>1. contributions \in [Seats -> Nat] /\ contributions[k] \in Nat
  BY MaxChipsAssumption, LiveFacts DEF TypeOK, Contributors
<1>2. ASSUME NEW s \in Seats PROVE slice[s] = part[s]
  <2>1. slice[s] = IF IsTop(contributions, folded, k)
                   THEN contributions[s] - Lower(contributions[s], floor) ELSE part[s]
    BY DEF Slice
  <2>2. CASE ~IsTop(contributions, folded, k)
    BY <2>1, <2>2
  <2>3. CASE contributions[s] <= contributions[k]
    BY <1>1, <2>1, <2>3 DEF Lower
  <2>4. QED
    BY <2>2, <2>3
<1>3. slice = part
  BY <1>2
<1>4. QED
  BY <1>3 DEF Amount, Between

\* The top pot takes the dead money too.
LEMMA TopAmount ==
  ASSUME TypeOK, NEW k \in Contributors, IsTop(contributions, folded, k),
         NEW left \in [Seats -> Nat],
         \A s \in Seats : left[s] = contributions[s] - Lower(contributions[s], contributions[k])
  PROVE  Amount(contributions, folded, k)
           = Between(FloorOf(contributions, folded, k), contributions[k]) + Total(left)
<1> DEFINE floor == FloorOf(contributions, folded, k)
           slice == [s \in Seats |-> Slice(contributions, folded, k, s)]
           part == [s \in Seats |-> Lower(contributions[s], contributions[k])
                                      - Lower(contributions[s], floor)]
<1>1. contributions \in [Seats -> Nat] /\ contributions[k] \in Nat /\ floor \in Nat
  BY MaxChipsAssumption, LiveFacts, AmountIsDifference DEF TypeOK, Contributors
<1> HIDE DEF floor
<1>2. \A s \in Seats : /\ Lower(contributions[s], floor) \in Nat
                       /\ Lower(contributions[s], contributions[k]) \in Nat
                       /\ contributions[s] \in Nat
  BY <1>1, LowerFacts
<1>3. \A s \in Seats : slice[s] = contributions[s] - Lower(contributions[s], floor)
  BY DEF Slice, floor
<1>4. slice \in [Seats -> Int] /\ part \in [Seats -> Int]
  <2>1. slice = [s \in Seats |-> contributions[s] - Lower(contributions[s], floor)]
    BY <1>3
  <2>2. QED
    BY <1>2, <2>1
<1>5. \A s \in Seats : slice[s] = part[s] + left[s]
  BY <1>2, <1>3
<1>6. Amount(contributions, folded, k) = Total(slice)
  BY DEF Amount
<1>7. Between(floor, contributions[k]) = Total(part)
  BY DEF Between
<1> HIDE DEF slice, part
<1>8. Total(slice) = Total(part) + Total(left)
  BY <1>4, <1>5, TotalPlus
<1>9. QED
  BY <1>6, <1>7, <1>8 DEF floor
---------------------------------------------------------------------------
(* Every step keeps the invariant. *)

\* A pot is made: its chips, and who may win it.
LEMMA MadePot ==
  ASSUME LoopInv, NEW low \in 0..MaxChips, Reached(low), MakePot,
         NEW high, high = low + Level
  PROVE  LET pot == [amount |-> Between(low, high), eligible |-> Entitled]
         IN  /\ high \in 1..MaxChips /\ low < high
             /\ pot \in Pot /\ pots' = Append(pots, pot)
             /\ remaining' \in [Seats -> 0..MaxChips]
             /\ \A s \in Seats : remaining'[s] = contributions[s] - Lower(contributions[s], high)
             /\ done' = TRUE => \A s \in Seats : contributions[s] <= high
             /\ Len(pots) < MaxSeats
             /\ SumOf(pots, DOMAIN pots) = Total(Capped(contributions, low))
<1> DEFINE pot == [amount |-> Between(low, high), eligible |-> Entitled]
<1>1. TypeOK /\ Open # {} /\ done = FALSE
  BY DEF LoopInv, TypeOK, MakePot
<1>2. high \in 1..MaxChips /\ low < high /\ low \in Nat /\ high \in 0..MaxChips
  BY <1>1, MaxChipsAssumption, TurnFacts
<1>3. \A s \in Seats :
        /\ Take(s) \in 0..MaxChips
        /\ Take(s) = Lower(contributions[s], high) - Lower(contributions[s], low)
        /\ remaining[s] - Take(s) = contributions[s] - Lower(contributions[s], high)
  BY <1>1, TurnFacts
<1>4. Total([s \in Seats |-> Take(s)]) = Between(low, high)
  <2>1. [s \in Seats |-> Take(s)]
          = [s \in Seats |-> Lower(contributions[s], high) - Lower(contributions[s], low)]
    BY <1>3
  <2>2. QED
    BY <2>1 DEF Between
<1>5. pots' = Append(pots, pot)
  BY <1>4 DEF MakePot
<1>6. pot \in Pot
  <2>1. Between(low, high) \in Nat
    BY <1>1, <1>2, CappedSums
  <2>2. Entitled \in SUBSET Seats
    BY DEF Entitled, Open
  <2>3. QED
    BY <2>1, <2>2 DEF Pot
<1>7. contributions \in [Seats -> 0..MaxChips] /\ remaining \in [Seats -> 0..MaxChips]
  BY <1>1 DEF TypeOK
<1>8. remaining' = [s \in Seats |-> remaining[s] - Take(s)]
  BY DEF MakePot
<1>9. \A s \in Seats : remaining'[s] = contributions[s] - Lower(contributions[s], high)
  BY <1>3, <1>8
<1>10. \A s \in Seats : contributions[s] - Lower(contributions[s], high) \in 0..MaxChips
  BY <1>2, <1>7, MaxChipsAssumption DEF Lower
<1>11. remaining' \in [Seats -> 0..MaxChips]
  BY <1>8, <1>9, <1>10
<1>12. done' = TRUE => \A s \in Seats : contributions[s] <= high
  <2>1. done' = TRUE => \A s \in Seats : remaining'[s] = 0
    BY DEF MakePot
  <2>2. QED
    BY <1>2, <1>7, <1>9, <2>1, MaxChipsAssumption DEF Lower
<1>13. Len(pots) < MaxSeats
  BY <1>1, NewLayer
<1>14. SumOf(pots, DOMAIN pots) = Total(Capped(contributions, low))
  <2>1. SumOf(pots, DOMAIN pots) + Total(remaining) = Total(contributions)
    BY <1>1 DEF LoopInv, NothingLost
  <2>2. remaining \in [Seats -> Nat] /\ low <= low
    BY <1>2, <1>7
  <2>3. /\ Total(contributions) = Total(Capped(contributions, low)) + Total(remaining)
        /\ Total(remaining) \in Nat
    BY <1>1, <2>2, LeftAbove DEF Reached
  <2>4. Total(Capped(contributions, low)) \in Nat /\ SumOf(pots, DOMAIN pots) \in Nat
    BY <1>1, <2>2, CappedSums, ChipsFacts DEF TypeOK
  <2>5. QED
    BY <2>1, <2>3, <2>4
<1>15. QED
  BY <1>2, <1>5, <1>6, <1>9, <1>11, <1>12, <1>13, <1>14

\* The layers made so far.
LEMMA MadeLayers ==
  ASSUME LoopInv, NEW low \in 0..MaxChips, Reached(low), MakePot,
         NEW high, high = low + Level
  PROVE  Reached(high)'
<1> DEFINE pot == [amount |-> Between(low, high), eligible |-> Entitled]
<1>1. TypeOK /\ Open # {} /\ done = FALSE
  BY DEF LoopInv, TypeOK, MakePot
<1>2. contributions' = contributions /\ folded' = folded
  BY DEF MakePot
<1> HIDE DEF pot
<1>3. /\ high \in 1..MaxChips /\ low < high
      /\ pots' = Append(pots, pot)
      /\ \A s \in Seats : remaining'[s] = contributions[s] - Lower(contributions[s], high)
      /\ done' = TRUE => \A s \in Seats : contributions[s] <= high
  BY MadePot DEF pot
<1>0. low \in Nat /\ high \in Nat
  BY <1>3, MaxChipsAssumption
<1>4. PICK k \in Layers(contributions, folded) \ Below(low) :
        /\ contributions[k] = high /\ Below(high) = Below(low) \cup {k}
        /\ FloorOf(contributions, folded, k) = low
        /\ Number(k) = Len(pots) + 1
        /\ Entitled = Eligible(contributions, folded, k)
  BY <1>1, NewLayer
<1>5. Cardinality(Below(high)) = Len(pots) + 1 /\ Len(pots) = Cardinality(Below(low))
  BY <1>1, NewLayer DEF Reached
<1>6. \E m \in Contributors : contributions[m] = high
  BY <1>1, TurnFacts
<1>7. \A o \in Below(low) :
        /\ o \in Contributors /\ Number(o) \in 1..Len(pots)
        /\ contributions[o] \in Nat /\ contributions[o] <= low
        /\ pots[Number(o)].eligible = Eligible(contributions, folded, o)
        /\ pots[Number(o)].amount
             = Between(FloorOf(contributions, folded, o), contributions[o])
  BY <1>1, <1>5, BelowFacts DEF Reached
<1>8. contributions \in [Seats -> 0..MaxChips] /\ pots \in Seq(Pot) /\ k \in Contributors
  BY <1>1, BelowFacts, LiveFacts DEF TypeOK, Contributors
<1>9. pot.amount = Between(low, high) /\ pot.eligible = Entitled
  BY DEF pot
<1>10. /\ Len(pots') = Len(pots) + 1 /\ pots'[Len(pots) + 1] = pot
       /\ \A i \in 1..Len(pots) : pots'[i] = pots[i]
  BY <1>3, <1>8
<1>11. ASSUME NEW o \in Below(high)
       PROVE  /\ pots'[Number(o)].eligible = Eligible(contributions, folded, o)
              /\ pots'[Number(o)].amount
                   = Between(FloorOf(contributions, folded, o), contributions[o])
              /\ done' = TRUE => Amount(contributions, folded, o)
                          = Between(FloorOf(contributions, folded, o), contributions[o])
  <2>1. CASE o = k
    <3>1. done' = TRUE => Amount(contributions, folded, k)
                   = Between(FloorOf(contributions, folded, k), contributions[k])
      BY <1>1, <1>3, <1>4, <1>8, PlainAmount
    <3>2. QED
      BY <1>4, <1>9, <1>10, <2>1, <3>1
  <2>2. CASE o \in Below(low)
    <3>1. ~IsTop(contributions, folded, o)
      BY <1>0, <1>3, <1>6, <1>7, <2>2 DEF IsTop, Contributors
    <3>2. Amount(contributions, folded, o)
            = Between(FloorOf(contributions, folded, o), contributions[o])
      BY <1>1, <1>7, <2>2, <3>1, PlainAmount
    <3>3. pots'[Number(o)] = pots[Number(o)]
      BY <1>7, <1>10, <2>2
    <3>4. QED
      BY <1>7, <2>2, <3>2, <3>3
  <2>3. QED
    BY <1>4, <2>1, <2>2
<1>12. done' = TRUE => \A o \in Contributors : contributions[o] <= high
  BY <1>3 DEF Contributors, Live
<1>13. done' \in BOOLEAN
  BY DEF MakePot
<1>14. /\ Below(high)' = Below(high) /\ Contributors' = Contributors
       /\ \A o : Number(o)' = Number(o)
       /\ \A a, b : Between(a, b)' = Between(a, b)
  BY <1>2 DEF Below, Contributors, Number, Between
<1>15. \A i \in DOMAIN pots' : \E o \in Below(high) : Number(o) = i
  <2>1. \A i \in DOMAIN pots : \E o \in Below(low) : Number(o) = i
    BY DEF Reached
  <2>2. DOMAIN pots' = DOMAIN pots \cup {Len(pots) + 1}
    BY <1>3, <1>8
  <2>3. QED
    BY <1>4, <2>1, <2>2
<1>16. QED
  BY <1>2, <1>3, <1>5, <1>6, <1>10, <1>11, <1>12, <1>13, <1>14, <1>15 DEF Reached

\* What each seat may win of the pots made so far.
LEMMA MadeShares ==
  ASSUME LoopInv, NEW low \in 0..MaxChips, Reached(low), Staked(low), MakePot,
         NEW high, high = low + Level, NEW w \in Contributors
  PROVE  SumOf(pots', {i \in DOMAIN pots' : w \in pots'[i].eligible})
           = Total(Capped(contributions, Lower(contributions[w], high)))
<1> DEFINE pot == [amount |-> Between(low, high), eligible |-> Entitled]
           I == {i \in DOMAIN pots : w \in pots[i].eligible}
           J == {i \in DOMAIN pots' : w \in pots'[i].eligible}
<1>1. TypeOK /\ Open # {} /\ done = FALSE
  BY DEF LoopInv, TypeOK, MakePot
<1> HIDE DEF pot
<1>2. /\ high \in 1..MaxChips /\ low < high /\ pot \in Pot /\ pots' = Append(pots, pot)
      /\ Len(pots) < MaxSeats
      /\ SumOf(pots, DOMAIN pots) = Total(Capped(contributions, low))
  BY MadePot DEF pot
<1>3. low \in Nat /\ high \in Nat /\ high \in 0..MaxChips
  BY <1>2, MaxChipsAssumption
<1>4. /\ contributions[w] \in Nat
      /\ contributions[w] > low => contributions[w] >= high
      /\ w \in Entitled <=> contributions[w] >= high
  <2>1. contributions[w] \in Nat
    BY <1>1, MaxChipsAssumption DEF TypeOK, Contributors, Live
  <2>2. QED
    BY <1>1, <2>1, TurnFacts
<1>5. pots \in Seq(Pot) /\ pot.eligible = Entitled /\ pot.amount = Between(low, high)
  BY <1>1 DEF TypeOK, pot
<1>6. /\ DOMAIN pots' = DOMAIN pots \cup {Len(pots) + 1}
      /\ \A i \in DOMAIN pots : pots'[i] = pots[i]
      /\ pots'[Len(pots) + 1] = pot /\ Len(pots) + 1 \notin DOMAIN pots
  BY <1>2, <1>5
<1>7. SumOf(pots, I) = Total(Capped(contributions, Lower(contributions[w], low)))
  BY <1>1 DEF Staked
<1>8. CASE contributions[w] < high
  <2>1. J = I
    BY <1>3, <1>4, <1>5, <1>6, <1>8
  <2>2. SumOf(pots', I) = SumOf(pots, I)
    BY <1>2, <1>5, SumAppend
  <2>3. Lower(contributions[w], low) = Lower(contributions[w], high)
    BY <1>2, <1>3, <1>4, <1>8 DEF Lower
  <2>4. QED
    BY <1>7, <2>1, <2>2, <2>3
<1>9. CASE contributions[w] >= high
  <2>1. J = I \cup {Len(pots) + 1}
    BY <1>4, <1>5, <1>6, <1>9
  <2>2. SumOf(pots', I \cup {Len(pots) + 1}) = SumOf(pots, I) + Between(low, high)
    BY <1>2, <1>5, SumAppend
  <2>3. Lower(contributions[w], low) = low /\ Lower(contributions[w], high) = high
    BY <1>2, <1>3, <1>4, <1>9 DEF Lower
  <2>4. Total(Capped(contributions, high))
          = Total(Capped(contributions, low)) + Between(low, high)
    BY <1>1, <1>2, <1>3, CappedSums
  <2>5. QED
    BY <1>7, <2>1, <2>2, <2>3, <2>4
<1>10. QED
  BY <1>3, <1>4, <1>8, <1>9

LEMMA MakePotKeeps ==
  ASSUME LoopInv, MakePot
  PROVE  LoopInv'
<1>1. PICK low \in 0..MaxChips : Reached(low) /\ Staked(low)
  BY DEF LoopInv
<1>2. PICK high : high = low + Level
  OBVIOUS
<1> DEFINE pot == [amount |-> Between(low, high), eligible |-> Entitled]
<1> HIDE DEF pot
<1>3. /\ high \in 1..MaxChips /\ low < high
      /\ pot \in Pot /\ pots' = Append(pots, pot)
      /\ remaining' \in [Seats -> 0..MaxChips]
      /\ \A s \in Seats : remaining'[s] = contributions[s] - Lower(contributions[s], high)
      /\ done' = TRUE => \A s \in Seats : contributions[s] <= high
      /\ Len(pots) < MaxSeats
      /\ SumOf(pots, DOMAIN pots) = Total(Capped(contributions, low))
  BY <1>1, <1>2, MadePot DEF pot
<1>4. Reached(high)'
  BY <1>1, <1>2, MadeLayers
<1>5. TypeOK /\ contributions' = contributions /\ folded' = folded /\ done' \in BOOLEAN
  BY DEF LoopInv, MakePot
<1>6. low \in Nat /\ high \in Nat /\ high \in 0..MaxChips /\ low <= high
  BY <1>3, MaxChipsAssumption
<1>7. pots \in Seq(Pot) /\ Len(pots) \in Nat
  BY <1>5 DEF TypeOK
<1>8. TypeOK'
  <2>1. pots' \in Seq(Pot) /\ Len(pots') <= MaxSeats
    BY <1>3, <1>7, MaxSeatsAssumption
  <2>2. QED
    BY <1>3, <1>5, <2>1 DEF TypeOK
<1>9. /\ Total(contributions) = Total(Capped(contributions, high)) + Total(remaining')
      /\ Total(remaining') \in Nat
      /\ Total(Capped(contributions, high)) \in Nat
      /\ Total(Capped(contributions, high))
           = Total(Capped(contributions, low)) + Between(low, high)
  <2>1. remaining' \in [Seats -> Nat]
    BY <1>3
  <2>2. QED
    BY <1>3, <1>5, <1>6, <2>1, LeftAbove, CappedSums
<1>10. done' = TRUE => Total(remaining') = 0
  <2> HAVE done' = TRUE
  <2>1. \A s \in Seats : remaining'[s] = 0
    BY DEF MakePot
  <2>2. remaining' = NoChips
    BY <1>3, <2>1 DEF NoChips
  <2>3. QED
    BY <2>2, TotalZero
<1>11. SumOf(pots', DOMAIN pots') = Total(Capped(contributions, high))
  <2>1. DOMAIN pots' = DOMAIN pots \cup {Len(pots) + 1}
    BY <1>3, <1>7
  <2>2. SumOf(pots', DOMAIN pots \cup {Len(pots) + 1})
          = SumOf(pots, DOMAIN pots) + pot.amount
    BY <1>3, <1>7, SumAppend
  <2>3. pot.amount = Between(low, high)
    BY DEF pot
  <2>4. QED
    BY <1>3, <1>9, <2>1, <2>2, <2>3
<1>12. NothingLost'
  <2>1. SumOf(pots', DOMAIN pots') + Total(remaining') = Total(contributions)
    BY <1>9, <1>11
  <2>2. done' = TRUE => SumOf(pots', DOMAIN pots') = Total(contributions)
    BY <1>9, <1>10, <1>11
  <2>3. QED
    BY <1>5, <2>1, <2>2 DEF NothingLost
<1>13. \A w \in Contributors :
         SumOf(pots', {i \in DOMAIN pots' : w \in pots'[i].eligible})
           = Total(Capped(contributions, Lower(contributions[w], high)))
  BY <1>1, <1>2, MadeShares
<1>14. Staked(high)'
  BY <1>5, <1>13 DEF Staked, Contributors
<1>15. TableStakes'
  <2> SUFFICES ASSUME done' = TRUE, NEW w \in Contributors
               PROVE  Total(Capped(contributions, Lower(contributions[w], high)))
                        = IF IsTop(contributions, folded, w) THEN Total(contributions)
                          ELSE Total([s \in Seats |-> Lower(contributions[s], contributions[w])])
    BY <1>5, <1>13 DEF TableStakes, Contributors
  <2>1. contributions \in [Seats -> 0..MaxChips] /\ w \in Seats
    BY <1>5 DEF TypeOK, Contributors, Live
  <2>2. contributions[w] \in Nat /\ contributions[w] <= high
    BY <1>3, <2>1, MaxChipsAssumption
  <2>3. Lower(contributions[w], high) = contributions[w]
    BY <2>2 DEF Lower
  <2>4. CASE IsTop(contributions, folded, w)
    <3>1. Open # {}
      BY DEF MakePot
    <3>2. PICK m \in Contributors : contributions[m] = high
      BY <1>1, <1>2, <1>5, <3>1, TurnFacts
    <3>3. contributions[w] = high
      BY <1>6, <2>2, <2>4, <3>2 DEF IsTop, Contributors
    <3>4. QED
      BY <1>9, <1>10, <2>3, <2>4, <3>3
  <2>5. CASE ~IsTop(contributions, folded, w)
    BY <2>3, <2>5 DEF Capped
  <2>6. QED
    BY <2>4, <2>5
<1>16. QED
  BY <1>4, <1>6, <1>8, <1>12, <1>14, <1>15 DEF LoopInv

\* When no seat that has not folded has chips left, every layer is made, the last one
\* being the top, and only dead money remains.
LEMMA AllMade ==
  ASSUME LoopInv, NEW level \in 0..MaxChips, Reached(level), Open = {}
  PROVE  /\ \A o \in Contributors : contributions[o] \in Nat /\ contributions[o] <= level
         /\ Below(level) = Layers(contributions, folded)
         /\ pots = <<>> <=> Contributors = {}
         /\ \A o \in Contributors :
              IsTop(contributions, folded, o) <=> contributions[o] = level
         /\ pots # <<>> => pots[Len(pots)].eligible
                             = {o \in Contributors : contributions[o] >= level}
         /\ \A o \in Below(level) : Number(o) = Len(pots) <=> contributions[o] = level
<1>1. TypeOK /\ level \in Nat
  BY MaxChipsAssumption DEF LoopInv
<1>2. /\ contributions \in [Seats -> 0..MaxChips] /\ contributions \in [Seats -> Nat]
      /\ pots \in Seq(Pot)
  BY <1>1, BelowFacts DEF TypeOK
<1>3. \A o \in Contributors : /\ contributions[o] \in Nat /\ contributions[o] > 0
                              /\ o \in Seats /\ o \notin folded
  BY <1>2, LiveFacts DEF Contributors
<1>4. \A o \in Contributors : contributions[o] <= level
  <2> TAKE o \in Contributors
  <2>1. ~(remaining[o] > 0)
    BY <1>3 DEF Open
  <2>2. remaining[o] = contributions[o] - Lower(contributions[o], level)
    BY <1>3 DEF Reached
  <2>3. QED
    BY <1>1, <1>3, <2>1, <2>2 DEF Lower
<1>5. \A k \in Layers(contributions, folded) : k \in Contributors
  BY <1>2, LiveFacts DEF Contributors
<1>6. Below(level) = Layers(contributions, folded)
  BY <1>4, <1>5 DEF Below
<1>7. Len(pots) = Cardinality(Below(level)) /\ Len(pots) \in Nat
  BY <1>2 DEF Reached
<1>8. CASE Contributors = {}
  <2>1. Below(level) = {}
    BY <1>5, <1>6, <1>8
  <2>2. pots = <<>>
    BY <1>2, <1>7, <2>1, FS_EmptySet
  <2>3. QED
    BY <1>6, <1>8, <2>1, <2>2
<1>9. CASE Contributors # {}
  <2>1. PICK j \in Contributors : contributions[j] = level
    BY <1>3, <1>4, <1>9 DEF Reached
  <2>2. PICK k \in Layers(contributions, folded) : contributions[k] = level
    BY <1>2, <2>1, HasLayer DEF Contributors
  <2>3. \A o \in Contributors : IsTop(contributions, folded, o) <=> contributions[o] = level
    BY <1>1, <1>3, <1>4, <2>1 DEF IsTop, Contributors
  <2>4. Number(k) = Len(pots)
    <3>1. UpTo(contributions, folded, k) = Below(level)
      BY <2>2 DEF UpTo, Below
    <3>2. QED
      BY <1>7, <3>1 DEF Number
  <2>5. ASSUME NEW o \in Below(level)
        PROVE  Number(o) = Len(pots) <=> contributions[o] = level
    <3>1. CASE Number(o) = Len(pots)
      <4>1. contributions[k] <= contributions[o] /\ o \in Contributors
        BY <1>1, <1>6, <1>7, <2>2, <3>1, BelowFacts
      <4>2. QED
        BY <1>1, <1>3, <1>4, <2>2, <3>1, <4>1
    <3>2. CASE contributions[o] = level
      BY <1>2, <1>6, <2>2, <2>4, <3>2, LiveFacts
    <3>3. QED
      BY <3>1, <3>2
  <2>6. Len(pots) \in 1..Len(pots)
    BY <1>1, <1>6, <1>7, <2>2, <2>4, BelowFacts
  <2>7. pots # <<>>
    BY <2>6
  <2>8. pots[Len(pots)].eligible = {o \in Contributors : contributions[o] >= level}
    <3>1. pots[Number(k)].eligible = Eligible(contributions, folded, k)
      BY <1>6, <2>2 DEF Reached
    <3>2. QED
      BY <2>2, <2>4, <3>1 DEF Eligible, Contributors
  <2>9. QED
    BY <1>3, <1>4, <1>6, <1>9, <2>3, <2>5, <2>7, <2>8
<1>10. QED
  BY <1>8, <1>9

LEMMA MergeDeadKeeps ==
  ASSUME LoopInv, MergeDead
  PROVE  LoopInv'
<1>1. PICK level \in 0..MaxChips : Reached(level) /\ Staked(level)
  BY DEF LoopInv
<1>2. /\ TypeOK /\ NothingLost /\ Open = {} /\ done = FALSE /\ done' = TRUE
      /\ contributions' = contributions /\ folded' = folded /\ remaining' = remaining
  BY DEF LoopInv, TypeOK, MergeDead
<1>3. /\ level \in Nat /\ contributions \in [Seats -> 0..MaxChips]
      /\ remaining \in [Seats -> Nat] /\ pots \in Seq(Pot) /\ Len(pots) <= MaxSeats
  BY <1>2, MaxChipsAssumption DEF TypeOK
<1>4. /\ \A o \in Contributors : contributions[o] \in Nat /\ contributions[o] <= level
      /\ Below(level) = Layers(contributions, folded)
      /\ pots = <<>> <=> Contributors = {}
      /\ \A o \in Contributors : IsTop(contributions, folded, o) <=> contributions[o] = level
      /\ pots # <<>> => pots[Len(pots)].eligible
                          = {o \in Contributors : contributions[o] >= level}
      /\ \A o \in Below(level) : Number(o) = Len(pots) <=> contributions[o] = level
  BY <1>1, <1>2, AllMade
<1>5. \A o \in Below(level) : /\ o \in Contributors /\ Number(o) \in 1..Len(pots)
  BY <1>1, <1>2, BelowFacts DEF Reached
<1>6. /\ Below(level)' = Below(level) /\ Contributors' = Contributors
      /\ \A o : Number(o)' = Number(o)
      /\ \A a, b : Between(a, b)' = Between(a, b)
  BY <1>2 DEF Below, Contributors, Number, Between
<1>7. CASE pots = <<>>
  <2>1. pots' = pots /\ Contributors = {} /\ Below(level) = {}
    BY <1>4, <1>5, <1>7 DEF MergeDead
  <2>2. TypeOK'
    BY <1>2, <2>1 DEF TypeOK
  <2>3. NothingLost' /\ TableStakes' /\ Staked(level)'
    BY <1>2, <2>1 DEF NothingLost, TableStakes, Staked, Contributors
  <2>4. Reached(level)'
    BY <1>1, <1>2, <1>6, <2>1 DEF Reached
  <2>5. QED
    BY <2>2, <2>3, <2>4 DEF LoopInv
<1>8. CASE pots # <<>>
  <2> DEFINE x == Total(remaining)
  <2>1. pots' = [pots EXCEPT ![Len(pots)] = Merged(@, x)]
    BY <1>8 DEF MergeDead, Leftover
  <2>2. /\ Total(contributions) = Total(Capped(contributions, level)) + x
        /\ x \in Nat
    BY <1>1, <1>2, <1>3, LeftAbove DEF Reached
  <2> HIDE DEF x
  <2>3. /\ pots' \in Seq(Pot) /\ Len(pots') = Len(pots) /\ DOMAIN pots' = DOMAIN pots
        /\ \A i \in DOMAIN pots :
             /\ pots'[i].eligible = pots[i].eligible
             /\ pots'[i].amount = IF i = Len(pots) THEN pots[i].amount + x ELSE pots[i].amount
    BY <1>3, <1>8, <2>1, <2>2, SumRaised
  <2>4. \A I \in SUBSET DOMAIN pots :
          SumOf(pots', I) = SumOf(pots, I) + IF Len(pots) \in I THEN x ELSE 0
    BY <1>3, <1>8, <2>1, <2>2, SumRaised
  <2>5. Len(pots) \in DOMAIN pots /\ DOMAIN pots = 1..Len(pots)
    BY <1>3, <1>8
  <2>6. TypeOK'
    BY <1>2, <1>3, <2>3 DEF TypeOK
  <2>7. NothingLost'
    <3>1. SumOf(pots, DOMAIN pots) + x = Total(contributions)
      BY <1>2 DEF NothingLost, x
    <3>2. SumOf(pots', DOMAIN pots') = Total(contributions)
      BY <2>3, <2>4, <2>5, <3>1
    <3>3. QED
      BY <1>2, <3>2 DEF NothingLost
  <2>8. ASSUME NEW w \in Contributors
        PROVE  SumOf(pots', {i \in DOMAIN pots' : w \in pots'[i].eligible})
                 = IF IsTop(contributions, folded, w) THEN Total(contributions)
                   ELSE Total([s \in Seats |-> Lower(contributions[s], contributions[w])])
    <3> DEFINE I == {i \in DOMAIN pots : w \in pots[i].eligible}
    <3>1. {i \in DOMAIN pots' : w \in pots'[i].eligible} = I
      BY <2>3
    <3>2. Len(pots) \in I <=> IsTop(contributions, folded, w)
      BY <1>3, <1>4, <1>8, <2>5
    <3>3. Lower(contributions[w], level) = contributions[w]
      BY <1>3, <1>4 DEF Lower
    <3>4. SumOf(pots, I) = Total(Capped(contributions, contributions[w]))
      BY <1>1, <1>2, <3>3 DEF Staked
    <3>5. SumOf(pots', I) = SumOf(pots, I) + IF Len(pots) \in I THEN x ELSE 0
      BY <2>4
    <3>6. Total(Capped(contributions, level)) \in Nat
      BY <1>2, <1>3, CappedSums
    <3>7. SumOf(pots, I) \in Nat
      BY <1>3, ChipsFacts
    <3> HIDE DEF I
    <3>8. CASE IsTop(contributions, folded, w)
      BY <1>4, <2>2, <3>1, <3>2, <3>4, <3>5, <3>8
    <3>9. CASE ~IsTop(contributions, folded, w)
      <4>1. SumOf(pots', I) = SumOf(pots, I)
        BY <3>2, <3>5, <3>7, <3>9
      <4>2. Total(Capped(contributions, contributions[w]))
              = Total([s \in Seats |-> Lower(contributions[s], contributions[w])])
        BY DEF Capped
      <4>3. QED
        BY <3>1, <3>4, <3>9, <4>1, <4>2
    <3>10. QED
      BY <3>8, <3>9
  <2>9. TableStakes'
    BY <1>2, <2>8 DEF TableStakes, Contributors
  <2>10. Staked(level)'
    BY <1>2 DEF Staked
  <2>11. ASSUME NEW o \in Below(level)
         PROVE  /\ pots'[Number(o)].eligible = Eligible(contributions, folded, o)
                /\ pots'[Number(o)].amount = Amount(contributions, folded, o)
    <3>1. /\ pots[Number(o)].eligible = Eligible(contributions, folded, o)
          /\ pots[Number(o)].amount
               = Between(FloorOf(contributions, folded, o), contributions[o])
      BY <1>1, <1>2 DEF Reached
    <3>2. CASE contributions[o] = level
      <4>1. \A s \in Seats : remaining[s] = contributions[s] - Lower(contributions[s], level)
        BY <1>1 DEF Reached
      <4>2. Amount(contributions, folded, o)
              = Between(FloorOf(contributions, folded, o), contributions[o]) + x
        BY <1>2, <1>3, <1>4, <1>5, <3>2, <4>1, TopAmount DEF x
      <4>3. QED
        BY <1>4, <1>5, <2>3, <2>5, <3>1, <3>2, <4>2
    <3>3. CASE contributions[o] # level
      <4>1. Amount(contributions, folded, o)
              = Between(FloorOf(contributions, folded, o), contributions[o])
        BY <1>2, <1>4, <1>5, <3>3, PlainAmount
      <4>2. QED
        BY <1>4, <1>5, <2>3, <2>5, <3>1, <3>3, <4>1
    <3>4. QED
      BY <3>2, <3>3
  <2>12. Reached(level)'
    BY <1>1, <1>2, <1>4, <1>6, <2>3, <2>11 DEF Reached
  <2>13. QED
    BY <2>6, <2>7, <2>9, <2>10, <2>12 DEF LoopInv
<1>9. QED
  BY <1>7, <1>8

LEMMA LoopStarts ==
  ASSUME Init
  PROVE  LoopInv
<1>1. /\ contributions \in [Seats -> 0..MaxChips] /\ folded \in SUBSET Seats
      /\ remaining = contributions /\ pots = <<>> /\ done \in BOOLEAN
      /\ done <=> \A s \in Seats : contributions[s] = 0
  BY DEF Init
<1>2. contributions \in [Seats -> Nat] /\ 0 \in 0..MaxChips
  BY <1>1, MaxChipsAssumption
<1>3. TypeOK
  BY <1>1, MaxSeatsAssumption DEF TypeOK
<1>4. \A level : SumOf(pots, {i \in DOMAIN pots : level \in pots[i].eligible}) = 0
  <2> TAKE level
  <2>1. [s \in Seats |-> IF s + 1 \in {i \in DOMAIN pots : level \in pots[i].eligible}
                         THEN pots[s + 1].amount ELSE 0] = NoChips
    BY <1>1 DEF NoChips
  <2>2. QED
    BY <2>1, TotalZero DEF SumOf
<1>5. SumOf(pots, DOMAIN pots) = 0
  <2>1. [s \in Seats |-> IF s + 1 \in DOMAIN pots THEN pots[s + 1].amount ELSE 0] = NoChips
    BY <1>1 DEF NoChips
  <2>2. QED
    BY <2>1, TotalZero DEF SumOf
<1>6. done => Contributors = {}
  BY <1>1 DEF Contributors, Live
<1>7. NothingLost
  BY <1>1, <1>2, <1>5, <1>6, TotalNat DEF NothingLost, Contributors
<1>8. TableStakes
  BY <1>6 DEF TableStakes, Contributors
<1>9. Below(0) = {}
  BY <1>2, LiveFacts DEF Below
<1>10. Reached(0)
  <2>1. \A s \in Seats : remaining[s] = contributions[s] - Lower(contributions[s], 0)
    BY <1>1, <1>2 DEF Lower
  <2>2. Len(pots) = Cardinality(Below(0))
    BY <1>1, <1>9, FS_EmptySet
  <2>3. DOMAIN pots = {}
    BY <1>1
  <2>4. QED
    BY <1>6, <1>9, <2>1, <2>2, <2>3 DEF Reached
<1>11. Staked(0)
  <2> SUFFICES ASSUME NEW w \in Contributors
               PROVE  Total(Capped(contributions, Lower(contributions[w], 0))) = 0
    BY <1>4 DEF Staked
  <2>1. contributions[w] \in Nat
    BY <1>2 DEF Contributors, Live
  <2>2. Lower(contributions[w], 0) = 0
    BY <2>1 DEF Lower
  <2>3. Capped(contributions, 0) = NoChips
    BY <1>2 DEF Capped, Lower, NoChips
  <2>4. QED
    BY <2>2, <2>3, TotalZero
<1>12. QED
  BY <1>2, <1>3, <1>7, <1>8, <1>10, <1>11 DEF LoopInv

LEMMA Unchanging ==
  ASSUME LoopInv, UNCHANGED vars
  PROVE  LoopInv'
<1>1. PICK level \in 0..MaxChips : Reached(level) /\ Staked(level)
  BY DEF LoopInv
<1>2. TypeOK'
  BY DEF LoopInv, vars, TypeOK
<1>3. NothingLost' /\ TableStakes'
  BY DEF LoopInv, vars, NothingLost, TableStakes
<1>4. Staked(level)'
  BY <1>1 DEF vars, Staked, Contributors
<1>5. /\ Below(level)' = Below(level) /\ Contributors' = Contributors
      /\ \A o : Number(o)' = Number(o)
      /\ \A a, b : Between(a, b)' = Between(a, b)
  BY DEF vars, Below, Contributors, Number, Between
<1>6. Reached(level)'
  BY <1>1, <1>5 DEF vars, Reached
<1>7. QED
  BY <1>2, <1>3, <1>4, <1>6 DEF LoopInv

\* The loop invariant: when the loop has been through the chips up to some level, its pots
\* are the layers below that level, each seat has left what it put in above it, and what a
\* seat may win is what it has matched (sidepot.go:40-98).
THEOREM LoopInvariance == Spec => []LoopInv
<1>1. LoopInv /\ [Next]_vars => LoopInv'
  BY Unchanging, MakePotKeeps, MergeDeadKeeps DEF Next
<1>2. QED
  BY <1>1, LoopStarts, PTL DEF Spec
---------------------------------------------------------------------------
\* Every value of the loop keeps its range: no seat pays more into a pot than it has left,
\* no pot loses chips, and there are no more pots than seats (sidepot.go:51-83).
THEOREM PotsTyped == Spec => []TypeOK
BY LoopInvariance, PTL DEF LoopInv

\* Chips are neither made nor lost while the pots are built, and none is left over as
\* soon as one seat that put chips in has not folded (sidepot.go:51-83).
THEOREM PotsLoseNothing == Spec => []NothingLost
BY LoopInvariance, PTL DEF LoopInv

\* The table-stakes rule: the pots a seat may win hold what it put in itself from every
\* seat, and exactly that; only the largest live contribution also reaches the dead
\* money above it (sidepot.go:61-83).
THEOREM PotsWithinStakes == Spec => []TableStakes
BY LoopInvariance, PTL DEF LoopInv

\* When the loop is left its pots are the layers of module SidePots, which the hand is
\* settled with, one for one and in the order of their levels (sidepot.go:28-98).
THEOREM PotsAreLayers == Spec => []IsLayered
<1>1. LoopInv => IsLayered
  <2> SUFFICES ASSUME LoopInv, done PROVE IsLayered
    BY DEF IsLayered
  <2>1. PICK level \in 0..MaxChips : Reached(level)
    BY DEF LoopInv
  <2>2. TypeOK
    BY DEF LoopInv
  <2>3. /\ contributions \in [Seats -> Nat] /\ pots \in Seq(Pot)
        /\ \A k \in Layers(contributions, folded) : k \in Contributors
    BY <2>1, <2>2, BelowFacts, LiveFacts DEF TypeOK, Contributors
  <2>4. Below(level) = Layers(contributions, folded)
    BY <2>1, <2>3 DEF Below, Reached
  <2>5. Len(pots) = Cardinality(Layers(contributions, folded))
    BY <2>1, <2>4 DEF Reached
  <2>6. ASSUME NEW k \in Layers(contributions, folded)
        PROVE  pots[Number(k)] = [amount   |-> Amount(contributions, folded, k),
                                  eligible |-> Eligible(contributions, folded, k)]
    <3>1. Number(k) \in DOMAIN pots
      BY <2>1, <2>2, <2>3, <2>4, <2>5, BelowFacts
    <3>2. pots[Number(k)] \in Pot
      BY <2>3, <3>1, PotFacts
    <3>3. /\ pots[Number(k)].amount = Amount(contributions, folded, k)
          /\ pots[Number(k)].eligible = Eligible(contributions, folded, k)
      BY <2>1, <2>4 DEF Reached
    <3>4. \A q \in Pot : q = [amount |-> q.amount, eligible |-> q.eligible]
      BY DEF Pot
    <3>5. QED
      BY <3>2, <3>3, <3>4
  <2>7. QED
    BY <2>5, <2>6 DEF IsLayered, Number, UpTo
<1>2. QED
  BY <1>1, LoopInvariance, PTL
---------------------------------------------------------------------------
(* Pot after pot. *)

\* The best hands among those a layer's pot may go to, and what each seat gets of it.
BestOf(k) ==
  {s \in Eligible(contributions, folded, k) :
     \A o \in Eligible(contributions, folded, k) : Score[dealing][o] <= Score[dealing][s]}
PartOf(k, s) ==
  LET amount == Amount(contributions, folded, k)
      n == Cardinality(BestOf(k))
  IN  IF s \notin BestOf(k) THEN 0
      ELSE (amount \div n) + IF \A o \in BestOf(k) : s <= o THEN amount % n ELSE 0

\* What the first n pots have paid seat s, by layer.
PartsUpTo(n, s) ==
  [k \in Seats |-> IF k \in Layers(contributions, folded) /\ Number(k) <= n
                   THEN PartOf(k, s) ELSE 0]

AwardInv ==
  /\ LoopInv
  /\ dealing \in Dealings
  /\ awarded \in 0..Len(pots) /\ (~done => awarded = 0)
  /\ won \in [Seats -> Nat]
  /\ \A s \in Seats : won[s] = Total(PartsUpTo(awarded, s))

LEMMA PartNat ==
  ASSUME TypeOK, NEW k \in Layers(contributions, folded), NEW s \in Seats
  PROVE  PartOf(k, s) \in Nat
<1> DEFINE n == Cardinality(BestOf(k))
           amount == Amount(contributions, folded, k)
<1>1. contributions \in [Seats -> Nat] /\ k \in Live(contributions, folded)
  BY MaxChipsAssumption, LiveFacts DEF TypeOK
<1>2. amount \in Nat
  BY <1>1, AmountNat
<1>3. CASE s \in BestOf(k)
  <2>1. IsFiniteSet(Seats)
    BY MaxSeatsAssumption, FS_Interval DEF Seats
  <2>2. BestOf(k) \subseteq Seats
    BY DEF BestOf, Eligible, Live
  <2>3. IsFiniteSet(BestOf(k))
    BY <2>1, <2>2, FS_Subset
  <2>4. n \in Nat \ {0}
    BY <1>3, <2>3, FS_CardinalityType, FS_EmptySet
  <2>5. \A a \in Nat : \A b \in Nat \ {0} : a \div b \in Nat /\ a % b \in Nat
    OBVIOUS
  <2> HIDE DEF n, amount
  <2>6. amount \div n \in Nat /\ amount % n \in Nat
    BY <1>2, <2>4, <2>5
  <2>7. QED
    BY <1>3, <2>6 DEF PartOf, n, amount
<1>4. QED
  BY <1>3 DEF PartOf

\* The pot that is paid next is that of the next layer, and pays its parts.
LEMMA NextPot ==
  ASSUME AwardInv, AwardPot
  PROVE  \E k \in Layers(contributions, folded) :
           /\ Number(k) = awarded + 1
           /\ \A o \in Layers(contributions, folded) : Number(o) = awarded + 1 => o = k
           /\ won' = [s \in Seats |-> won[s] + PartOf(k, s)]
<1>1. /\ LoopInv /\ TypeOK /\ done = TRUE /\ awarded + 1 \in DOMAIN pots /\ pots \in Seq(Pot)
  BY DEF AwardInv, LoopInv, TypeOK, AwardPot
<1>2. PICK level \in 0..MaxChips : Reached(level)
  BY <1>1 DEF LoopInv
<1>3. contributions \in [Seats -> Nat] /\ level \in Nat
  BY <1>1, MaxChipsAssumption DEF TypeOK
<1>4. \A k \in Layers(contributions, folded) : k \in Contributors /\ contributions[k] \in Nat
  BY <1>3, LiveFacts DEF Contributors
<1>5. Below(level) = Layers(contributions, folded)
  BY <1>1, <1>2, <1>4 DEF Below, Reached
<1>6. PICK k \in Layers(contributions, folded) : Number(k) = awarded + 1
  BY <1>1, <1>2, <1>5 DEF Reached
<1>7. ASSUME NEW o \in Layers(contributions, folded), Number(o) = awarded + 1
      PROVE  o = k
  <2>1. ASSUME NEW i \in Layers(contributions, folded), NEW j \in Layers(contributions, folded),
               Number(i) = Number(j), contributions[i] < contributions[j]
        PROVE  FALSE
    <3> DEFINE K == UpTo(contributions, folded, j)
    <3>1. K \in SUBSET Layers(contributions, folded) /\ i \in K /\ j \in K
      BY <1>4, <2>1 DEF UpTo
    <3>2. UpTo(contributions, folded, i) \subseteq K
      BY <1>4, <2>1 DEF UpTo
    <3>3. \A p \in K : contributions[p] <= contributions[i]
      BY <1>3, <2>1, <3>1, <3>2, NumberFacts DEF Number
    <3>4. QED
      BY <1>4, <2>1, <3>1, <3>3
  <2>2. contributions[o] = contributions[k]
    BY <1>4, <1>6, <1>7, <2>1
  <2>3. QED
    BY <1>3, <2>2, LiveFacts
<1>8. /\ pots[awarded + 1].amount = Amount(contributions, folded, k)
      /\ pots[awarded + 1].eligible = Eligible(contributions, folded, k)
  BY <1>1, <1>2, <1>5, <1>6 DEF Reached
<1> DEFINE pot == pots[awarded + 1]
<1>9. BestSeats(pot) = BestOf(k)
  <2>1. Eligible(contributions, folded, k) \ folded = Eligible(contributions, folded, k)
    BY DEF Eligible, Live
  <2>2. QED
    BY <1>8, <2>1 DEF BestSeats, BestOf
<1>10. ASSUME NEW s \in BestOf(k) PROVE s = Min(BestOf(k)) <=> \A o \in BestOf(k) : s <= o
  <2> DEFINE number == [o \in Seats |-> o]
  <2>1. BestOf(k) \in SUBSET Seats /\ Seats \subseteq Nat /\ s \in Nat
    BY SeatNumbers DEF BestOf, Eligible, Live
  <2>2. number \in [Seats -> Int] /\ \A o \in Seats : number[o] = o
    BY <2>1
  <2> HIDE DEF number
  <2>3. PICK m \in BestOf(k) : \A o \in BestOf(k) : number[m] <= number[o]
    BY <1>10, <2>1, <2>2, FirstSeat
  <2>4. \A o \in BestOf(k) : m <= o
    BY <2>1, <2>2, <2>3
  <2>5. Min(BestOf(k)) \in BestOf(k) /\ \A o \in BestOf(k) : Min(BestOf(k)) <= o
    BY <2>4, Zenon DEF Min
  <2>6. \A a, b \in Nat : a <= b /\ b <= a => a = b
    OBVIOUS
  <2>7. QED
    BY <1>10, <2>1, <2>5, <2>6
<1> HIDE DEF pot
<1> DEFINE Pays(s) ==
      IF s \notin BestSeats(pot) THEN 0
      ELSE (pot.amount \div Cardinality(BestSeats(pot)))
             + IF s = Min(BestSeats(pot)) THEN pot.amount % Cardinality(BestSeats(pot)) ELSE 0
<1>11. won' = [s \in Seats |-> won[s] + Pays(s)]
  BY DEF AwardPot, pot
<1>12. pot.amount = Amount(contributions, folded, k)
  BY <1>8 DEF pot
<1>13. \A s \in Seats : Pays(s) = PartOf(k, s)
  BY <1>9, <1>10, <1>12 DEF PartOf
<1> HIDE DEF Pays
<1>14. won' = [s \in Seats |-> won[s] + PartOf(k, s)]
  BY <1>11, <1>13
<1>15. QED
  BY <1>6, <1>7, <1>14

LEMMA AwardPotKeeps ==
  ASSUME AwardInv, AwardPot
  PROVE  AwardInv'
<1>1. PICK k \in Layers(contributions, folded) :
        /\ Number(k) = awarded + 1
        /\ \A o \in Layers(contributions, folded) : Number(o) = awarded + 1 => o = k
        /\ won' = [s \in Seats |-> won[s] + PartOf(k, s)]
  BY NextPot
<1>2. /\ LoopInv /\ TypeOK /\ done = TRUE /\ awarded \in 0..Len(pots) /\ awarded < Len(pots)
      /\ pots \in Seq(Pot) /\ won \in [Seats -> Nat] /\ dealing \in Dealings
      /\ awarded' = awarded + 1 /\ UNCHANGED <<vars, dealing>>
  BY DEF AwardInv, LoopInv, TypeOK, AwardPot
<1>3. /\ contributions' = contributions /\ folded' = folded /\ pots' = pots /\ done' = done
      /\ dealing' = dealing /\ remaining' = remaining
  BY <1>2 DEF vars
<1>4. LoopInv'
  BY <1>2, Unchanging
<1>5. awarded' \in 0..Len(pots') /\ Len(pots) \in Nat /\ awarded \in Nat
  BY <1>2, <1>3
<1>6. /\ \A o : Number(o)' = Number(o)
      /\ \A o, s : PartOf(o, s)' = PartOf(o, s)
  <2>1. \A o : BestOf(o)' = BestOf(o)
    BY <1>3 DEF BestOf
  <2>2. QED
    BY <1>3, <2>1 DEF Number, PartOf
<1>7. \A s : PartsUpTo(awarded, s)' = PartsUpTo(awarded + 1, s)
  BY <1>2, <1>3, <1>6 DEF PartsUpTo
<1>8. \A o \in Layers(contributions, folded) : Number(o) \in Nat
  <2>1. contributions \in [Seats -> Nat]
    BY <1>2, MaxChipsAssumption DEF TypeOK
  <2>2. \A o : UpTo(contributions, folded, o) \in SUBSET Layers(contributions, folded)
    BY DEF UpTo
  <2>3. QED
    BY <2>1, <2>2, SomeLayers DEF Number
<1>9. k \in Seats
  BY DEF Layers, Live
<1>10. ASSUME NEW s \in Seats
       PROVE  won'[s] \in Nat /\ won'[s] = Total(PartsUpTo(awarded + 1, s))
  <2> DEFINE before == PartsUpTo(awarded, s)
             after == PartsUpTo(awarded + 1, s)
             mine == [o \in Seats |-> IF o = k THEN PartOf(k, s) ELSE 0]
  <2>1. \A o \in Layers(contributions, folded) : PartOf(o, s) \in Nat
    BY <1>2, PartNat
  <2>2. /\ before \in [Seats -> Int] /\ after \in [Seats -> Int] /\ mine \in [Seats -> Int]
        /\ mine[k] = PartOf(k, s) /\ \A o \in Seats \ {k} : mine[o] = 0
    BY <1>9, <2>1 DEF PartsUpTo
  <2>3. \A o \in Seats : after[o] = before[o] + mine[o]
    <3> TAKE o \in Seats
    <3>1. /\ before[o] = IF o \in Layers(contributions, folded) /\ Number(o) <= awarded
                         THEN PartOf(o, s) ELSE 0
          /\ after[o] = IF o \in Layers(contributions, folded) /\ Number(o) <= awarded + 1
                        THEN PartOf(o, s) ELSE 0
          /\ mine[o] = IF o = k THEN PartOf(k, s) ELSE 0
      BY DEF PartsUpTo
    <3> HIDE DEF before, after, mine
    <3>2. CASE o = k
      BY <1>1, <1>5, <2>1, <3>1, <3>2
    <3>3. CASE o # k /\ o \in Layers(contributions, folded)
      <4>1. Number(o) <= awarded + 1 <=> Number(o) <= awarded
        BY <1>1, <1>5, <1>8, <3>3
      <4>2. QED
        BY <2>1, <3>1, <3>3, <4>1
    <3>4. CASE o # k /\ o \notin Layers(contributions, folded)
      BY <3>1, <3>4
    <3>5. QED
      BY <3>2, <3>3, <3>4
  <2> HIDE DEF before, after, mine
  <2>4. Total(mine) = PartOf(k, s)
    BY <1>9, <2>1, <2>2, TotalSingle
  <2>5. Total(after) = Total(before) + Total(mine)
    BY <2>2, <2>3, TotalPlus
  <2>6. won[s] = Total(before) /\ won[s] \in Nat
    BY <1>2 DEF AwardInv, before
  <2>7. won'[s] = won[s] + PartOf(k, s)
    BY <1>1
  <2>8. QED
    BY <2>1, <2>4, <2>5, <2>6, <2>7 DEF after
<1>11. won' \in [Seats -> Nat]
  <2>1. won' = [s \in Seats |-> won'[s]]
    BY <1>1
  <2>2. QED
    BY <1>10, <2>1
<1>12. \A s \in Seats : won'[s] = Total(PartsUpTo(awarded, s)')
  BY <1>7, <1>10
<1>13. QED
  BY <1>2, <1>3, <1>4, <1>5, <1>11, <1>12 DEF AwardInv

LEMMA BuildKeeps ==
  ASSUME AwardInv, Build
  PROVE  AwardInv'
<1>1. /\ LoopInv /\ TypeOK /\ dealing \in Dealings /\ won \in [Seats -> Nat]
      /\ awarded' = awarded /\ won' = won /\ dealing' = dealing /\ Next
  BY DEF AwardInv, LoopInv, Build
<1>2. LoopInv'
  BY <1>1, MakePotKeeps, MergeDeadKeeps DEF Next
<1>3. done = FALSE /\ contributions' = contributions /\ folded' = folded
  BY <1>1 DEF LoopInv, TypeOK, Next, MakePot, MergeDead
<1>4. awarded = 0
  BY <1>3 DEF AwardInv
<1>5. Len(pots') \in Nat
  BY <1>2 DEF LoopInv, TypeOK
<1>6. ASSUME NEW s \in Seats PROVE PartsUpTo(awarded, s)' = PartsUpTo(awarded, s)
  <2>1. \A o : Number(o)' = Number(o)
    BY <1>3 DEF Number
  <2>2. \A o : BestOf(o)' = BestOf(o)
    BY <1>1, <1>3 DEF BestOf
  <2>3. \A o : PartOf(o, s)' = PartOf(o, s)
    BY <1>3, <2>2 DEF PartOf
  <2>4. QED
    BY <1>1, <1>3, <2>1, <2>3 DEF PartsUpTo
<1>7. \A s \in Seats : won'[s] = Total(PartsUpTo(awarded, s)')
  BY <1>1, <1>6 DEF AwardInv
<1>8. QED
  BY <1>1, <1>2, <1>4, <1>5, <1>7 DEF AwardInv

LEMMA AwardStarts ==
  ASSUME ShowdownInit
  PROVE  AwardInv
<1>1. LoopInv /\ TypeOK /\ pots = <<>>
  BY LoopStarts DEF ShowdownInit, Init, LoopInv
<1>2. contributions \in [Seats -> Nat]
  BY <1>1, MaxChipsAssumption DEF TypeOK
<1>3. \A k \in Layers(contributions, folded) : ~(Number(k) <= 0)
  <2> TAKE k \in Layers(contributions, folded)
  <2>1. UpTo(contributions, folded, k) \in SUBSET Layers(contributions, folded)
    BY DEF UpTo
  <2>2. contributions[k] \in Nat
    BY <1>2, LiveFacts
  <2>3. k \in UpTo(contributions, folded, k)
    BY <2>2 DEF UpTo
  <2>4. Number(k) \in Nat /\ Number(k) # 0
    BY <1>2, <2>1, <2>3, SomeLayers DEF Number
  <2>5. QED
    BY <2>4
<1>4. \A s \in Seats : Total(PartsUpTo(0, s)) = 0
  <2> TAKE s \in Seats
  <2>1. PartsUpTo(0, s) = NoChips
    BY <1>3 DEF PartsUpTo, NoChips
  <2>2. QED
    BY <2>1, TotalZero
<1>5. dealing \in Dealings /\ awarded = 0 /\ won = [s \in Seats |-> 0]
  BY DEF ShowdownInit
<1>6. awarded \in 0..Len(pots)
  BY <1>1, <1>5
<1>7. won \in [Seats -> Nat] /\ \A s \in Seats : won[s] = Total(PartsUpTo(awarded, s))
  BY <1>4, <1>5
<1>8. QED
  BY <1>1, <1>5, <1>6, <1>7 DEF AwardInv

\* The invariant of the settlement: each seat has been paid its parts of the pots awarded
\* so far, each part being that of the layer the pot was made of (hand.go:612-651).
THEOREM AwardInvariance == ShowdownSpec => []AwardInv
<1>1. AwardInv /\ UNCHANGED all => AwardInv'
  <2> SUFFICES ASSUME AwardInv, UNCHANGED all PROVE AwardInv'
    OBVIOUS
  <2>1. /\ UNCHANGED vars /\ dealing' = dealing /\ awarded' = awarded /\ won' = won
    BY DEF all
  <2>2. LoopInv'
    BY <2>1, Unchanging DEF AwardInv
  <2>3. /\ contributions' = contributions /\ folded' = folded /\ pots' = pots /\ done' = done
    BY <2>1 DEF vars
  <2>4. \A o : Number(o)' = Number(o) /\ BestOf(o)' = BestOf(o)
    BY <2>1, <2>3 DEF Number, BestOf
  <2>5. \A o, s : PartOf(o, s)' = PartOf(o, s)
    BY <2>3, <2>4 DEF PartOf
  <2>6. \A s : PartsUpTo(awarded, s)' = PartsUpTo(awarded, s)
    BY <2>1, <2>3, <2>4, <2>5 DEF PartsUpTo
  <2>7. QED
    BY <2>1, <2>2, <2>3, <2>6 DEF AwardInv
<1>2. AwardInv /\ [ShowdownNext]_all => AwardInv'
  BY <1>1, BuildKeeps, AwardPotKeeps DEF ShowdownNext
<1>3. QED
  BY <1>2, AwardStarts, PTL DEF ShowdownSpec

\* The words of module Hand that it shares with the pots mean the same there.
LEMMA HandWords ==
  /\ Hand!Seats = Seats
  /\ \A c, F, k : Hand!Eligible(c, F, k) = Eligible(c, F, k)
  /\ \A c, F, k : Hand!Amount(c, F, k) = Amount(c, F, k)
  /\ \A S : Hand!Cardinality(S) = Cardinality(S)
<1>1. Hand!Seats = Seats
  BY DEF Hand!Seats, Seats
<1>2. \A f : Hand!Total(f) = Total(f)
  BY <1>1 DEF Hand!Total, Total, Hand!At, At
<1>3. \A c, F : Hand!Live(c, F) = Live(c, F)
  BY <1>1 DEF Hand!Live, Live
<1>4. \A c, F, k : Hand!FloorOf(c, F, k) = FloorOf(c, F, k)
  BY DEF Hand!FloorOf, FloorOf, Hand!Live, Live, Hand!Seats, Seats
<1>5. \A c, F, k : Hand!IsTop(c, F, k) = IsTop(c, F, k)
  BY <1>3 DEF Hand!IsTop, IsTop
<1>6. \A c, F, k, s : Hand!Slice(c, F, k, s) = Slice(c, F, k, s)
  BY <1>4, <1>5 DEF Hand!Slice, Slice, Hand!Lower, Lower
<1>7. \A c, F, k : Hand!Amount(c, F, k) = Amount(c, F, k)
  BY <1>1, <1>2, <1>6 DEF Hand!Amount, Amount
<1>8. \A c, F, k : Hand!Eligible(c, F, k) = Eligible(c, F, k)
  BY <1>3 DEF Hand!Eligible, Eligible
<1>9. \A S : Hand!Cardinality(S) = Cardinality(S)
  BY DEF Hand!Cardinality, Cardinality
<1>10. QED
  BY <1>1, <1>7, <1>8, <1>9

\* Counting the hands each hand beats ranks them as their scores do.
LEMMA RanksAsScores ==
  ASSUME dealing \in Dealings, ScoreIsStrength, NEW s \in Seats, NEW o \in Seats
  PROVE  Cardinality(Beaten[dealing][o]) <= Cardinality(Beaten[dealing][s])
           <=> Score[dealing][o] <= Score[dealing][s]
<1> DEFINE score == Score[dealing]
           beaten == Beaten[dealing]
<1>1. /\ score \in [Seats -> Nat]
      /\ \A i, j \in Seats : score[i] > score[j] <=> j \in beaten[i]
  BY DEF ScoreIsStrength
<1>2. \A i \in Seats : beaten[i] \in SUBSET Seats
  BY DEF Beaten
<1> HIDE DEF score, beaten
<1>3. \A i \in Seats : IsFiniteSet(beaten[i]) /\ Cardinality(beaten[i]) \in Nat
  <2>1. IsFiniteSet(Seats)
    BY MaxSeatsAssumption, FS_Interval DEF Seats
  <2>2. QED
    BY <1>2, <2>1, FS_Subset, FS_CardinalityType
<1>4. ASSUME NEW i \in Seats, NEW j \in Seats, score[i] <= score[j]
      PROVE  beaten[i] \subseteq beaten[j]
  BY <1>1, <1>2, <1>4
<1>5. CASE score[o] <= score[s]
  <2>1. beaten[o] \subseteq beaten[s]
    BY <1>4, <1>5
  <2>2. Cardinality(beaten[o]) <= Cardinality(beaten[s])
    BY <1>3, <2>1, FS_Subset
  <2>3. QED
    BY <1>5, <2>2 DEF score, beaten
<1>6. CASE score[o] > score[s]
  <2>1. beaten[s] \subseteq beaten[o] /\ s \in beaten[o] /\ s \notin beaten[s]
    BY <1>1, <1>4, <1>6
  <2>2. /\ Cardinality(beaten[s]) <= Cardinality(beaten[o])
        /\ Cardinality(beaten[s]) # Cardinality(beaten[o])
    BY <1>3, <2>1, FS_Subset
  <2>3. ~(Cardinality(beaten[o]) <= Cardinality(beaten[s]))
    BY <1>3, <2>2
  <2>4. score[s] \in Nat /\ score[o] \in Nat
    BY <1>1
  <2>5. QED
    BY <1>6, <2>3, <2>4 DEF score, beaten
<1>7. score[s] \in Nat /\ score[o] \in Nat
  BY <1>1
<1>8. QED
  BY <1>5, <1>6, <1>7

LEMMA PartIsShare ==
  ASSUME AwardInv, ScoreIsStrength, NEW k \in Seats, NEW s \in Seats
  PROVE  PartOf(k, s) = Hand!Share(Ranked, k, s)
<1>1. /\ Ranked.committed = contributions /\ Ranked.folded = folded
      /\ \A o \in Seats : Ranked.score[o] = Cardinality(Beaten[dealing][o])
  BY DEF Ranked
<1>2. dealing \in Dealings
  BY DEF AwardInv
<1> DEFINE in == Eligible(contributions, folded, k)
<1>3. in \subseteq Seats
  BY DEF Eligible, Live
<1>4. Hand!Winners(Ranked, k) = {o \in in : \A p \in in : Ranked.score[p] <= Ranked.score[o]}
  BY <1>1, HandWords DEF Hand!Winners
<1>5. BestOf(k) = {o \in in : \A p \in in : Score[dealing][p] <= Score[dealing][o]}
  BY DEF BestOf
<1> HIDE DEF in
<1>6. \A o, p \in in : Ranked.score[p] <= Ranked.score[o]
                         <=> Score[dealing][p] <= Score[dealing][o]
  BY <1>1, <1>2, <1>3, RanksAsScores
<1>7. Hand!Winners(Ranked, k) = BestOf(k)
  BY <1>4, <1>5, <1>6
<1>8. Hand!Amount(Ranked.committed, Ranked.folded, k) = Amount(contributions, folded, k)
  BY <1>1, HandWords
<1> DEFINE W == Hand!Winners(Ranked, k)
           amount == Hand!Amount(Ranked.committed, Ranked.folded, k)
           share == IF s \notin W THEN 0
                    ELSE (amount \div Cardinality(W))
                           + IF \A o \in W : s <= o THEN amount % Cardinality(W) ELSE 0
<1>9. Hand!Share(Ranked, k, s) = share
  BY HandWords, Zenon DEF Hand!Share
<1>10. share = PartOf(k, s)
  <2>1. W = BestOf(k) /\ amount = Amount(contributions, folded, k)
    BY <1>7, <1>8
  <2> HIDE DEF W, amount
  <2>2. QED
    BY <2>1, Zenon DEF PartOf
<1>11. QED
  BY <1>9, <1>10

---------------------------------------------------------------------------
(* The scores. *)

LEMMA HoldingsAreSeven ==
  ASSUME NEW d \in Dealings, NEW s \in Seats
  PROVE  SevenCards(Holding(d, s))
<1>1. d.board \in [1..5 -> Cards] /\ d.hole[s] \in [1..2 -> Cards]
  BY ShowdownAssumption
<1>2. Holding(d, s) \in [1..7 -> Cards]
  <2> SUFFICES ASSUME NEW i \in 1..7
               PROVE  (IF i <= 2 THEN d.hole[s][i] ELSE d.board[i - 2]) \in Cards
    BY DEF Holding
  <2>1. CASE i <= 2
    BY <1>1, <2>1
  <2>2. CASE ~ (i <= 2)
    BY <1>1, <2>2
  <2>3. QED
    BY <2>1, <2>2
<1>3. QED
  BY <1>2, DealingsAssumption DEF SevenCards

LEMMA ScoresAreStrength ==
  ASSUME dealing \in Dealings
  PROVE  ScoreIsStrength
<1>1. \A s \in Seats : SevenCards(Holding(dealing, s))
  BY HoldingsAreSeven
<1>2. \A s \in Seats : Score[dealing][s] = Evaluate7(Holding(dealing, s))
  BY DEF Score
<1>3. \A s \in Seats : BestFive[dealing][s] = Strongest(Holding(dealing, s))
  BY DEF BestFive
<1>4. \A s \in Seats : Score[dealing][s] \in Nat
  BY <1>1, <1>2, ScoreOrdersHoldings
<1>5. Score[dealing] \in [Seats -> Nat]
  <2>1. Score[dealing] = [s \in Seats |-> Evaluate7(Holding(dealing, s))]
    BY DEF Score
  <2>2. QED
    BY <1>2, <1>4, <2>1
<1>6. \A s, o \in Seats :
        o \in Beaten[dealing][s] <=> StrongerThan(BestFive[dealing][s], BestFive[dealing][o])
  BY DEF Beaten
<1>7. ASSUME NEW s \in Seats, NEW o \in Seats
      PROVE  /\ Score[dealing][s] > Score[dealing][o] <=> o \in Beaten[dealing][s]
             /\ Score[dealing][s] \div CategoryUnit = Kind(BestFive[dealing][s])
  <2>1. /\ Evaluate7(Holding(dealing, s)) > Evaluate7(Holding(dealing, o))
             <=> StrongerThan(Strongest(Holding(dealing, s)), Strongest(Holding(dealing, o)))
        /\ Evaluate7(Holding(dealing, s)) \div CategoryUnit = Kind(Strongest(Holding(dealing, s)))
    BY <1>1, ScoreOrdersHoldings
  <2>2. QED
    BY <1>2, <1>3, <1>6, <2>1
<1>8. QED
  BY <1>5, <1>7 DEF ScoreIsStrength

\* The integer that eval.go packs orders any two holdings of any deal as the rules of
\* poker do, and is equal for hands that tie; its category is the kind of the best five
\* cards (eval.go:50-52, 188-282).
THEOREM ScoresOrderHands == ShowdownSpec => []ScoreIsStrength
<1>1. AwardInv => ScoreIsStrength
  BY ScoresAreStrength DEF AwardInv
<1>2. QED
  BY <1>1, AwardInvariance, PTL

\* Settling pot by pot, with the scores of eval.go, pays every seat what module Hand pays
\* it in one step from the ranking of the hands by the rules of poker, however cards,
\* contributions, folded seats, ties and odd chips fall (hand.go:612-651).
THEOREM PotByPotIsOneStep == ShowdownSpec => []PaysAsOneStep
<1>1. AwardInv /\ ScoreIsStrength => PaysAsOneStep
  <2> SUFFICES ASSUME AwardInv, ScoreIsStrength, done, awarded = Len(pots), NEW s \in Seats
               PROVE  won[s] = Total([k \in Seats |->
                                       IF k \in Layers(contributions, folded)
                                       THEN Hand!Share(Ranked, k, s) ELSE 0])
    BY DEF PaysAsOneStep
  <2>1. LoopInv /\ TypeOK
    BY DEF AwardInv, LoopInv
  <2>2. PICK level \in 0..MaxChips : Reached(level)
    BY <2>1 DEF LoopInv
  <2>3. contributions \in [Seats -> Nat]
    BY <2>1, MaxChipsAssumption DEF TypeOK
  <2>4. \A k \in Layers(contributions, folded) : k \in Contributors
    BY <2>3, LiveFacts DEF Contributors
  <2>5. Below(level) = Layers(contributions, folded)
    BY <2>2, <2>4 DEF Below, Reached
  <2>6. \A k \in Layers(contributions, folded) : Number(k) <= Len(pots)
    <3>1. Len(pots) = Cardinality(Below(level)) /\ Len(pots) \in Nat
      BY <2>1, <2>2 DEF Reached, TypeOK
    <3>2. QED
      BY <2>1, <2>5, <3>1, BelowFacts
  <2>7. PartsUpTo(awarded, s) = [k \in Seats |-> IF k \in Layers(contributions, folded)
                                                 THEN Hand!Share(Ranked, k, s) ELSE 0]
    BY <2>6, PartIsShare DEF PartsUpTo
  <2>8. QED
    BY <2>7 DEF AwardInv
<1>2. AwardInv => ScoreIsStrength
  BY ScoresAreStrength DEF AwardInv
<1>3. QED
  BY <1>1, <1>2, AwardInvariance, PTL
=========================================================================
