--------------------------- MODULE PotProofs ---------------------------
(* The pots of a hand as layers: for any contributions, folded seats and    *)
(* number of seats up to six they hold exactly the chips that were put in.  *)
(* The sums, the levels and the floors are used by the proofs about the     *)
(* loop that makes the pots and by those about the hand that pays them out. *)
EXTENDS SidePots, FiniteSetTheorems, TLAPS
---------------------------------------------------------------------------
(* Sums over the seats. *)

LEMMA SeatNumbers == /\ Seats \subseteq Nat
                     /\ MaxSeats \in Nat
                     /\ \A s \in Seats : s >= 0 /\ s <= 5 /\ s < MaxSeats
BY MaxSeatsAssumption DEF Seats

LEMMA LowerFacts == \A a, b \in Nat : /\ Lower(a, b) \in Nat
                                      /\ Lower(a, b) <= a
                                      /\ Lower(a, b) <= b
BY DEF Lower

LEMMA TotalNat == \A f \in [Seats -> Nat] : Total(f) \in Nat
<1>1. \A f \in [Seats -> Nat] : \A s \in 0..5 : At(f, s) \in Nat
  BY DEF At
<1>2. QED
  BY <1>1 DEF Total

LEMMA TotalInt == \A f \in [Seats -> Int] : Total(f) \in Int
<1>1. \A f \in [Seats -> Int] : \A s \in 0..5 : At(f, s) \in Int
  BY DEF At
<1>2. QED
  BY <1>1 DEF Total

LEMMA TotalPlus ==
  ASSUME NEW f \in [Seats -> Int], NEW g \in [Seats -> Int], NEW h \in [Seats -> Int],
         \A s \in Seats : h[s] = f[s] + g[s]
  PROVE  Total(h) = Total(f) + Total(g)
<1>1. \A s \in 0..5 : /\ At(h, s) = At(f, s) + At(g, s)
                      /\ At(f, s) \in Int /\ At(g, s) \in Int
  BY DEF At
<1>2. QED
  BY <1>1 DEF Total

LEMMA TotalLess ==
  ASSUME NEW f \in [Seats -> Int], NEW g \in [Seats -> Int],
         \A s \in Seats : f[s] <= g[s]
  PROVE  Total(f) <= Total(g)
<1>1. \A s \in 0..5 : At(f, s) <= At(g, s) /\ At(f, s) \in Int /\ At(g, s) \in Int
  BY DEF At
<1>2. QED
  BY <1>1 DEF Total

LEMMA TotalSingle ==
  ASSUME NEW k \in Seats, NEW x \in Int, NEW f \in [Seats -> Int],
         f[k] = x, \A s \in Seats \ {k} : f[s] = 0
  PROVE  Total(f) = x
<1>1. k \in 0..5
  BY SeatNumbers
<1>2. \A s \in 0..5 : At(f, s) = IF s = k THEN x ELSE 0
  BY DEF At
<1>3. QED
  BY <1>1, <1>2 DEF Total

NoChips == [s \in Seats |-> 0]

LEMMA TotalZero == Total(NoChips) = 0
<1>1. \A s \in 0..5 : At(NoChips, s) = 0
  BY DEF At, NoChips
<1>2. QED
  BY <1>1 DEF Total

\* Among seats there is a first one by any measure, and a last one.
LEMMA FirstSeat ==
  ASSUME NEW B \in SUBSET Seats, B # {}, NEW f \in [Seats -> Int]
  PROVE  \E s \in B : \A o \in B : f[s] <= f[o]
<1> DEFINE First(n) ==
      (\E o \in B : o < n) => \E s \in B : s < n /\ \A o \in B : o < n => f[s] <= f[o]
<1>1. B \subseteq 0..5 /\ \A s \in B : s \in Int /\ f[s] \in Int
  BY SeatNumbers
<1>2. First(0)
  BY <1>1
<1>3. ASSUME NEW n \in 0..5, First(n) PROVE First(n + 1)
  <2>1. \A o \in B : o < n + 1 <=> o < n \/ o = n
    BY <1>1
  <2>2. CASE n \notin B
    BY <1>3, <2>1, <2>2
  <2>3. CASE n \in B /\ ~\E o \in B : o < n
    BY <1>1, <2>1, <2>3
  <2>4. CASE n \in B /\ \E o \in B : o < n
    <3>1. PICK s \in B : s < n /\ \A o \in B : o < n => f[s] <= f[o]
      BY <1>3, <2>4
    <3>2. CASE f[s] <= f[n]
      BY <1>1, <2>1, <2>4, <3>1, <3>2
    <3>3. CASE f[n] < f[s]
      BY <1>1, <2>1, <2>4, <3>1, <3>3
    <3>4. QED
      BY <1>1, <2>4, <3>2, <3>3
  <2>5. QED
    BY <2>2, <2>3, <2>4
<1>4. First(6)
  <2> HIDE DEF First
  <2>1. First(0 + 1)
    BY <1>2, <1>3
  <2>2. First(1 + 1)
    BY <1>3, <2>1
  <2>3. First(2 + 1)
    BY <1>3, <2>2
  <2>4. First(3 + 1)
    BY <1>3, <2>3
  <2>5. First(4 + 1)
    BY <1>3, <2>4
  <2>6. First(5 + 1)
    BY <1>3, <2>5
  <2>7. QED
    BY <2>6
<1>5. \A o \in B : o < 6
  BY <1>1
<1>6. \E s \in B : s < 6 /\ \A o \in B : o < 6 => f[s] <= f[o]
  BY <1>4, <1>5
<1>7. QED
  BY <1>5, <1>6

LEMMA LastSeat ==
  ASSUME NEW B \in SUBSET Seats, B # {}, NEW f \in [Seats -> Int]
  PROVE  \E s \in B : \A o \in B : f[o] <= f[s]
<1> DEFINE g == [s \in Seats |-> -f[s]]
<1>1. g \in [Seats -> Int] /\ \A s \in Seats : g[s] = -f[s] /\ f[s] \in Int
  OBVIOUS
<1> HIDE DEF g
<1>2. PICK s \in B : \A o \in B : g[s] <= g[o]
  BY <1>1, FirstSeat
<1>3. \A o \in B : f[o] <= f[s]
  BY <1>1, <1>2
<1>4. QED
  BY <1>3

\* No seat holds more than the total.
LEMMA TotalBounds ==
  ASSUME NEW f \in [Seats -> Nat], NEW s \in Seats
  PROVE  f[s] <= Total(f)
<1>1. \A o \in 0..5 : At(f, o) \in Nat
  BY DEF At
<1>2. s \in 0..5 /\ At(f, s) = f[s]
  BY SeatNumbers DEF At
<1>3. QED
  BY <1>1, <1>2 DEF Total

LEMMA TotalTimes ==
  ASSUME NEW q \in Int, NEW f \in [Seats -> Int], NEW g \in [Seats -> Int],
         \A s \in Seats : g[s] = q * f[s]
  PROVE  Total(g) = q * Total(f)
<1>1. \A s \in 0..5 : At(f, s) \in Int /\ At(g, s) = q * At(f, s)
  BY DEF At
<1>2. \A x, y \in Int : q * (x + y) = q * x + q * y
  OBVIOUS
<1>3. Total(f) = ((((At(f, 0) + At(f, 1)) + At(f, 2)) + At(f, 3)) + At(f, 4)) + At(f, 5)
  BY DEF Total
<1>4. Total(g) = q * At(f, 0) + q * At(f, 1) + q * At(f, 2) + q * At(f, 3)
                   + q * At(f, 4) + q * At(f, 5)
  BY <1>1 DEF Total
<1> DEFINE a == At(f, 0)  b == At(f, 1)  c == At(f, 2)
           d == At(f, 3)  e == At(f, 4)  z == At(f, 5)
<1>5. a \in Int /\ b \in Int /\ c \in Int /\ d \in Int /\ e \in Int /\ z \in Int
  BY <1>1
<1> HIDE DEF a, b, c, d, e, z
<1>6. q * (((((a + b) + c) + d) + e) + z) = q * a + q * b + q * c + q * d + q * e + q * z
  BY <1>2, <1>5
<1>7. QED
  BY <1>3, <1>4, <1>6 DEF a, b, c, d, e, z

\* A set of seats counted seat by seat.
LEMMA CountIsTotal ==
  ASSUME NEW W \in SUBSET Seats
  PROVE  Total([s \in Seats |-> IF s \in W THEN 1 ELSE 0]) = Cardinality(W)
<1> DEFINE one == [s \in Seats |-> IF s \in W THEN 1 ELSE 0]
           First(n) == {s \in W : s < n}
<1>1. W \subseteq 0..5 /\ \A s \in W : s \in Int
  BY SeatNumbers
<1>2. \A n \in 0..5 : At(one, n) = IF n \in W THEN 1 ELSE 0
  BY DEF At
<1>3. \A n : \A x : x \in First(n) <=> x \in W /\ x < n
  OBVIOUS
<1> HIDE DEF First
<1>4. \A n \in 0..5 : /\ n \in W => First(n + 1) = First(n) \cup {n}
                      /\ n \notin W => First(n + 1) = First(n)
  <2> TAKE n \in 0..5
  <2>1. \A x \in W : x < n + 1 <=> x < n \/ x = n
    BY <1>1
  <2>2. n < n + 1
    OBVIOUS
  <2>3. CASE n \in W
    <3>1. \A x : x \in First(n + 1) <=> x \in First(n) \cup {n}
      BY <1>3, <2>1, <2>2, <2>3
    <3>2. QED
      BY <2>3, <3>1, Zenon
  <2>4. CASE n \notin W
    <3>1. \A x : x \in First(n + 1) <=> x \in First(n)
      BY <1>3, <2>1, <2>4
    <3>2. QED
      BY <2>4, <3>1, Zenon
  <2>5. QED
    BY <2>3, <2>4
<1>5. \A n \in 0..6 : IsFiniteSet(First(n)) /\ n \notin First(n)
  <2> TAKE n \in 0..6
  <2>1. IsFiniteSet(Seats)
    BY MaxSeatsAssumption, FS_Interval DEF Seats
  <2>2. First(n) \subseteq Seats
    BY <1>3
  <2>3. QED
    BY <1>3, <2>1, <2>2, FS_Subset
<1>6. First(6) = W /\ First(0) = {}
  <2>1. \A x \in W : x < 6 /\ ~(x < 0)
    BY <1>1
  <2>2. \A x : x \in First(6) <=> x \in W
    BY <1>3, <2>1, Zenon
  <2>3. \A x : x \notin First(0)
    BY <1>3, <2>1, Zenon
  <2>4. QED
    BY <2>2, <2>3, Zenon
<1> HIDE DEF one
<1>7. Cardinality(First(0)) = 0
  BY <1>6, FS_EmptySet
<1>8. \A n \in 0..5 : Cardinality(First(n + 1)) = Cardinality(First(n)) + At(one, n)
  <2> TAKE n \in 0..5
  <2>1. Cardinality(First(n)) \in Nat
    BY <1>5, FS_CardinalityType
  <2>2. CASE n \in W
    BY <1>2, <1>4, <1>5, <2>1, <2>2, FS_AddElement
  <2>3. CASE n \notin W
    BY <1>2, <1>4, <2>1, <2>3
  <2>4. QED
    BY <2>2, <2>3
<1>9. /\ Cardinality(First(1)) = Cardinality(First(0)) + At(one, 0)
      /\ Cardinality(First(2)) = Cardinality(First(1)) + At(one, 1)
      /\ Cardinality(First(3)) = Cardinality(First(2)) + At(one, 2)
      /\ Cardinality(First(4)) = Cardinality(First(3)) + At(one, 3)
      /\ Cardinality(First(5)) = Cardinality(First(4)) + At(one, 4)
      /\ Cardinality(First(6)) = Cardinality(First(5)) + At(one, 5)
  <2>1. /\ Cardinality(First(0 + 1)) = Cardinality(First(0)) + At(one, 0)
        /\ Cardinality(First(1 + 1)) = Cardinality(First(1)) + At(one, 1)
        /\ Cardinality(First(2 + 1)) = Cardinality(First(2)) + At(one, 2)
        /\ Cardinality(First(3 + 1)) = Cardinality(First(3)) + At(one, 3)
        /\ Cardinality(First(4 + 1)) = Cardinality(First(4)) + At(one, 4)
        /\ Cardinality(First(5 + 1)) = Cardinality(First(5)) + At(one, 5)
    BY <1>8
  <2>2. 0 + 1 = 1 /\ 1 + 1 = 2 /\ 2 + 1 = 3 /\ 3 + 1 = 4 /\ 4 + 1 = 5 /\ 5 + 1 = 6
    OBVIOUS
  <2>3. QED
    BY <2>1, <2>2
<1>10. \A n \in 0..5 : At(one, n) \in Int
  BY <1>2
<1>11. Cardinality(W) = Total(one)
  BY <1>6, <1>7, <1>9, <1>10 DEF Total
<1>12. QED
  BY <1>11 DEF one

\* A table of numbers adds up to the same by rows and by columns.
LEMMA TotalSwap ==
  ASSUME NEW M \in [Seats -> [Seats -> Int]]
  PROVE  Total([i \in Seats |-> Total([k \in Seats |-> M[i][k]])])
           = Total([k \in Seats |-> Total([i \in Seats |-> M[i][k]])])
<1> DEFINE Row(i) == [k \in Seats |-> IF i \in Seats THEN M[i][k] ELSE 0]
           Column(k) == [i \in Seats |-> M[i][k]]
           f == [i \in Seats |-> Total([k \in Seats |-> M[i][k]])]
           g == [k \in Seats |-> Total(Column(k))]
           g1 == [k \in Seats |-> Row(0)[k] + Row(1)[k]]
           g2 == [k \in Seats |-> g1[k] + Row(2)[k]]
           g3 == [k \in Seats |-> g2[k] + Row(3)[k]]
           g4 == [k \in Seats |-> g3[k] + Row(4)[k]]
           g5 == [k \in Seats |-> g4[k] + Row(5)[k]]
<1>1. \A i \in 0..5 : Row(i) \in [Seats -> Int]
  OBVIOUS
<1>2. \A i \in 0..5 : At(f, i) = Total(Row(i))
  <2> TAKE i \in 0..5
  <2>1. CASE i \in Seats
    BY <2>1 DEF At
  <2>2. CASE i \notin Seats
    <3>1. Row(i) = NoChips
      BY <2>2 DEF NoChips
    <3>2. QED
      BY <2>2, <3>1, TotalZero DEF At
  <2>3. QED
    BY <2>1, <2>2
<1>3. \A i \in 0..5 : \A k \in Seats : At(Column(k), i) = Row(i)[k] /\ Row(i)[k] \in Int
  BY DEF At
<1> HIDE DEF Row, Column
<1>4. /\ g1 \in [Seats -> Int] /\ g2 \in [Seats -> Int] /\ g3 \in [Seats -> Int]
      /\ g4 \in [Seats -> Int] /\ g5 \in [Seats -> Int]
  BY <1>3
<1>5. \A k \in Seats : g5[k] = Total(Column(k))
  BY <1>3 DEF Total
<1>6. g5 = g
  BY <1>5
<1>7. /\ \A k \in Seats : g1[k] = Row(0)[k] + Row(1)[k]
      /\ \A k \in Seats : g2[k] = g1[k] + Row(2)[k]
      /\ \A k \in Seats : g3[k] = g2[k] + Row(3)[k]
      /\ \A k \in Seats : g4[k] = g3[k] + Row(4)[k]
      /\ \A k \in Seats : g5[k] = g4[k] + Row(5)[k]
  OBVIOUS
<1> HIDE DEF f, g, g1, g2, g3, g4, g5
<1>8. \A i \in 0..5 : Total(Row(i)) \in Int
  BY <1>1, TotalInt
<1>9. Total(f) = Total(Row(0)) + Total(Row(1)) + Total(Row(2)) + Total(Row(3))
                   + Total(Row(4)) + Total(Row(5))
  BY <1>2 DEF Total
<1>10. \A i \in 0..5 : \A p, q \in [Seats -> Int] :
         (\A k \in Seats : q[k] = p[k] + Row(i)[k]) => Total(q) = Total(p) + Total(Row(i))
  <2> TAKE i \in 0..5
  <2> TAKE p, q \in [Seats -> Int]
  <2> DEFINE r == Row(i)
  <2> HAVE \A k \in Seats : q[k] = p[k] + r[k]
  <2>1. r \in [Seats -> Int]
    BY <1>1
  <2> HIDE DEF r
  <2>2. Total(q) = Total(p) + Total(r)
    BY <2>1, TotalPlus
  <2>3. QED
    BY <2>2 DEF r
<1>11. Row(0) \in [Seats -> Int] /\ {0, 1, 2, 3, 4, 5} \subseteq 0..5
  BY <1>1
<1> HIDE DEF Row
<1>12. Total(g1) = Total(Row(0)) + Total(Row(1))
  BY <1>4, <1>7, <1>10, <1>11
<1>13. Total(g2) = Total(g1) + Total(Row(2))
  BY <1>4, <1>7, <1>10, <1>11
<1>14. Total(g3) = Total(g2) + Total(Row(3))
  BY <1>4, <1>7, <1>10, <1>11
<1>15. Total(g4) = Total(g3) + Total(Row(4))
  BY <1>4, <1>7, <1>10, <1>11
<1>16. Total(g5) = Total(g4) + Total(Row(5))
  BY <1>4, <1>7, <1>10, <1>11
<1>17. Total(f) = Total(g)
  BY <1>6, <1>8, <1>9, <1>12, <1>13, <1>14, <1>15, <1>16
<1>18. QED
  BY <1>17 DEF f, g, Column
---------------------------------------------------------------------------
(* The layers. *)

\* A pot's floor is below its level, and no seat puts in less than nothing.
LEMMA AmountNat ==
  ASSUME NEW c \in [Seats -> Nat], NEW F, NEW k \in Live(c, F)
  PROVE  Amount(c, F, k) \in Nat
<1> DEFINE under == {o \in Live(c, F) : c[o] < c[k]}
           next == {o \in under : \A p \in under : c[p] <= c[o]}
<1>1. k \in Seats /\ c[k] \in Nat
  BY DEF Live
<1>2. FloorOf(c, F, k) \in Nat /\ FloorOf(c, F, k) <= c[k]
  <2>1. CASE next = {}
    BY <1>1, <2>1 DEF FloorOf
  <2>2. CASE next # {}
    <3>1. (CHOOSE o \in next : TRUE) \in next
      BY <2>2
    <3>2. QED
      BY <1>1, <2>2, <3>1 DEF FloorOf, Live
  <2>3. QED
    BY <2>1, <2>2
<1>3. \A s \in Seats : Slice(c, F, k, s) \in Nat
  <2> TAKE s \in Seats
  <2> DEFINE floor == Lower(c[s], FloorOf(c, F, k))
  <2>1. c[s] \in Nat
    OBVIOUS
  <2>2. floor \in Nat /\ floor <= c[s] /\ floor <= c[k]
    BY <1>1, <1>2, <2>1 DEF Lower
  <2>3. Lower(c[s], c[k]) \in Nat /\ floor <= Lower(c[s], c[k])
    BY <1>1, <2>1, <2>2 DEF Lower
  <2>4. QED
    BY <2>1, <2>2, <2>3 DEF Slice
<1>4. [s \in Seats |-> Slice(c, F, k, s)] \in [Seats -> Nat]
  BY <1>3
<1>5. QED
  BY <1>4, TotalNat DEF Amount

LEMMA LiveFacts ==
  ASSUME NEW c \in [Seats -> Nat], NEW F
  PROVE  /\ Live(c, F) \in SUBSET Seats
         /\ \A s \in Seats : s \in Live(c, F) <=> c[s] > 0 /\ s \notin F
         /\ Layers(c, F) \subseteq Live(c, F)
         /\ \A j, k \in Layers(c, F) : c[j] = c[k] => j = k
<1>1. \A s : s \in Live(c, F) <=> s \in Seats /\ c[s] > 0 /\ s \notin F
  BY DEF Live
<1>2. \A k : k \in Layers(c, F) <=>
             k \in Live(c, F) /\ \A o \in Live(c, F) : c[o] = c[k] => k <= o
  BY DEF Layers
<1>3. ASSUME NEW j \in Layers(c, F), NEW k \in Layers(c, F), c[j] = c[k]
      PROVE  j = k
  <2>1. j \in Nat /\ k \in Nat
    BY <1>1, <1>2, SeatNumbers
  <2>2. j <= k /\ k <= j
    BY <1>2, <1>3
  <2>3. QED
    BY <2>1, <2>2
<1>4. QED
  BY <1>1, <1>2, <1>3

\* Every live seat's contribution is the level of a layer.
LEMMA HasLayer ==
  ASSUME NEW c \in [Seats -> Nat], NEW F, NEW p \in Live(c, F)
  PROVE  \E k \in Layers(c, F) : c[k] = c[p]
<1> DEFINE same == {o \in Live(c, F) : c[o] = c[p]}
           number == [s \in Seats |-> s]
<1>1. /\ number \in [Seats -> Int] /\ \A s \in Seats : number[s] = s
      /\ same \in SUBSET Seats /\ same # {}
      /\ \A o : o \in same <=> o \in Live(c, F) /\ c[o] = c[p]
  BY SeatNumbers, LiveFacts
<1> HIDE DEF number, same
<1>2. PICK k \in same : \A o \in same : number[k] <= number[o]
  BY <1>1, FirstSeat
<1>3. \A o \in Live(c, F) : c[o] = c[k] => k <= o
  BY <1>1, <1>2
<1>4. k \in Layers(c, F)
  BY <1>1, <1>2, <1>3 DEF Layers
<1>5. QED
  BY <1>1, <1>2, <1>4

\* A layer's floor is nothing, or the level of the layer just below.
LEMMA FloorFacts ==
  ASSUME NEW c \in [Seats -> Nat], NEW F, NEW k \in Live(c, F)
  PROVE  \/ /\ FloorOf(c, F, k) = 0
            /\ \A o \in Live(c, F) : c[k] <= c[o]
         \/ \E i \in Layers(c, F) :
              /\ FloorOf(c, F, k) = c[i] /\ c[i] < c[k]
              /\ \A o \in Live(c, F) : c[o] < c[k] => c[o] <= c[i]
<1> DEFINE under == {o \in Live(c, F) : c[o] < c[k]}
           next == {o \in under : \A p \in under : c[p] <= c[o]}
<1>1. \A o : o \in under <=> o \in Live(c, F) /\ c[o] < c[k]
  OBVIOUS
<1>2. \A o : o \in next <=> o \in under /\ \A p \in under : c[p] <= c[o]
  OBVIOUS
<1>3. FloorOf(c, F, k) = IF next = {} THEN 0 ELSE c[CHOOSE o \in next : TRUE]
  BY DEF FloorOf
<1>4. under \in SUBSET Seats /\ c \in [Seats -> Int] /\ \A o \in Live(c, F) : c[o] \in Nat
  BY LiveFacts
<1>5. c[k] \in Nat
  BY LiveFacts
<1> HIDE DEF under, next
<1>6. CASE under = {}
  BY <1>1, <1>2, <1>3, <1>4, <1>5, <1>6
<1>7. CASE under # {}
  <2>1. next # {}
    BY <1>2, <1>4, <1>7, LastSeat
  <2>2. PICK p \in next : FloorOf(c, F, k) = c[p]
    BY <1>3, <2>1
  <2>3. p \in Live(c, F) /\ c[p] < c[k] /\ \A o \in Live(c, F) : c[o] < c[k] => c[o] <= c[p]
    BY <1>1, <1>2, <2>2
  <2>4. PICK i \in Layers(c, F) : c[i] = c[p]
    BY <2>3, HasLayer
  <2>5. QED
    BY <2>2, <2>3, <2>4
<1>8. QED
  BY <1>6, <1>7

\* What the pots up to layer k hold together: from every seat what it has put in up
\* to the layer's level, or everything when no live seat has put in more.
Capped(c, level) == [s \in Seats |-> Lower(c[s], level)]
Reach(c, F, k) == IF IsTop(c, F, k) THEN Total(c) ELSE Total(Capped(c, c[k]))

LEMMA CappedFacts ==
  ASSUME NEW c \in [Seats -> Nat], NEW level \in Nat
  PROVE  /\ Capped(c, level) \in [Seats -> Nat]
         /\ \A s \in Seats : Capped(c, level)[s] = Lower(c[s], level)
BY LowerFacts DEF Capped

LEMMA AmountIsDifference ==
  ASSUME NEW c \in [Seats -> Nat], NEW F, NEW k \in Live(c, F)
  PROVE  /\ FloorOf(c, F, k) \in Nat
         /\ Reach(c, F, k) = Amount(c, F, k) + Total(Capped(c, FloorOf(c, F, k)))
<1> DEFINE floor == FloorOf(c, F, k)
           slice == [s \in Seats |-> Slice(c, F, k, s)]
           top == IsTop(c, F, k)
<1>1. floor \in Nat /\ c[k] \in Nat
  BY FloorFacts, LiveFacts
<1>2. /\ Amount(c, F, k) = Total(slice)
      /\ \A s \in Seats : slice[s] = IF top THEN c[s] - Lower(c[s], floor)
                                     ELSE Lower(c[s], c[k]) - Lower(c[s], floor)
  BY DEF Amount, Slice
<1>3. /\ Capped(c, floor) \in [Seats -> Nat] /\ Capped(c, c[k]) \in [Seats -> Nat]
      /\ \A s \in Seats : /\ Capped(c, floor)[s] = Lower(c[s], floor)
                          /\ Capped(c, c[k])[s] = Lower(c[s], c[k])
                          /\ c[s] \in Nat /\ Lower(c[s], floor) \in Nat
                          /\ Lower(c[s], c[k]) \in Nat
  BY <1>1, CappedFacts, LowerFacts
<1>4. slice \in [Seats -> Int]
  <2>1. \A s \in Seats : Slice(c, F, k, s) \in Int
    BY <1>2, <1>3
  <2>2. QED
    BY <2>1
<1> HIDE DEF slice, floor, top
<1>5. CASE top
  <2>1. \A s \in Seats : c[s] = slice[s] + Capped(c, floor)[s]
    BY <1>2, <1>3, <1>5
  <2>2. Total(c) = Total(slice) + Total(Capped(c, floor))
    BY <1>3, <1>4, <2>1, TotalPlus
  <2>3. QED
    BY <1>1, <1>2, <1>5, <2>2 DEF Reach, top, floor
<1>6. CASE ~top
  <2>1. \A s \in Seats : Capped(c, c[k])[s] = slice[s] + Capped(c, floor)[s]
    BY <1>2, <1>3, <1>6
  <2>2. Total(Capped(c, c[k])) = Total(slice) + Total(Capped(c, floor))
    BY <1>3, <1>4, <2>1, TotalPlus
  <2>3. QED
    BY <1>1, <1>2, <1>6, <2>2 DEF Reach, top, floor
<1>7. QED
  BY <1>5, <1>6

\* The chips in the pots of the layers in K.
PotsOf(c, F, K) == [k \in Seats |-> IF k \in K THEN Amount(c, F, k) ELSE 0]
UpTo(c, F, j) == {k \in Layers(c, F) : c[k] <= c[j]}

LEMMA PotsOfFacts ==
  ASSUME NEW c \in [Seats -> Nat], NEW F, NEW K \in SUBSET Layers(c, F)
  PROVE  /\ PotsOf(c, F, K) \in [Seats -> Nat]
         /\ \A k \in Seats : PotsOf(c, F, K)[k] = IF k \in K THEN Amount(c, F, k) ELSE 0
<1>1. \A k \in K : Amount(c, F, k) \in Nat
  BY LiveFacts, AmountNat
<1>2. QED
  BY <1>1 DEF PotsOf

\* The layers telescope: up to any of them, the pots hold what they should.
LEMMA Telescope ==
  ASSUME NEW c \in [Seats -> Nat], NEW F, NEW j \in Layers(c, F)
  PROVE  Total(PotsOf(c, F, UpTo(c, F, j))) = Reach(c, F, j)
<1> DEFINE Held(k) == Total(PotsOf(c, F, UpTo(c, F, k))) = Reach(c, F, k)
           wrong == {k \in Layers(c, F) : ~Held(k)}
<1>1. \A k : k \in wrong <=> k \in Layers(c, F) /\ ~Held(k)
  OBVIOUS
<1>2. wrong \in SUBSET Seats /\ c \in [Seats -> Int]
  BY LiveFacts
<1> HIDE DEF wrong, Held
<1> SUFFICES ASSUME wrong # {} PROVE FALSE
  BY <1>1 DEF Held
<1>3. PICK k \in wrong : \A o \in wrong : c[k] <= c[o]
  BY <1>2, FirstSeat
<1>4. k \in Layers(c, F) /\ k \in Live(c, F) /\ k \in Seats /\ c[k] \in Nat
  BY <1>1, <1>3, LiveFacts
<1>5. \A i \in Layers(c, F) : i \in Live(c, F) /\ i \in Seats /\ c[i] \in Nat
  BY LiveFacts
<1>6. \A i : UpTo(c, F, i) \in SUBSET Layers(c, F)
  BY DEF UpTo
<1>7. \A i, o \in Layers(c, F) : o \in UpTo(c, F, i) <=> c[o] <= c[i]
  BY DEF UpTo
<1> DEFINE pots == PotsOf(c, F, UpTo(c, F, k))
<1>8. /\ pots \in [Seats -> Nat]
      /\ \A o \in Seats : pots[o] = IF o \in UpTo(c, F, k) THEN Amount(c, F, o) ELSE 0
  BY <1>6, PotsOfFacts
<1>9. Amount(c, F, k) \in Nat
  BY <1>4, AmountNat
<1>10. Reach(c, F, k) = Amount(c, F, k) + Total(Capped(c, FloorOf(c, F, k)))
  BY <1>4, AmountIsDifference
<1> HIDE DEF pots
<1>11. CASE FloorOf(c, F, k) = 0 /\ \A o \in Live(c, F) : c[k] <= c[o]
  <2>1. \A o \in Layers(c, F) : o \in UpTo(c, F, k) <=> o = k
    BY <1>4, <1>5, <1>7, <1>11, LiveFacts
  <2>2. \A o \in UpTo(c, F, k) : o \in Layers(c, F)
    BY <1>6
  <2>3. pots[k] = Amount(c, F, k) /\ \A o \in Seats \ {k} : pots[o] = 0
    BY <1>4, <1>8, <2>1, <2>2
  <2>4. Total(pots) = Amount(c, F, k)
    BY <1>4, <1>8, <1>9, <2>3, TotalSingle
  <2>5. Total(Capped(c, 0)) = 0
    <3>1. \A s \in Seats : Capped(c, 0)[s] = 0
      BY CappedFacts DEF Lower
    <3>2. Capped(c, 0) = NoChips
      BY <3>1 DEF Capped, NoChips
    <3>3. QED
      BY <3>2, TotalZero
  <2>6. Held(k)
    BY <1>9, <1>10, <1>11, <2>4, <2>5 DEF Held, pots
  <2>7. QED
    BY <1>1, <1>3, <2>6
<1>12. ASSUME NEW i \in Layers(c, F), FloorOf(c, F, k) = c[i], c[i] < c[k],
              \A o \in Live(c, F) : c[o] < c[k] => c[o] <= c[i]
       PROVE  FALSE
  <2> DEFINE lower == PotsOf(c, F, UpTo(c, F, i))
             mine == [s \in Seats |-> IF s = k THEN Amount(c, F, k) ELSE 0]
  <2>1. Held(i)
    BY <1>1, <1>2, <1>3, <1>4, <1>5, <1>12
  <2>2. Total(lower) = Total(Capped(c, c[i]))
    <3>1. ~IsTop(c, F, i)
      BY <1>4, <1>5, <1>12 DEF IsTop
    <3>2. QED
      BY <2>1, <3>1 DEF Held, Reach
  <2>3. /\ lower \in [Seats -> Nat]
        /\ \A o \in Seats : lower[o] = IF o \in UpTo(c, F, i) THEN Amount(c, F, o) ELSE 0
    BY <1>6, PotsOfFacts
  <2>4. /\ mine \in [Seats -> Int] /\ mine[k] = Amount(c, F, k)
        /\ \A s \in Seats \ {k} : mine[s] = 0
    BY <1>4, <1>9
  <2> HIDE DEF lower, mine
  <2>5. Total(mine) = Amount(c, F, k)
    BY <1>4, <1>9, <2>4, TotalSingle
  <2>6. \A o \in Layers(c, F) : o \in UpTo(c, F, k) <=> o \in UpTo(c, F, i) \/ o = k
    <3>1. \A o \in Layers(c, F) : c[o] <= c[k] <=> c[o] <= c[i] \/ c[o] = c[k]
      BY <1>4, <1>5, <1>12
    <3>2. QED
      BY <1>4, <1>7, <3>1, LiveFacts
  <2>7. k \notin UpTo(c, F, i) /\ k \in UpTo(c, F, k)
    BY <1>4, <1>5, <1>7, <1>12
  <2>8. \A o \in Seats : pots[o] = lower[o] + mine[o]
    <3>1. \A o \in Seats : o \in UpTo(c, F, k) <=> o \in UpTo(c, F, i) \/ o = k
      BY <1>6, <2>6, <2>7
    <3>2. \A o \in Seats : lower[o] \in Nat
      BY <2>3
    <3>3. pots[k] = lower[k] + mine[k]
      BY <1>4, <1>8, <1>9, <2>3, <2>4, <2>7
    <3>4. \A o \in Seats \ {k} : pots[o] = lower[o]
      BY <1>8, <2>3, <3>1
    <3>5. QED
      BY <2>4, <3>2, <3>3, <3>4
  <2>9. Total(pots) = Total(lower) + Total(mine)
    BY <1>8, <2>3, <2>4, <2>8, TotalPlus
  <2>10. Total(pots) \in Nat /\ Total(lower) \in Nat
    BY <1>8, <2>3, TotalNat
  <2>11. Held(k)
    BY <1>9, <1>10, <1>12, <2>2, <2>5, <2>9, <2>10 DEF Held, pots
  <2>12. QED
    BY <1>1, <1>3, <2>11
<1>13. QED
  BY <1>4, <1>11, <1>12, FloorFacts

\* A pot for every chip: as long as a seat that put something in has not folded, the
\* pots of the layers hold all that was put in, the dead money of folded seats above,
\* between and below the levels included (sidepot.go:28-98).
THEOREM PotsHoldEverything ==
  ASSUME NEW c \in [Seats -> Nat], NEW F, Live(c, F) # {}
  PROVE  Total(PotsOf(c, F, Layers(c, F))) = Total(c)
<1>1. /\ Live(c, F) \in SUBSET Seats /\ c \in [Seats -> Int]
      /\ \A s \in Seats : c[s] \in Nat
      /\ Layers(c, F) \subseteq Live(c, F)
  BY LiveFacts
<1>2. PICK t \in Live(c, F) : \A o \in Live(c, F) : c[o] <= c[t]
  BY <1>1, LastSeat
<1>3. PICK j \in Layers(c, F) : c[j] = c[t]
  BY HasLayer
<1>4. IsTop(c, F, j)
  BY <1>2, <1>3 DEF IsTop
<1>5. UpTo(c, F, j) = Layers(c, F)
  <2>1. \A k : k \in UpTo(c, F, j) <=> k \in Layers(c, F) /\ c[k] <= c[j]
    BY DEF UpTo
  <2>2. \A k \in Layers(c, F) : c[k] <= c[j]
    BY <1>1, <1>2, <1>3
  <2>3. \A k : k \in UpTo(c, F, j) <=> k \in Layers(c, F)
    BY <2>1, <2>2
  <2>4. QED
    BY <2>3, Zenon
<1>6. QED
  BY <1>4, <1>5, Telescope DEF Reach
=========================================================================
