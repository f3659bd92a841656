-------------------------- MODULE EvalProofs --------------------------
(* The one integer that eval.go packs a holding of seven cards into orders   *)
(* holdings as the rules of poker do, for every holding and every packing    *)
(* wide enough.  First the digits of the integer are shown to be compared    *)
(* one by one; then every five cards are one of nine kinds, of which score5  *)
(* and the rules say the same; then, kind by kind, the kickers are compared  *)
(* in the order in which the rules look at the ranks; and last the walk of   *)
(* evaluate comes to every five of seven cards.                              *)
EXTENDS Eval, FiniteSetTheorems, WellFoundedInduction, TLAPS
---------------------------------------------------------------------------
(* The packed score. *)

\* A kicker is a rank, or zero where there is none.
Kickers == 0..14

LEMMA RadixFacts == /\ KickerRadix \in Nat /\ KickerRadix > 14 /\ CategoryUnit \in Nat
                    /\ Kickers \subseteq 0..(KickerRadix - 1)
BY PackingAssumption DEF Kickers

\* One more digit: what comes before decides, then the digit.
LEMMA OneDigit ==
  ASSUME NEW R \in Nat, NEW x \in Nat, NEW y \in Nat,
         NEW a \in Nat, NEW b \in Nat, a < R, b < R
  PROVE  /\ x * R + a \in Nat
         /\ (x * R + a > y * R + b) <=> (x > y \/ (x = y /\ a > b))
<1>1. x * R \in Nat /\ y * R \in Nat
  OBVIOUS
<1>2. ASSUME NEW v \in Nat, NEW w \in Nat, v > w PROVE v * R >= w * R + R
  <2>1. PICK d \in Nat : v = w + 1 + d
    <3>1. v - w - 1 \in Nat /\ v = w + 1 + (v - w - 1)
      BY <1>2
    <3>2. QED
      BY <3>1
  <2>2. v * R = w * R + R + d * R
    BY <2>1
  <2>3. d * R \in Nat /\ w * R \in Nat
    OBVIOUS
  <2>4. QED
    BY <2>2, <2>3
<1>3. CASE x > y
  <2>1. x * R >= y * R + R
    BY <1>2, <1>3
  <2>2. QED
    BY <1>1, <1>3, <2>1
<1>4. CASE y > x
  <2>1. y * R >= x * R + R
    BY <1>2, <1>4
  <2>2. QED
    BY <1>1, <1>4, <2>1
<1>5. CASE x = y
  BY <1>1, <1>5
<1>6. QED
  BY <1>1, <1>3, <1>4, <1>5

\* A kicker more.
Shift(x, k) == x * KickerRadix + k

LEMMA NextKicker ==
  ASSUME NEW x \in Nat, NEW y \in Nat, NEW k \in Kickers, NEW l \in Kickers
  PROVE  /\ Shift(x, k) \in Nat
         /\ (Shift(x, k) > Shift(y, l)) <=> (x > y \/ (x = y /\ k > l))
         /\ (Shift(x, k) = Shift(y, l)) <=> (x = y /\ k = l)
<1>1. /\ KickerRadix \in Nat /\ k \in Nat /\ l \in Nat
      /\ k < KickerRadix /\ l < KickerRadix
  BY RadixFacts DEF Kickers
<1>2. Shift(x, k) \in Nat /\ (Shift(x, k) > Shift(y, l) <=> (x > y \/ (x = y /\ k > l)))
  BY <1>1, OneDigit DEF Shift
<1>3. Shift(y, l) \in Nat /\ (Shift(y, l) > Shift(x, k) <=> (y > x \/ (y = x /\ l > k)))
  BY <1>1, OneDigit DEF Shift
<1>4. QED
  BY <1>1, <1>2, <1>3

\* What a number below R to the n becomes with one more digit.
LEMMA DigitBound ==
  ASSUME NEW R \in Nat, NEW x \in Nat, NEW a \in Nat, a < R, NEW P \in Nat, x < P
  PROVE  x * R + a < R * P
<1>1. PICK d \in Nat : P = x + 1 + d
  <2>1. P - x - 1 \in Nat /\ P = x + 1 + (P - x - 1)
    OBVIOUS
  <2>2. QED
    BY <2>1
<1>2. R * P = x * R + R + R * d
  BY <1>1
<1>3. R * d \in Nat /\ x * R \in Nat
  OBVIOUS
<1>4. QED
  BY <1>2, <1>3

Higher5(k1, k2, k3, k4, k5, l1, l2, l3, l4, l5) ==
  \/ k1 > l1
  \/ k1 = l1 /\ (\/ k2 > l2
                 \/ k2 = l2 /\ (\/ k3 > l3
                                \/ k3 = l3 /\ (\/ k4 > l4
                                               \/ k4 = l4 /\ k5 > l5)))

Shifts(k1, k2, k3, k4, k5) == Shift(Shift(Shift(Shift(k1, k2), k3), k4), k5)

Digits(c, k1, k2, k3, k4, k5) == c * CategoryUnit + Shifts(k1, k2, k3, k4, k5)

LEMMA ShiftsBound ==
  ASSUME NEW k1 \in Kickers, NEW k2 \in Kickers, NEW k3 \in Kickers, NEW k4 \in Kickers,
         NEW k5 \in Kickers
  PROVE  Shifts(k1, k2, k3, k4, k5) \in Nat /\ Shifts(k1, k2, k3, k4, k5) < CategoryUnit
<1> DEFINE a2 == Shift(k1, k2)
           a3 == Shift(a2, k3)
           a4 == Shift(a3, k4)
           a5 == Shift(a4, k5)
           R == KickerRadix
<1>1. R \in Nat /\ \A k \in Kickers : k \in Nat /\ k < R
  BY RadixFacts DEF Kickers
<1>2. a2 \in Nat /\ a2 < R * R /\ R * R \in Nat
  BY <1>1, NextKicker, DigitBound DEF Shift
<1> HIDE DEF a2
<1>3. a3 \in Nat /\ a3 < R * (R * R) /\ R * (R * R) \in Nat
  <2> PICK P : P = R * R
    OBVIOUS
  <2>1. a2 * R + k3 < R * P /\ R * P \in Nat
    BY <1>1, <1>2, DigitBound
  <2>2. QED
    BY <1>1, <1>2, <2>1, NextKicker DEF Shift
<1> HIDE DEF a3
<1>4. a4 \in Nat /\ a4 < R * (R * (R * R)) /\ R * (R * (R * R)) \in Nat
  <2> PICK P : P = R * (R * R)
    OBVIOUS
  <2>1. a3 * R + k4 < R * P /\ R * P \in Nat
    BY <1>1, <1>3, DigitBound
  <2>2. QED
    BY <1>1, <1>3, <2>1, NextKicker DEF Shift
<1> HIDE DEF a4
<1>5. a5 \in Nat /\ a5 < R * (R * (R * (R * R)))
  <2> PICK P : P = R * (R * (R * R))
    OBVIOUS
  <2>1. a4 * R + k5 < R * P
    BY <1>1, <1>4, DigitBound
  <2>2. QED
    BY <1>1, <1>4, <2>1, NextKicker DEF Shift
<1>6. a5 < CategoryUnit
  <2> HIDE DEF a5
  <2> PICK P : P = R * (R * (R * (R * R)))
    OBVIOUS
  <2>1. P \in Int /\ a5 < P
    BY <1>1, <1>4, <1>5
  <2>2. CategoryUnit >= P /\ CategoryUnit \in Nat
    BY PackingAssumption
  <2>3. QED
    BY <1>5, <2>1, <2>2
<1>7. QED
  BY <1>5, <1>6 DEF Shifts, a2, a3, a4

LEMMA KickersInOrder ==
  ASSUME NEW k1 \in Kickers, NEW k2 \in Kickers, NEW k3 \in Kickers, NEW k4 \in Kickers,
         NEW k5 \in Kickers, NEW l1 \in Kickers, NEW l2 \in Kickers, NEW l3 \in Kickers,
         NEW l4 \in Kickers, NEW l5 \in Kickers
  PROVE  Shifts(k1, k2, k3, k4, k5) > Shifts(l1, l2, l3, l4, l5)
           <=> Higher5(k1, k2, k3, k4, k5, l1, l2, l3, l4, l5)
<1> DEFINE a2 == Shift(k1, k2)
           a3 == Shift(a2, k3)
           a4 == Shift(a3, k4)
           b2 == Shift(l1, l2)
           b3 == Shift(b2, l3)
           b4 == Shift(b3, l4)
<1>1. k1 \in Nat /\ l1 \in Nat
  BY DEF Kickers
<1>2. /\ a2 \in Nat /\ b2 \in Nat
      /\ (a2 > b2) <=> (k1 > l1 \/ (k1 = l1 /\ k2 > l2))
      /\ (a2 = b2) <=> (k1 = l1 /\ k2 = l2)
  BY <1>1, NextKicker
<1> HIDE DEF a2, b2
<1>3. /\ a3 \in Nat /\ b3 \in Nat
      /\ (a3 > b3) <=> (a2 > b2 \/ (a2 = b2 /\ k3 > l3))
      /\ (a3 = b3) <=> (a2 = b2 /\ k3 = l3)
  BY <1>2, NextKicker
<1> HIDE DEF a3, b3
<1>4. /\ a4 \in Nat /\ b4 \in Nat
      /\ (a4 > b4) <=> (a3 > b3 \/ (a3 = b3 /\ k4 > l4))
      /\ (a4 = b4) <=> (a3 = b3 /\ k4 = l4)
  BY <1>3, NextKicker
<1> HIDE DEF a4, b4
<1>5. (Shift(a4, k5) > Shift(b4, l5)) <=> (a4 > b4 \/ (a4 = b4 /\ k5 > l5))
  BY <1>4, NextKicker
<1>6. (Shift(a4, k5) > Shift(b4, l5)) <=> Higher5(k1, k2, k3, k4, k5, l1, l2, l3, l4, l5)
  BY <1>2, <1>3, <1>4, <1>5, Zenon DEF Higher5
<1>7. QED
  BY <1>6 DEF Shifts, a2, a3, a4, b2, b3, b4

LEMMA UnitDivides ==
  ASSUME NEW U \in Nat, NEW c \in Nat, NEW k \in Nat, k < U
  PROVE  (c * U + k) \div U = c
<1> PICK n, q : n = c * U + k /\ q = n \div U
  OBVIOUS
<1>1. n \in Nat /\ c * U \in Nat
  OBVIOUS
<1>2. q \in Int /\ U * q <= n /\ n < U * q + U
  <2>1. q \in Int /\ U * q <= n /\ n < U * (q + 1)
    BY <1>1
  <2>2. QED
    BY <2>1
<1>3. ~(q > c)
  <2> SUFFICES ASSUME q > c PROVE FALSE
    OBVIOUS
  <2>1. PICK d \in Nat : q = c + 1 + d
    <3>1. q - c - 1 \in Nat /\ q = c + 1 + (q - c - 1)
      BY <1>2
    <3>2. QED
      BY <3>1
  <2>2. U * q = c * U + U + U * d /\ U * d \in Nat
    BY <2>1
  <2>3. QED
    BY <1>1, <1>2, <2>2
<1>4. ~(q < c)
  <2> SUFFICES ASSUME q < c PROVE FALSE
    OBVIOUS
  <2>1. PICK d \in Nat : c = q + 1 + d
    <3>1. c - q - 1 \in Nat /\ c = q + 1 + (c - q - 1)
      BY <1>2
    <3>2. QED
      BY <3>1
  <2>2. c * U = U * q + U + U * d /\ U * d \in Nat
    BY <1>2, <2>1
  <2>3. QED
    BY <1>1, <1>2, <2>2
<1>5. QED
  BY <1>2, <1>3, <1>4

\* Categories come first, then the kickers one by one.
LEMMA DigitsInOrder ==
  ASSUME NEW c \in 0..8, NEW e \in 0..8,
         NEW k1 \in Kickers, NEW k2 \in Kickers, NEW k3 \in Kickers, NEW k4 \in Kickers,
         NEW k5 \in Kickers, NEW l1 \in Kickers, NEW l2 \in Kickers, NEW l3 \in Kickers,
         NEW l4 \in Kickers, NEW l5 \in Kickers
  PROVE  LET k == Digits(c, k1, k2, k3, k4, k5)
             l == Digits(e, l1, l2, l3, l4, l5)
         IN  /\ k \in Nat /\ k \div CategoryUnit = c
             /\ (k > l) <=> (c > e \/ (c = e /\ Higher5(k1, k2, k3, k4, k5, l1, l2, l3, l4, l5)))
<1> DEFINE k == Shifts(k1, k2, k3, k4, k5)
           l == Shifts(l1, l2, l3, l4, l5)
<1> PICK U : U = CategoryUnit
  OBVIOUS
<1>1. /\ k \in Nat /\ k < U /\ l \in Nat /\ l < U /\ U \in Nat
      /\ (k > l) <=> Higher5(k1, k2, k3, k4, k5, l1, l2, l3, l4, l5)
  BY KickersInOrder, ShiftsBound, RadixFacts
<1> HIDE DEF k, l
<1>2. c \in Nat /\ e \in Nat
  OBVIOUS
<1>3. c * U + k \in Nat /\ ((c * U + k > e * U + l) <=> (c > e \/ (c = e /\ k > l)))
  BY <1>1, <1>2, OneDigit
<1>4. (c * U + k) \div U = c
  BY <1>1, <1>2, UnitDivides
<1>5. QED
  BY <1>1, <1>3, <1>4 DEF Digits, k, l

LEMMA Packed ==
  ASSUME NEW c
  PROVE  /\ \A k1 : Pack(c, <<k1>>) = Digits(c, k1, 0, 0, 0, 0)
         /\ \A k1, k2 : Pack(c, <<k1, k2>>) = Digits(c, k1, k2, 0, 0, 0)
         /\ \A k1, k2, k3 : Pack(c, <<k1, k2, k3>>) = Digits(c, k1, k2, k3, 0, 0)
         /\ \A k1, k2, k3, k4 : Pack(c, <<k1, k2, k3, k4>>) = Digits(c, k1, k2, k3, k4, 0)
         /\ \A k1, k2, k3, k4, k5 :
              Pack(c, <<k1, k2, k3, k4, k5>>) = Digits(c, k1, k2, k3, k4, k5)
BY DEF Pack, Digits, Shifts, Shift
---------------------------------------------------------------------------
(* Sets of places. *)

In(S, i) == IF i \in S THEN 1 ELSE 0

LEMMA FirstNumbers ==
  ASSUME NEW n \in Nat
  PROVE  IsFiniteSet(1..n) /\ Cardinality(1..n) = n
<1>1. IsFiniteSet(1..n) /\ Cardinality(1..n) = IF 1 > n THEN 0 ELSE n - 1 + 1
  BY FS_Interval
<1>2. QED
  BY <1>1

LEMMA Tally ==
  ASSUME NEW S \in SUBSET (1..7)
  PROVE  /\ IsFiniteSet(S)
         /\ Cardinality(S) = In(S, 1) + In(S, 2) + In(S, 3) + In(S, 4) + In(S, 5)
                               + In(S, 6) + In(S, 7)
<1> DEFINE Up(n) == S \cap (1..n)
<1>1. \A n \in 0..7 : IsFiniteSet(Up(n)) /\ Cardinality(Up(n)) \in Nat
  <2> TAKE n \in 0..7
  <2>1. IsFiniteSet(1..n)
    BY FS_Interval
  <2>2. IsFiniteSet(Up(n))
    BY <2>1, FS_Subset
  <2>3. QED
    BY <2>2, FS_CardinalityType
<1>2. ASSUME NEW n \in 0..6
      PROVE  Cardinality(Up(n + 1)) = Cardinality(Up(n)) + In(S, n + 1)
  <2>1. CASE n + 1 \in S
    <3>1. Up(n + 1) = Up(n) \cup {n + 1} /\ n + 1 \notin Up(n)
      BY <2>1
    <3>2. IsFiniteSet(Up(n))
      BY <1>1
    <3> HIDE DEF Up
    <3>3. QED
      BY <2>1, <3>1, <3>2, FS_AddElement DEF In
  <2>2. CASE n + 1 \notin S
    <3>1. Up(n + 1) = Up(n)
      BY <2>2
    <3>2. Cardinality(Up(n)) \in Nat
      BY <1>1
    <3> HIDE DEF Up
    <3>3. QED
      BY <2>2, <3>1, <3>2 DEF In
  <2>3. QED
    BY <2>1, <2>2
<1>3. Up(0) = {} /\ Up(7) = S
  <2>1. 1..0 = {} /\ S \subseteq 1..7
    OBVIOUS
  <2>2. QED
    BY <2>1
<1>4. Cardinality(Up(0)) = 0
  BY <1>3, FS_EmptySet
<1> HIDE DEF Up
<1>5. /\ Cardinality(Up(0 + 1)) = Cardinality(Up(0)) + In(S, 0 + 1)
      /\ Cardinality(Up(1 + 1)) = Cardinality(Up(1)) + In(S, 1 + 1)
      /\ Cardinality(Up(2 + 1)) = Cardinality(Up(2)) + In(S, 2 + 1)
      /\ Cardinality(Up(3 + 1)) = Cardinality(Up(3)) + In(S, 3 + 1)
      /\ Cardinality(Up(4 + 1)) = Cardinality(Up(4)) + In(S, 4 + 1)
      /\ Cardinality(Up(5 + 1)) = Cardinality(Up(5)) + In(S, 5 + 1)
      /\ Cardinality(Up(6 + 1)) = Cardinality(Up(6)) + In(S, 6 + 1)
  BY <1>2
<1>6. \A i \in 1..7 : In(S, i) \in Nat
  BY DEF In
<1>7. Cardinality(Up(7)) = In(S, 1) + In(S, 2) + In(S, 3) + In(S, 4) + In(S, 5)
                             + In(S, 6) + In(S, 7)
  BY <1>4, <1>5, <1>6
<1>8. QED
  BY <1>1, <1>3, <1>7

LEMMA FiveTally ==
  ASSUME NEW S \in SUBSET (1..5)
  PROVE  /\ IsFiniteSet(S)
         /\ Cardinality(S) = In(S, 1) + In(S, 2) + In(S, 3) + In(S, 4) + In(S, 5)
<1>1. S \in SUBSET (1..7) /\ In(S, 6) = 0 /\ In(S, 7) = 0
  BY DEF In
<1>2. \A i \in 1..7 : In(S, i) \in Nat
  BY DEF In
<1>3. QED
  BY <1>1, <1>2, Tally
---------------------------------------------------------------------------
(* Five cards. *)

FiveCards(h) == h \in [1..5 -> Cards] /\ \A i, j \in 1..5 : h[i] = h[j] => i = j

Same(x, r) == IF x = r THEN 1 ELSE 0
Above(x, r) == IF x > r THEN 1 ELSE 0
Sames(a, b, c, d, e, r) == Same(a, r) + Same(b, r) + Same(c, r) + Same(d, r) + Same(e, r)
Aboves(a, b, c, d, e, r) ==
  Above(a, r) + Above(b, r) + Above(c, r) + Above(d, r) + Above(e, r)

LEMMA CardFacts ==
  ASSUME NEW h, FiveCards(h)
  PROVE  /\ DOMAIN h = 1..5
         /\ \A i \in 1..5 : h[i].rank \in 2..14 /\ h[i].suit \in Suits
         /\ RanksOf(h) = {h[1].rank, h[2].rank, h[3].rank, h[4].rank, h[5].rank}
         /\ RanksOf(h) \subseteq 2..14
<1>1. DOMAIN h = 1..5 /\ \A i \in 1..5 : h[i] \in Cards
  BY DEF FiveCards
<1>2. \A i \in 1..5 : h[i].rank \in 2..14 /\ h[i].suit \in Suits
  BY <1>1 DEF Cards, Ranks
<1>3. RanksOf(h) = {h[1].rank, h[2].rank, h[3].rank, h[4].rank, h[5].rank}
  BY <1>1 DEF RanksOf
<1>4. QED
  BY <1>1, <1>2, <1>3

LEMMA Counts ==
  ASSUME NEW h, FiveCards(h), NEW r \in 2..14
  PROVE  /\ Count(h, r) = Sames(h[1].rank, h[2].rank, h[3].rank, h[4].rank, h[5].rank, r)
         /\ Cardinality({i \in DOMAIN h : h[i].rank > r})
              = Aboves(h[1].rank, h[2].rank, h[3].rank, h[4].rank, h[5].rank, r)
<1>1. DOMAIN h = 1..5
  BY CardFacts
<1>2. PICK S : S = {i \in 1..5 : h[i].rank = r}
  OBVIOUS
<1>3. PICK T : T = {i \in 1..5 : h[i].rank > r}
  OBVIOUS
<1>4. /\ Cardinality(S) = In(S, 1) + In(S, 2) + In(S, 3) + In(S, 4) + In(S, 5)
      /\ Cardinality(T) = In(T, 1) + In(T, 2) + In(T, 3) + In(T, 4) + In(T, 5)
  BY <1>2, <1>3, FiveTally
<1>5. \A i \in 1..5 : In(S, i) = Same(h[i].rank, r) /\ In(T, i) = Above(h[i].rank, r)
  BY <1>2, <1>3 DEF In, Same, Above
<1>6. QED
  BY <1>1, <1>2, <1>3, <1>4, <1>5 DEF Count, Sames, Aboves

\* For each place there is one rank that comes there when they are put in order.
LEMMA OnePlace ==
  ASSUME NEW a \in 2..14, NEW b \in 2..14, NEW c \in 2..14, NEW d \in 2..14, NEW e \in 2..14,
         NEW n \in 1..5
  PROVE  \E r \in {a, b, c, d, e} :
           /\ Aboves(a, b, c, d, e, r) < n
           /\ n <= Aboves(a, b, c, d, e, r) + Sames(a, b, c, d, e, r)
BY DEF Aboves, Sames, Above, Same

LEMMA HigherComesFirst ==
  ASSUME NEW a \in 2..14, NEW b \in 2..14, NEW c \in 2..14, NEW d \in 2..14, NEW e \in 2..14,
         NEW q \in 2..14, NEW r \in 2..14, q > r
  PROVE  Aboves(a, b, c, d, e, r) >= Aboves(a, b, c, d, e, q) + Sames(a, b, c, d, e, q)
BY DEF Aboves, Sames, Above, Same

LEMMA TallyRange ==
  ASSUME NEW a \in 2..14, NEW b \in 2..14, NEW c \in 2..14, NEW d \in 2..14, NEW e \in 2..14,
         NEW r \in 2..14
  PROVE  /\ Aboves(a, b, c, d, e, r) \in 0..5 /\ Sames(a, b, c, d, e, r) \in 0..5
         /\ Aboves(a, b, c, d, e, r) + Sames(a, b, c, d, e, r) <= 5
         /\ (Sames(a, b, c, d, e, r) = 0) <=> (r \notin {a, b, c, d, e})
BY DEF Aboves, Sames, Above, Same

\* The ranks of h from high to low.
Ordered(h, d) ==
  /\ d \in [1..5 -> 2..14]
  /\ d[1] >= d[2] /\ d[2] >= d[3] /\ d[3] >= d[4] /\ d[4] >= d[5]
  /\ RanksOf(h) = {d[1], d[2], d[3], d[4], d[5]}
  /\ \A r \in 2..14 : Count(h, r) = Sames(d[1], d[2], d[3], d[4], d[5], r)

\* The ranks of h, as they lie.
Shown(h, a, b, c, e, f) ==
  /\ RanksOf(h) = {a, b, c, e, f}
  /\ \A r \in 2..14 : /\ Count(h, r) = Sames(a, b, c, e, f, r)
                      /\ Cardinality({i \in DOMAIN h : h[i].rank > r})
                           = Aboves(a, b, c, e, f, r)

LEMMA DescendingIsOrdered ==
  ASSUME NEW h, FiveCards(h)
  PROVE  Ordered(h, Descending(h))
<1>0. PICK a \in 2..14, b \in 2..14, c \in 2..14, e \in 2..14, f \in 2..14 :
        Shown(h, a, b, c, e, f)
  <2>1. /\ h[1].rank \in 2..14 /\ h[2].rank \in 2..14 /\ h[3].rank \in 2..14
        /\ h[4].rank \in 2..14 /\ h[5].rank \in 2..14
    BY CardFacts
  <2>2. RanksOf(h) = {h[1].rank, h[2].rank, h[3].rank, h[4].rank, h[5].rank}
    BY CardFacts
  <2>3. Shown(h, h[1].rank, h[2].rank, h[3].rank, h[4].rank, h[5].rank)
    BY <2>2, Counts DEF Shown
  <2>4. QED
    BY <2>1, <2>3
<1> PICK d : d = Descending(h)
  OBVIOUS
<1> DEFINE Ab(r) == Aboves(a, b, c, e, f, r)
           Sa(r) == Sames(a, b, c, e, f, r)
<1>1. RanksOf(h) = {a, b, c, e, f} /\ RanksOf(h) \subseteq 2..14 /\ DOMAIN h = 1..5
  BY <1>0, CardFacts DEF Shown
<1>2. \A r \in 2..14 : /\ Count(h, r) = Sa(r)
                       /\ Cardinality({i \in DOMAIN h : h[i].rank > r}) = Ab(r)
  BY <1>0 DEF Shown
<1>3. DOMAIN d = 1..5
  BY <1>1 DEF Descending
<1>4. \A r \in 2..14 : /\ Ab(r) \in 0..5 /\ Sa(r) \in 0..5 /\ Ab(r) + Sa(r) <= 5
                       /\ (Sa(r) = 0) <=> (r \notin RanksOf(h))
  <2> TAKE r \in 2..14
  <2>1. /\ Ab(r) \in 0..5 /\ Sa(r) \in 0..5 /\ Ab(r) + Sa(r) <= 5
        /\ (Sa(r) = 0) <=> (r \notin {a, b, c, e, f})
    BY TallyRange
  <2>2. QED
    BY <1>1, <2>1
<1>5. \A q, r \in 2..14 : q > r => Ab(r) >= Ab(q) + Sa(q)
  BY <1>1, HigherComesFirst
<1>6. \A n \in 1..5 : /\ d[n] \in RanksOf(h)
                      /\ Ab(d[n]) < n /\ n <= Ab(d[n]) + Sa(d[n])
  <2> TAKE n \in 1..5
  <2>1. d[n] = CHOOSE r \in RanksOf(h) :
                 /\ Cardinality({i \in DOMAIN h : h[i].rank > r}) < n
                 /\ n <= Cardinality({i \in DOMAIN h : h[i].rank > r}) + Count(h, r)
    BY <1>1 DEF Descending
  <2>2. \E r \in RanksOf(h) : Ab(r) < n /\ n <= Ab(r) + Sa(r)
    BY <1>1, OnePlace
  <2>3. \E r \in RanksOf(h) :
          /\ Cardinality({i \in DOMAIN h : h[i].rank > r}) < n
          /\ n <= Cardinality({i \in DOMAIN h : h[i].rank > r}) + Count(h, r)
    <3>1. PICK r \in RanksOf(h) : Ab(r) < n /\ n <= Ab(r) + Sa(r)
      BY <2>2
    <3> HIDE DEF Ab, Sa
    <3>2. QED
      BY <1>1, <1>2, <3>1
  <2>4. /\ d[n] \in RanksOf(h)
        /\ Cardinality({i \in DOMAIN h : h[i].rank > d[n]}) < n
        /\ n <= Cardinality({i \in DOMAIN h : h[i].rank > d[n]}) + Count(h, d[n])
    BY <2>1, <2>3
  <2> HIDE DEF Ab, Sa
  <2>5. QED
    BY <1>1, <1>2, <2>4
<1> HIDE DEF Ab, Sa
<1>7. \A n \in 1..5 : d[n] \in 2..14
  BY <1>1, <1>6
<1>8. ASSUME NEW n \in 1..5, NEW r \in RanksOf(h)
      PROVE  d[n] = r <=> (Ab(r) < n /\ n <= Ab(r) + Sa(r))
  <2>1. r \in 2..14 /\ d[n] \in 2..14
    BY <1>1, <1>7
  <2>2. /\ Ab(d[n]) < n /\ n <= Ab(d[n]) + Sa(d[n])
        /\ Ab(d[n]) \in Int /\ Sa(d[n]) \in Int /\ Ab(r) \in Int /\ Sa(r) \in Int
    BY <1>4, <1>6, <2>1
  <2>3. /\ d[n] > r => Ab(r) >= Ab(d[n]) + Sa(d[n])
        /\ r > d[n] => Ab(d[n]) >= Ab(r) + Sa(r)
    BY <1>5, <2>1
  <2>4. QED
    BY <2>1, <2>2, <2>3
<1>9. ASSUME NEW n \in 1..4 PROVE d[n] >= d[n + 1]
  <2>1. n \in 1..5 /\ n + 1 \in 1..5 /\ n \in Int
    OBVIOUS
  <2>2. /\ Ab(d[n]) < n /\ n + 1 <= Ab(d[n + 1]) + Sa(d[n + 1])
        /\ d[n] \in 2..14 /\ d[n + 1] \in 2..14
    BY <1>6, <1>7, <2>1
  <2>3. d[n + 1] > d[n] => Ab(d[n]) >= Ab(d[n + 1]) + Sa(d[n + 1])
    BY <1>5, <2>2
  <2>4. Ab(d[n]) \in Int /\ Ab(d[n + 1]) \in Int /\ Sa(d[n + 1]) \in Int
    BY <1>4, <2>2
  <2>5. QED
    BY <2>1, <2>2, <2>3, <2>4
<1>10. \A r \in 2..14 : Count(h, r) = Sames(d[1], d[2], d[3], d[4], d[5], r)
  <2> TAKE r \in 2..14
  <2>1. CASE r \in RanksOf(h)
    <3>1. \A n \in 1..5 : Same(d[n], r) = IF Ab(r) < n /\ n <= Ab(r) + Sa(r) THEN 1 ELSE 0
      BY <1>8, <2>1 DEF Same
    <3>2. Sames(d[1], d[2], d[3], d[4], d[5], r) = Sa(r)
      BY <1>4, <3>1 DEF Sames
    <3>3. QED
      BY <1>2, <3>2
  <2>2. CASE r \notin RanksOf(h)
    <3>1. \A n \in 1..5 : Same(d[n], r) = 0
      BY <1>6, <2>2 DEF Same
    <3>2. Sames(d[1], d[2], d[3], d[4], d[5], r) = 0
      BY <3>1 DEF Sames
    <3>3. Sa(r) = 0
      BY <1>4, <2>2
    <3>4. QED
      BY <1>2, <3>2, <3>3
  <2>3. QED
    BY <2>1, <2>2
<1>11. RanksOf(h) = {d[1], d[2], d[3], d[4], d[5]}
  <2>1. {d[1], d[2], d[3], d[4], d[5]} \subseteq RanksOf(h)
    BY <1>6
  <2>2. ASSUME NEW r \in RanksOf(h) PROVE \E n \in 1..5 : d[n] = r
    <3>1. r \in 2..14
      BY <1>1
    <3>2. Ab(r) \in 0..5 /\ Sa(r) \in 0..5 /\ Ab(r) + Sa(r) <= 5 /\ Sa(r) # 0
      BY <1>4, <2>2, <3>1
    <3>3. Ab(r) + 1 \in 1..5 /\ Ab(r) < Ab(r) + 1 /\ Ab(r) + 1 <= Ab(r) + Sa(r)
      BY <3>2
    <3>4. QED
      BY <1>8, <2>2, <3>3
  <2>3. QED
    BY <2>1, <2>2
<1>12. d \in [1..5 -> 2..14]
  <2>1. d = [n \in 1..5 |-> d[n]]
    BY <1>1 DEF Descending
  <2>2. QED
    BY <1>7, <2>1
<1>13. d[1] >= d[2] /\ d[2] >= d[3] /\ d[3] >= d[4] /\ d[4] >= d[5]
  <2>1. d[1] >= d[1 + 1] /\ d[2] >= d[2 + 1] /\ d[3] >= d[3 + 1] /\ d[4] >= d[4 + 1]
    BY <1>9
  <2>2. QED
    BY <2>1
<1>14. QED
  BY <1>10, <1>11, <1>12, <1>13 DEF Ordered
---------------------------------------------------------------------------
(* What five cards can be. *)

Quads(h, a, b) ==
  /\ a \in 2..14 /\ b \in 2..14 /\ a # b
  /\ RanksOf(h) = {a, b} /\ Count(h, a) = 4 /\ Count(h, b) = 1
House(h, a, b) ==
  /\ a \in 2..14 /\ b \in 2..14 /\ a # b
  /\ RanksOf(h) = {a, b} /\ Count(h, a) = 3 /\ Count(h, b) = 2
Trips(h, a, b, c) ==
  /\ a \in 2..14 /\ b \in 2..14 /\ c \in 2..14 /\ a # b /\ a # c /\ b > c
  /\ RanksOf(h) = {a, b, c} /\ Count(h, a) = 3 /\ Count(h, b) = 1 /\ Count(h, c) = 1
Pairs(h, a, b, c) ==
  /\ a \in 2..14 /\ b \in 2..14 /\ c \in 2..14 /\ a > b /\ c # a /\ c # b
  /\ RanksOf(h) = {a, b, c} /\ Count(h, a) = 2 /\ Count(h, b) = 2 /\ Count(h, c) = 1
Pair(h, a, b, c, e) ==
  /\ a \in 2..14 /\ b \in 2..14 /\ c \in 2..14 /\ e \in 2..14
  /\ a # b /\ a # c /\ a # e /\ b > c /\ c > e
  /\ RanksOf(h) = {a, b, c, e}
  /\ Count(h, a) = 2 /\ Count(h, b) = 1 /\ Count(h, c) = 1 /\ Count(h, e) = 1
Single(h, a, b, c, e, f) ==
  /\ a \in 2..14 /\ b \in 2..14 /\ c \in 2..14 /\ e \in 2..14 /\ f \in 2..14
  /\ a > b /\ b > c /\ c > e /\ e > f
  /\ RanksOf(h) = {a, b, c, e, f} /\ Descending(h) = <<a, b, c, e, f>>
  /\ Count(h, a) = 1 /\ Count(h, b) = 1 /\ Count(h, c) = 1 /\ Count(h, e) = 1
  /\ Count(h, f) = 1

\* There are only four suits: five cards have two ranks at least.
LEMMA TwoRanks ==
  ASSUME NEW h, FiveCards(h)
  PROVE  \A r \in 2..14 : Count(h, r) <= 4
<1> SUFFICES ASSUME NEW r \in 2..14, ~(Count(h, r) <= 4) PROVE FALSE
  OBVIOUS
<1> PICK S : S = {i \in 1..5 : h[i].rank = r}
  OBVIOUS
<1>1. Count(h, r) = Cardinality(S) /\ S \in SUBSET (1..5)
  BY CardFacts DEF Count
<1>2. \A i \in 1..5 : In(S, i) = 0 \/ In(S, i) = 1
  BY DEF In
<1>3. Cardinality(S) = In(S, 1) + In(S, 2) + In(S, 3) + In(S, 4) + In(S, 5)
  BY <1>1, FiveTally
<1>4. In(S, 1) = 1 /\ In(S, 2) = 1 /\ In(S, 3) = 1 /\ In(S, 4) = 1 /\ In(S, 5) = 1
  BY <1>1, <1>2, <1>3
<1>5. \A i \in 1..5 : h[i].rank = r
  BY <1>4 DEF In
<1> PICK f : f = [i \in 1..5 |-> h[i].suit]
  OBVIOUS
<1>6. f \in Injection(1..5, Suits)
  <2>1. f \in [1..5 -> Suits]
    BY CardFacts
  <2>2. ASSUME NEW i \in 1..5, NEW j \in 1..5, f[i] = f[j] PROVE i = j
    <3>1. h[i] \in Cards /\ h[j] \in Cards
      BY DEF FiveCards
    <3>2. h[i].rank = h[j].rank /\ h[i].suit = h[j].suit
      BY <1>5, <2>2
    <3>3. h[i] = h[j]
      BY <3>1, <3>2 DEF Cards
    <3>4. QED
      BY <3>3 DEF FiveCards
  <2>3. QED
    BY <2>1, <2>2 DEF Injection, IsInjective
<1>7. IsFiniteSet(1..5) /\ Cardinality(1..5) = 5
  BY FirstNumbers
<1>8. Cardinality(1..5) <= Cardinality(Suits)
  BY <1>6, FS_Injection, SuitsAssumption
<1>9. QED
  BY <1>7, <1>8, SuitsAssumption

\* No two cards of a suit have the same rank.
LEMMA OneSuitHasNoPair ==
  ASSUME NEW h, FiveCards(h), OneSuit(h)
  PROVE  \A r \in 2..14 : Count(h, r) <= 1
<1> TAKE r \in 2..14
<1> PICK S : S = {i \in 1..5 : h[i].rank = r}
  OBVIOUS
<1>1. Count(h, r) = Cardinality(S) /\ S \in SUBSET (1..5)
  BY CardFacts DEF Count
<1>2. \A i \in 1..5 : (In(S, i) = 0 \/ In(S, i) = 1) /\ (In(S, i) = 1 => i \in S)
  BY DEF In
<1>3. Cardinality(S) = In(S, 1) + In(S, 2) + In(S, 3) + In(S, 4) + In(S, 5)
  BY <1>1, FiveTally
<1>4. ASSUME NEW i \in S, NEW j \in S PROVE i = j
  <2>1. i \in 1..5 /\ j \in 1..5 /\ h[i].rank = h[j].rank
    OBVIOUS
  <2>2. h[i] \in Cards /\ h[j] \in Cards /\ h[i].suit = h[j].suit
    BY <2>1, CardFacts DEF FiveCards, OneSuit
  <2>3. h[i] = h[j]
    BY <2>1, <2>2 DEF Cards
  <2>4. QED
    BY <2>1, <2>3 DEF FiveCards
<1>5. \A i, j \in 1..5 : i # j => ~(In(S, i) = 1 /\ In(S, j) = 1)
  BY <1>2, <1>4
<1>6. QED
  BY <1>1, <1>2, <1>3, <1>5
---------------------------------------------------------------------------
(* Groups. *)

Ahead(h, q, r) == Count(h, q) > Count(h, r) \/ (Count(h, q) = Count(h, r) /\ q > r)

LEMMA ManyRanks ==
  ASSUME NEW k \in Nat, NEW g, NEW T, DOMAIN g = 1..k, T = {g[i] : i \in 1..k},
         \A i, j \in 1..k : g[i] = g[j] => i = j
  PROVE  IsFiniteSet(T) /\ Cardinality(T) = k
<1> PICK f : f = [i \in 1..k |-> g[i]]
  OBVIOUS
<1>1. f \in Bijection(1..k, T)
  BY DEF Bijection, Injection, Surjection, IsInjective
<1>2. QED
  BY <1>1, FirstNumbers, FS_Bijection DEF ExistsBijection

\* The first k of g are the ranks of h, every one ahead of those after it.
Listed(h, k, g) ==
  /\ RanksOf(h) = {g[i] : i \in 1..k}
  /\ \A i, j \in 1..k : /\ Ahead(h, g[i], g[j]) <=> i < j
                        /\ i # j => g[i] # g[j]

LEMMA GroupsAre ==
  ASSUME NEW h, NEW k \in Nat, NEW g, Listed(h, k, g)
  PROVE  Cardinality(RanksOf(h)) = k /\ Groups(h) = [n \in 1..k |-> g[n]]
<1>0. /\ RanksOf(h) = {g[i] : i \in 1..k}
      /\ \A i, j \in 1..k : Ahead(h, g[i], g[j]) <=> i < j
      /\ \A i, j \in 1..k : i # j => g[i] # g[j]
  BY DEF Listed
<1> PICK l : DOMAIN l = 1..k /\ \A n \in 1..k : l[n] = g[n]
  <2> WITNESS [n \in 1..k |-> g[n]]
  <2> QED
    OBVIOUS
<1>1. Cardinality(RanksOf(h)) = k
  <2>1. RanksOf(h) = {l[n] : n \in 1..k}
    BY <1>0
  <2>2. \A i, j \in 1..k : l[i] = l[j] => i = j
    BY <1>0
  <2>3. QED
    BY <2>1, <2>2, ManyRanks
<1>2. ASSUME NEW j \in 1..k
      PROVE  Cardinality({q \in RanksOf(h) : Ahead(h, q, g[j])}) = j - 1
  <2> DEFINE n == j - 1
             T == {q \in RanksOf(h) : Ahead(h, q, g[j])}
             f == [i \in 1..n |-> g[i]]
  <2>1. n \in Nat /\ \A i \in 1..n : i \in 1..k
    OBVIOUS
  <2>2. T = {g[i] : i \in 1..n}
    BY <1>0
  <2>3. DOMAIN f = 1..n /\ T = {f[i] : i \in 1..n}
    BY <2>2
  <2>4. \A i, m \in 1..n : f[i] = f[m] => i = m
    BY <1>0, <2>1
  <2> HIDE DEF T, f, n
  <2>5. Cardinality(T) = n
    BY <2>1, <2>3, <2>4, ManyRanks
  <2>6. QED
    BY <2>5 DEF T, n
<1>3. ASSUME NEW n \in 1..k
      PROVE  (CHOOSE r \in RanksOf(h) : Cardinality({q \in RanksOf(h) : Ahead(h, q, r)}) = n - 1)
               = g[n]
  <2>1. g[n] \in RanksOf(h) /\ Cardinality({q \in RanksOf(h) : Ahead(h, q, g[n])}) = n - 1
    BY <1>0, <1>2
  <2>2. ASSUME NEW r \in RanksOf(h), Cardinality({q \in RanksOf(h) : Ahead(h, q, r)}) = n - 1
        PROVE  r = g[n]
    <3>1. PICK j \in 1..k : r = g[j]
      BY <1>0
    <3>2. j - 1 = n - 1
      BY <1>2, <2>2, <3>1
    <3>3. j = n
      BY <3>2
    <3>4. QED
      BY <3>1, <3>3
  <2>3. QED
    BY <2>1, <2>2
<1>4. Groups(h) = [n \in 1..k |->
        CHOOSE r \in RanksOf(h) : Cardinality({q \in RanksOf(h) : Ahead(h, q, r)}) = n - 1]
  BY <1>1 DEF Groups, Ahead
<1>5. Groups(h) = [n \in 1..k |-> g[n]]
  BY <1>3, <1>4
<1>6. QED
  BY <1>1, <1>5, Zenon

\* Five ranks in a row.
LEMMA RunsNeedFive ==
  ASSUME NEW h, Cardinality(RanksOf(h)) < 5, Cardinality(RanksOf(h)) \in Nat
  PROVE  RunsOf(h) = {} /\ StraightHigh(h) = 0
<1>1. ASSUME NEW top \in 5..14 PROVE Cardinality(RunTo(top)) = 5
  <2> PICK g : /\ DOMAIN g = 1..5
               /\ \A i \in 1..5 : g[i] = IF top - 5 + i = 1 THEN 14 ELSE top - 5 + i
    <3> WITNESS [i \in 1..5 |-> IF top - 5 + i = 1 THEN 14 ELSE top - 5 + i]
    <3> QED
      OBVIOUS
  <2>1. DOMAIN g = 1..5 /\ RunTo(top) = {g[i] : i \in 1..5}
    <3>1. ASSUME NEW r \in (top - 4)..top PROVE \E i \in 1..5 : r = top - 5 + i
      <4>1. r - top + 5 \in 1..5 /\ r = top - 5 + (r - top + 5)
        OBVIOUS
      <4>2. QED
        BY <4>1
    <3>2. \A i \in 1..5 : top - 5 + i \in (top - 4)..top
      OBVIOUS
    <3>3. QED
      BY <3>1, <3>2 DEF RunTo
  <2>2. \A i, j \in 1..5 : g[i] = g[j] => i = j
    OBVIOUS
  <2>3. QED
    BY <2>1, <2>2, ManyRanks
<1>2. QED
  BY <1>1 DEF RunsOf, StraightHigh

\* What the ranks of h are.
RanksAre(h, ranks) == RanksOf(h) = ranks

LEMMA GroupsOfTwo ==
  ASSUME NEW h, NEW a \in 2..14, NEW b \in 2..14,
         Count(h, a) \in Nat /\ Count(h, b) \in Nat,
         RanksAre(h, {a, b}), Ahead(h, a, b)
  PROVE  Cardinality(RanksOf(h)) = 2 /\ Groups(h) = <<a, b>>
<1>1. PICK g : g[1] = a /\ g[2] = b
  <2> WITNESS <<a, b>>
  <2> QED
    OBVIOUS
<1>2. RanksOf(h) = {g[i] : i \in 1..2}
  BY <1>1 DEF RanksAre
<1>3. \A i, j \in 1..2 : Ahead(h, g[i], g[j]) <=> i < j
  BY <1>1 DEF Ahead
<1>4. \A i, j \in 1..2 : i # j => g[i] # g[j]
  BY <1>1 DEF Ahead
<1>5. Cardinality(RanksOf(h)) = 2 /\ Groups(h) = [n \in 1..2 |-> g[n]]
  <2>1. Listed(h, 2, g)
    BY <1>2, <1>3, <1>4 DEF Listed
  <2>2. \A k \in Nat : Listed(h, k, g) => /\ Cardinality(RanksOf(h)) = k
                                        /\ Groups(h) = [n \in 1..k |-> g[n]]
    BY GroupsAre
  <2>3. QED
    BY <2>1, <2>2
<1>6. [n \in 1..2 |-> g[n]] = <<a, b>>
  BY <1>1
<1>7. QED
  BY <1>5, <1>6

LEMMA GroupsOfThree ==
  ASSUME NEW h, NEW a \in 2..14, NEW b \in 2..14, NEW c \in 2..14,
         Count(h, a) \in Nat /\ Count(h, b) \in Nat /\ Count(h, c) \in Nat,
         RanksAre(h, {a, b, c}), Ahead(h, a, b), Ahead(h, b, c)
  PROVE  Cardinality(RanksOf(h)) = 3 /\ Groups(h) = <<a, b, c>>
<1>1. PICK g : g[1] = a /\ g[2] = b /\ g[3] = c
  <2> WITNESS <<a, b, c>>
  <2> QED
    OBVIOUS
<1>2. RanksOf(h) = {g[i] : i \in 1..3}
  BY <1>1 DEF RanksAre
<1>3. \A i, j \in 1..3 : Ahead(h, g[i], g[j]) <=> i < j
  BY <1>1 DEF Ahead
<1>4. \A i, j \in 1..3 : i # j => g[i] # g[j]
  BY <1>1 DEF Ahead
<1>5. Cardinality(RanksOf(h)) = 3 /\ Groups(h) = [n \in 1..3 |-> g[n]]
  <2>1. Listed(h, 3, g)
    BY <1>2, <1>3, <1>4 DEF Listed
  <2>2. \A k \in Nat : Listed(h, k, g) => /\ Cardinality(RanksOf(h)) = k
                                        /\ Groups(h) = [n \in 1..k |-> g[n]]
    BY GroupsAre
  <2>3. QED
    BY <2>1, <2>2
<1>6. [n \in 1..3 |-> g[n]] = <<a, b, c>>
  BY <1>1
<1>7. QED
  BY <1>5, <1>6

LEMMA GroupsOfFour ==
  ASSUME NEW h, NEW a \in 2..14, NEW b \in 2..14, NEW c \in 2..14, NEW e \in 2..14,
         Count(h, a) \in Nat /\ Count(h, b) \in Nat /\ Count(h, c) \in Nat
         /\ Count(h, e) \in Nat,
         RanksAre(h, {a, b, c, e}), Ahead(h, a, b), Ahead(h, b, c), Ahead(h, c, e)
  PROVE  Cardinality(RanksOf(h)) = 4 /\ Groups(h) = <<a, b, c, e>>
<1>1. PICK g : g[1] = a /\ g[2] = b /\ g[3] = c /\ g[4] = e
  <2> WITNESS <<a, b, c, e>>
  <2> QED
    OBVIOUS
<1>2. RanksOf(h) = {g[i] : i \in 1..4}
  BY <1>1 DEF RanksAre
<1>3. \A i, j \in 1..4 : Ahead(h, g[i], g[j]) <=> i < j
  BY <1>1 DEF Ahead
<1>4. \A i, j \in 1..4 : i # j => g[i] # g[j]
  BY <1>1 DEF Ahead
<1>5. Cardinality(RanksOf(h)) = 4 /\ Groups(h) = [n \in 1..4 |-> g[n]]
  <2>1. Listed(h, 4, g)
    BY <1>2, <1>3, <1>4 DEF Listed
  <2>2. \A k \in Nat : Listed(h, k, g) => /\ Cardinality(RanksOf(h)) = k
                                        /\ Groups(h) = [n \in 1..k |-> g[n]]
    BY GroupsAre
  <2>3. QED
    BY <2>1, <2>2
<1>6. [n \in 1..4 |-> g[n]] = <<a, b, c, e>>
  BY <1>1
<1>7. QED
  BY <1>5, <1>6

\* Five ranks, each ahead of the next.
Falling(h, a, b, c, e, f) ==
  /\ a \in 2..14 /\ b \in 2..14 /\ c \in 2..14 /\ e \in 2..14 /\ f \in 2..14
  /\ Count(h, a) \in Nat /\ Count(h, b) \in Nat /\ Count(h, c) \in Nat
  /\ Count(h, e) \in Nat /\ Count(h, f) \in Nat
  /\ Ahead(h, a, b) /\ Ahead(h, b, c) /\ Ahead(h, c, e) /\ Ahead(h, e, f)
  /\ RanksOf(h) = {a, b, c, e, f}

LEMMA GroupsOfFive ==
  ASSUME NEW h, NEW a, NEW b, NEW c, NEW e, NEW f, Falling(h, a, b, c, e, f)
  PROVE  Cardinality(RanksOf(h)) = 5 /\ Groups(h) = <<a, b, c, e, f>>
<1>1. PICK g : g[1] = a /\ g[2] = b /\ g[3] = c /\ g[4] = e /\ g[5] = f
  <2> WITNESS <<a, b, c, e, f>>
  <2> QED
    OBVIOUS
<1>2. RanksOf(h) = {g[i] : i \in 1..5}
  BY <1>1 DEF Falling
<1>3. \A i, j \in 1..5 : Ahead(h, g[i], g[j]) <=> i < j
  BY <1>1 DEF Ahead, Falling
<1>4. \A i, j \in 1..5 : i # j => g[i] # g[j]
  BY <1>1 DEF Ahead, Falling
<1>5. Cardinality(RanksOf(h)) = 5 /\ Groups(h) = [n \in 1..5 |-> g[n]]
  <2>1. Listed(h, 5, g)
    BY <1>2, <1>3, <1>4 DEF Listed
  <2>2. \A k \in Nat : Listed(h, k, g) => /\ Cardinality(RanksOf(h)) = k
                                        /\ Groups(h) = [n \in 1..k |-> g[n]]
    BY GroupsAre
  <2>3. QED
    BY <2>1, <2>2
<1>6. [n \in 1..5 |-> g[n]] = <<a, b, c, e, f>>
  BY <1>1
<1>7. QED
  BY <1>5, <1>6
---------------------------------------------------------------------------
(* What five cards are worth. *)

\* The score, category first, and the same by the rules; beside it the ranks that
\* decide between hands of this kind, those that occur once first.
Worth(h, category, k1, k2, k3, k4, k5, T1, T2, T3, T4) ==
  /\ Score5(h) = Digits(category, k1, k2, k3, k4, k5)
  /\ Kind(h) = category
  /\ Tops(h, 1) = T1 /\ Tops(h, 2) = T2 /\ Tops(h, 3) = T3 /\ Tops(h, 4) = T4

LEMMA SmallSets ==
  /\ Cardinality({}) = 0
  /\ \A x : Cardinality({x}) = 1
  /\ \A x, y : x # y => Cardinality({x, y}) = 2
<1>1. Cardinality({}) = 0
  BY FS_EmptySet
<1>2. \A x : IsFiniteSet({x}) /\ Cardinality({x}) = 1
  BY FS_Singleton
<1>3. ASSUME NEW x, NEW y, x # y PROVE Cardinality({x, y}) = 2
  <2>1. {x, y} = {x} \cup {y} /\ y \notin {x}
    BY <1>3
  <2>2. Cardinality({x} \cup {y}) = Cardinality({x}) + 1
    BY <1>2, <2>1, FS_AddElement
  <2>3. QED
    BY <1>2, <2>1, <2>2
<1>4. QED
  BY <1>1, <1>2, <1>3

LEMMA QuadsWorth ==
  ASSUME NEW h, FiveCards(h), NEW a, NEW b, Quads(h, a, b)
  PROVE  Worth(h, 7, a, b, 0, 0, 0, {b}, {}, {}, {a})
<1>1. /\ a \in 2..14 /\ b \in 2..14
      /\ Count(h, a) = 4 /\ Count(h, b) = 1
      /\ Ahead(h, a, b)
      /\ RanksAre(h, {a, b})
  BY DEF Quads, Ahead, RanksAre
<1>2. Cardinality(RanksOf(h)) = 2 /\ Groups(h) = <<a, b>>
  <2>1. /\ a \in 2..14 /\ b \in 2..14
        /\ Count(h, a) \in Nat /\ Count(h, b) \in Nat
        /\ Ahead(h, a, b)
        /\ RanksAre(h, {a, b})
    BY <1>1
  <2>2. QED
    BY <2>1, GroupsOfTwo
<1>3. RunsOf(h) = {} /\ StraightHigh(h) = 0
  BY <1>2, RunsNeedFive
<1>4. ~OneSuit(h)
  BY <1>1, OneSuitHasNoPair
<1>5. /\ Times(h, 1) = {b} /\ Times(h, 2) = {}
      /\ Times(h, 3) = {} /\ Times(h, 4) = {a}
  BY <1>1 DEF Times, RanksAre
<1>6. Score5(h) = Pack(7, <<a, b>>)
  BY <1>1, <1>2, <1>3, <1>4 DEF Score5, FourOfAKind
<1>7. Score5(h) = Digits(7, a, b, 0, 0, 0)
  BY <1>6, Packed
<1>8. Kind(h) = 7
  <2>1. Cardinality(Times(h, 2)) = 0
    BY <1>1, <1>5, SmallSets
  <2>2. QED
    BY <1>1, <1>3, <1>4, <1>5, SmallSets, <2>1 DEF Kind, FourOfAKind
<1>9. QED
  BY <1>3, <1>5, <1>7, <1>8 DEF Worth, Tops

LEMMA HouseWorth ==
  ASSUME NEW h, FiveCards(h), NEW a, NEW b, House(h, a, b)
  PROVE  Worth(h, 6, a, b, 0, 0, 0, {}, {b}, {a}, {})
<1>1. /\ a \in 2..14 /\ b \in 2..14
      /\ Count(h, a) = 3 /\ Count(h, b) = 2
      /\ Ahead(h, a, b)
      /\ RanksAre(h, {a, b})
  BY DEF House, Ahead, RanksAre
<1>2. Cardinality(RanksOf(h)) = 2 /\ Groups(h) = <<a, b>>
  <2>1. /\ a \in 2..14 /\ b \in 2..14
        /\ Count(h, a) \in Nat /\ Count(h, b) \in Nat
        /\ Ahead(h, a, b)
        /\ RanksAre(h, {a, b})
    BY <1>1
  <2>2. QED
    BY <2>1, GroupsOfTwo
<1>3. RunsOf(h) = {} /\ StraightHigh(h) = 0
  BY <1>2, RunsNeedFive
<1>4. ~OneSuit(h)
  BY <1>1, OneSuitHasNoPair
<1>5. /\ Times(h, 1) = {} /\ Times(h, 2) = {b}
      /\ Times(h, 3) = {a} /\ Times(h, 4) = {}
  BY <1>1 DEF Times, RanksAre
<1>6. Score5(h) = Pack(6, <<a, b>>)
  BY <1>1, <1>2, <1>3, <1>4 DEF Score5, FullHouse
<1>7. Score5(h) = Digits(6, a, b, 0, 0, 0)
  BY <1>6, Packed
<1>8. Kind(h) = 6
  <2>1. Cardinality(Times(h, 2)) = 1
    BY <1>1, <1>5, SmallSets
  <2>2. QED
    BY <1>1, <1>3, <1>4, <1>5, SmallSets, <2>1 DEF Kind, FullHouse
<1>9. QED
  BY <1>3, <1>5, <1>7, <1>8 DEF Worth, Tops

LEMMA TripsWorth ==
  ASSUME NEW h, FiveCards(h), NEW a, NEW b, NEW c, Trips(h, a, b, c)
  PROVE  Worth(h, 3, a, b, c, 0, 0, {b, c}, {}, {a}, {})
<1>1. /\ a \in 2..14 /\ b \in 2..14 /\ c \in 2..14
      /\ Count(h, a) = 3 /\ Count(h, b) = 1 /\ Count(h, c) = 1
      /\ Ahead(h, a, b) /\ Ahead(h, b, c)
      /\ RanksAre(h, {a, b, c})
  BY DEF Trips, Ahead, RanksAre
<1>2. Cardinality(RanksOf(h)) = 3 /\ Groups(h) = <<a, b, c>>
  <2>1. /\ a \in 2..14 /\ b \in 2..14 /\ c \in 2..14
        /\ Count(h, a) \in Nat /\ Count(h, b) \in Nat /\ Count(h, c) \in Nat
        /\ Ahead(h, a, b) /\ Ahead(h, b, c)
        /\ RanksAre(h, {a, b, c})
    BY <1>1
  <2>2. QED
    BY <2>1, GroupsOfThree
<1>3. RunsOf(h) = {} /\ StraightHigh(h) = 0
  BY <1>2, RunsNeedFive
<1>4. ~OneSuit(h)
  BY <1>1, OneSuitHasNoPair
<1>5. /\ Times(h, 1) = {b, c} /\ Times(h, 2) = {}
      /\ Times(h, 3) = {a} /\ Times(h, 4) = {}
  BY <1>1 DEF Times, RanksAre
<1>6. Score5(h) = Pack(3, <<a, b, c>>)
  BY <1>1, <1>2, <1>3, <1>4 DEF Score5, ThreeOfAKind
<1>7. Score5(h) = Digits(3, a, b, c, 0, 0)
  BY <1>6, Packed
<1>8. Kind(h) = 3
  <2>1. Cardinality(Times(h, 2)) = 0
    BY <1>1, <1>5, SmallSets
  <2>2. QED
    BY <1>1, <1>3, <1>4, <1>5, SmallSets, <2>1 DEF Kind, ThreeOfAKind
<1>9. QED
  BY <1>3, <1>5, <1>7, <1>8 DEF Worth, Tops

LEMMA PairsWorth ==
  ASSUME NEW h, FiveCards(h), NEW a, NEW b, NEW c, Pairs(h, a, b, c)
  PROVE  Worth(h, 2, a, b, c, 0, 0, {c}, {a, b}, {}, {})
<1>1. /\ a \in 2..14 /\ b \in 2..14 /\ c \in 2..14
      /\ Count(h, a) = 2 /\ Count(h, b) = 2 /\ Count(h, c) = 1
      /\ Ahead(h, a, b) /\ Ahead(h, b, c)
      /\ RanksAre(h, {a, b, c})
  BY DEF Pairs, Ahead, RanksAre
<1>2. Cardinality(RanksOf(h)) = 3 /\ Groups(h) = <<a, b, c>>
  <2>1. /\ a \in 2..14 /\ b \in 2..14 /\ c \in 2..14
        /\ Count(h, a) \in Nat /\ Count(h, b) \in Nat /\ Count(h, c) \in Nat
        /\ Ahead(h, a, b) /\ Ahead(h, b, c)
        /\ RanksAre(h, {a, b, c})
    BY <1>1
  <2>2. QED
    BY <2>1, GroupsOfThree
<1>3. RunsOf(h) = {} /\ StraightHigh(h) = 0
  BY <1>2, RunsNeedFive
<1>4. ~OneSuit(h)
  BY <1>1, OneSuitHasNoPair
<1>5. /\ Times(h, 1) = {c} /\ Times(h, 2) = {a, b}
      /\ Times(h, 3) = {} /\ Times(h, 4) = {}
  BY <1>1 DEF Times, RanksAre
<1>6. Score5(h) = Pack(2, <<a, b, c>>)
  BY <1>1, <1>2, <1>3, <1>4 DEF Score5, TwoPair
<1>7. Score5(h) = Digits(2, a, b, c, 0, 0)
  BY <1>6, Packed
<1>8. Kind(h) = 2
  <2>1. Cardinality(Times(h, 2)) = 2
    <3>1. a # b
      BY DEF Pairs
    <3>2. Cardinality({a, b}) = 2
      BY <3>1, SmallSets
    <3>3. QED
      BY <1>5, <3>2
  <2>2. QED
    BY <1>1, <1>3, <1>4, <1>5, SmallSets, <2>1 DEF Kind, TwoPair
<1>9. QED
  BY <1>3, <1>5, <1>7, <1>8 DEF Worth, Tops

LEMMA PairWorth ==
  ASSUME NEW h, FiveCards(h), NEW a, NEW b, NEW c, NEW e, Pair(h, a, b, c, e)
  PROVE  Worth(h, 1, a, b, c, e, 0, {b, c, e}, {a}, {}, {})
<1>1. /\ a \in 2..14 /\ b \in 2..14 /\ c \in 2..14 /\ e \in 2..14
      /\ Count(h, a) = 2 /\ Count(h, b) = 1 /\ Count(h, c) = 1 /\ Count(h, e) = 1
      /\ Ahead(h, a, b) /\ Ahead(h, b, c) /\ Ahead(h, c, e)
      /\ RanksAre(h, {a, b, c, e})
  BY DEF Pair, Ahead, RanksAre
<1>2. Cardinality(RanksOf(h)) = 4 /\ Groups(h) = <<a, b, c, e>>
  <2>1. /\ a \in 2..14 /\ b \in 2..14 /\ c \in 2..14 /\ e \in 2..14
        /\ Count(h, a) \in Nat /\ Count(h, b) \in Nat
        /\ Count(h, c) \in Nat /\ Count(h, e) \in Nat
        /\ Ahead(h, a, b) /\ Ahead(h, b, c) /\ Ahead(h, c, e)
        /\ RanksAre(h, {a, b, c, e})
    BY <1>1
  <2>2. QED
    BY <2>1, GroupsOfFour
<1>3. RunsOf(h) = {} /\ StraightHigh(h) = 0
  BY <1>2, RunsNeedFive
<1>4. ~OneSuit(h)
  BY <1>1, OneSuitHasNoPair
<1>5. /\ Times(h, 1) = {b, c, e} /\ Times(h, 2) = {a}
      /\ Times(h, 3) = {} /\ Times(h, 4) = {}
  BY <1>1 DEF Times, RanksAre
<1>6. Score5(h) = Pack(1, <<a, b, c, e>>)
  BY <1>1, <1>2, <1>3, <1>4 DEF Score5, OnePair
<1>7. Score5(h) = Digits(1, a, b, c, e, 0)
  BY <1>6, Packed
<1>8. Kind(h) = 1
  <2>1. Cardinality(Times(h, 2)) = 1
    BY <1>1, <1>5, SmallSets
  <2>2. QED
    BY <1>1, <1>3, <1>4, <1>5, SmallSets, <2>1 DEF Kind, OnePair
<1>9. QED
  BY <1>3, <1>5, <1>7, <1>8 DEF Worth, Tops

LEMMA SingleRuns ==
  ASSUME NEW h, NEW a, NEW b, NEW c, NEW e, NEW f, Single(h, a, b, c, e, f)
  PROVE  /\ Groups(h) = <<a, b, c, e, f>>
         /\ Times(h, 1) = {a, b, c, e, f} /\ Times(h, 2) = {} /\ Times(h, 3) = {}
         /\ Times(h, 4) = {}
         /\ \/ RunsOf(h) = {} /\ StraightHigh(h) = 0
            \/ \E high \in 5..14 : RunsOf(h) = {high} /\ StraightHigh(h) = high
<1>1. Falling(h, a, b, c, e, f)
  BY DEF Single, Ahead, Falling
<1>2. Cardinality(RanksOf(h)) = 5 /\ Groups(h) = <<a, b, c, e, f>>
  BY <1>1, GroupsOfFive
<1>3. /\ Times(h, 1) = {a, b, c, e, f} /\ Times(h, 2) = {} /\ Times(h, 3) = {}
      /\ Times(h, 4) = {}
  BY DEF Single, Times
<1>4. StraightHigh(h) = IF a - f = 4 THEN a
                        ELSE IF a = 14 /\ b = 5 /\ c = 4 /\ e = 3 /\ f = 2 THEN 5 ELSE 0
  BY <1>2 DEF Single, StraightHigh
<1>5. /\ a > b /\ b > c /\ c > e /\ e > f
      /\ a \in Int /\ b \in Int /\ c \in Int /\ e \in Int /\ f \in Int
      /\ f >= 2 /\ a <= 14
  BY DEF Single
<1>6. RanksOf(h) = {a, b, c, e, f}
  BY DEF Single
<1>7. ASSUME NEW top \in 6..14
      PROVE  (RanksOf(h) = RunTo(top)) <=> (a = top /\ a - f = 4)
  <2>1. \A r : (r \in RunTo(top)) <=> (r \in (top - 4)..top)
    BY DEF RunTo
  <2>2. ASSUME RanksOf(h) = RunTo(top) PROVE a = top /\ a - f = 4
    <3>1. \A r \in (top - 4)..top : r = a \/ r = b \/ r = c \/ r = e \/ r = f
      BY <1>6, <2>1, <2>2
    <3>2. top \in (top - 4)..top /\ top - 4 \in (top - 4)..top
      OBVIOUS
    <3>3. a \in (top - 4)..top /\ f \in (top - 4)..top
      BY <1>6, <2>1, <2>2
    <3>4. top <= a /\ top - 4 >= f
      BY <1>5, <3>1, <3>2
    <3>5. QED
      BY <1>5, <3>3, <3>4
  <2>3. ASSUME a = top, a - f = 4 PROVE RanksOf(h) = RunTo(top)
    <3>1. b = top - 1 /\ c = top - 2 /\ e = top - 3 /\ f = top - 4
      BY <1>5, <2>3
    <3>2. \A r : (r \in (top - 4)..top)
                   <=> (r = top \/ r = top - 1 \/ r = top - 2 \/ r = top - 3 \/ r = top - 4)
      OBVIOUS
    <3>3. QED
      BY <1>6, <2>1, <2>3, <3>1, <3>2
  <2>4. QED
    BY <2>2, <2>3
<1>8. (RanksOf(h) = RunTo(5)) <=> (a = 14 /\ b = 5 /\ c = 4 /\ e = 3 /\ f = 2)
  <2>1. RunTo(5) = {14, 5, 4, 3, 2}
    <3>1. RunTo(5) = {IF r = 1 THEN 14 ELSE r : r \in 1..5}
      BY 5 - 4 = 1 DEF RunTo
    <3>2. \A r : (r \in 1..5) <=> (r = 1 \/ r = 2 \/ r = 3 \/ r = 4 \/ r = 5)
      OBVIOUS
    <3>3. QED
      BY <3>1, <3>2
  <2>2. ASSUME RanksOf(h) = RunTo(5) PROVE a = 14 /\ b = 5 /\ c = 4 /\ e = 3 /\ f = 2
    <3>1. /\ a = 14 \/ a = 5 \/ a = 4 \/ a = 3 \/ a = 2
          /\ b = 14 \/ b = 5 \/ b = 4 \/ b = 3 \/ b = 2
          /\ c = 14 \/ c = 5 \/ c = 4 \/ c = 3 \/ c = 2
          /\ e = 14 \/ e = 5 \/ e = 4 \/ e = 3 \/ e = 2
          /\ f = 14 \/ f = 5 \/ f = 4 \/ f = 3 \/ f = 2
      BY <1>6, <2>1, <2>2
    <3>2. QED
      BY <1>5, <3>1
  <2>3. QED
    BY <1>6, <2>1, <2>2
<1>9. CASE a - f = 4
  <2>1. a \in 6..14 /\ a \in 5..14 /\ a # 5
    BY <1>5, <1>9
  <2>2. StraightHigh(h) = a
    BY <1>4, <1>9
  <2>3. RunsOf(h) = {a}
    <3>1. \A top \in 5..14 : top = 5 \/ top \in 6..14
      OBVIOUS
    <3>2. ~(RanksOf(h) = RunTo(5))
      BY <1>5, <1>8, <1>9
    <3>3. \A top \in 5..14 : (RanksOf(h) = RunTo(top)) <=> (a = top)
      BY <1>7, <1>9, <2>1, <3>1, <3>2
    <3>4. QED
      BY <2>1, <3>3 DEF RunsOf
  <2>4. QED
    BY <1>2, <1>3, <2>1, <2>2, <2>3
<1>10. CASE a - f # 4 /\ a = 14 /\ b = 5 /\ c = 4 /\ e = 3 /\ f = 2
  <2>1. StraightHigh(h) = 5
    BY <1>4, <1>10
  <2>2. RunsOf(h) = {5}
    <3>1. \A top \in 5..14 : top = 5 \/ top \in 6..14
      OBVIOUS
    <3>2. \A top \in 5..14 : (RanksOf(h) = RunTo(top)) <=> (top = 5)
      BY <1>7, <1>8, <1>10, <3>1
    <3>3. QED
      BY <3>2 DEF RunsOf
  <2>3. QED
    BY <1>2, <1>3, <2>1, <2>2
<1>11. CASE a - f # 4 /\ ~(a = 14 /\ b = 5 /\ c = 4 /\ e = 3 /\ f = 2)
  <2>1. StraightHigh(h) = 0
    BY <1>4, <1>11
  <2>2. RunsOf(h) = {}
    <3>1. \A top \in 5..14 : top = 5 \/ top \in 6..14
      OBVIOUS
    <3>2. \A top \in 5..14 : ~(RanksOf(h) = RunTo(top))
      BY <1>7, <1>8, <1>11, <3>1
    <3>3. QED
      BY <3>2 DEF RunsOf
  <2>3. QED
    BY <1>2, <1>3, <2>1, <2>2
<1>12. QED
  BY <1>9, <1>10, <1>11

LEMMA SingleWorth ==
  ASSUME NEW h, NEW a, NEW b, NEW c, NEW e, NEW f, Single(h, a, b, c, e, f)
  PROVE  \/ Worth(h, IF OneSuit(h) THEN 5 ELSE 0, a, b, c, e, f, {a, b, c, e, f}, {}, {}, {})
         \/ \E high \in 5..14 :
              Worth(h, IF OneSuit(h) THEN 8 ELSE 4, high, 0, 0, 0, 0, {high}, {}, {}, {})
<1>1. /\ Groups(h) = <<a, b, c, e, f>>
      /\ Times(h, 1) = {a, b, c, e, f} /\ Times(h, 2) = {} /\ Times(h, 3) = {}
      /\ Times(h, 4) = {}
      /\ \/ RunsOf(h) = {} /\ StraightHigh(h) = 0
         \/ \E high \in 5..14 : RunsOf(h) = {high} /\ StraightHigh(h) = high
  BY SingleRuns
<1>2. /\ Descending(h) = <<a, b, c, e, f>>
      /\ Count(h, a) = 1 /\ Count(h, b) = 1
  BY DEF Single
<1>3. CASE RunsOf(h) = {} /\ StraightHigh(h) = 0
  <2>1. Score5(h) = Pack(IF OneSuit(h) THEN 5 ELSE 0, <<a, b, c, e, f>>)
    BY <1>1, <1>2, <1>3 DEF Score5, Flush, HighCard
  <2>2. Score5(h) = Digits(IF OneSuit(h) THEN 5 ELSE 0, a, b, c, e, f)
    BY <2>1, Packed
  <2>3. Kind(h) = IF OneSuit(h) THEN 5 ELSE 0
    <3>1. Cardinality(Times(h, 2)) = 0
      BY <1>1, SmallSets
    <3>2. QED
      BY <1>1, <1>3, <3>1 DEF Kind, Flush, HighCard
  <2>4. QED
    BY <1>1, <1>3, <2>2, <2>3 DEF Worth, Tops
<1>4. ASSUME NEW high \in 5..14, RunsOf(h) = {high}, StraightHigh(h) = high
      PROVE  Worth(h, IF OneSuit(h) THEN 8 ELSE 4, high, 0, 0, 0, 0, {high}, {}, {}, {})
  <2>1. Score5(h) = Pack(IF OneSuit(h) THEN 8 ELSE 4, <<high>>)
    BY <1>1, <1>2, <1>4 DEF Score5, StraightFlush, Straight
  <2>2. Score5(h) = Digits(IF OneSuit(h) THEN 8 ELSE 4, high, 0, 0, 0, 0)
    BY <2>1, Packed
  <2>3. Kind(h) = IF OneSuit(h) THEN 8 ELSE 4
    <3>1. Cardinality(Times(h, 2)) = 0
      BY <1>1, SmallSets
    <3>2. QED
      BY <1>1, <1>4, <3>1 DEF Kind, StraightFlush, Straight
  <2>4. QED
    BY <1>4, <2>2, <2>3 DEF Worth, Tops
<1>5. QED
  BY <1>1, <1>3, <1>4

Topped(h, T1, T2, T3, T4) ==
  Tops(h, 1) = T1 /\ Tops(h, 2) = T2 /\ Tops(h, 3) = T3 /\ Tops(h, 4) = T4

\* The kickers of each category, and the ranks that decide.
Decided(h, category, k1, k2, k3, k4, k5) ==
  \/ /\ category = 4 \/ category = 8
     /\ Topped(h, {k1}, {}, {}, {}) /\ k2 = 0 /\ k3 = 0 /\ k4 = 0 /\ k5 = 0
  \/ /\ category = 7
     /\ Topped(h, {k2}, {}, {}, {k1}) /\ k3 = 0 /\ k4 = 0 /\ k5 = 0
  \/ /\ category = 6
     /\ Topped(h, {}, {k2}, {k1}, {}) /\ k3 = 0 /\ k4 = 0 /\ k5 = 0
  \/ /\ category = 3
     /\ Topped(h, {k2, k3}, {}, {k1}, {}) /\ k2 > k3 /\ k4 = 0 /\ k5 = 0
  \/ /\ category = 2
     /\ Topped(h, {k3}, {k1, k2}, {}, {}) /\ k1 > k2 /\ k4 = 0 /\ k5 = 0
  \/ /\ category = 1
     /\ Topped(h, {k2, k3, k4}, {k1}, {}, {}) /\ k2 > k3 /\ k3 > k4 /\ k5 = 0
  \/ /\ category = 0 \/ category = 5
     /\ Topped(h, {k1, k2, k3, k4, k5}, {}, {}, {})
     /\ k1 > k2 /\ k2 > k3 /\ k3 > k4 /\ k4 > k5

\* The score of h, as a number and by the rules.
Standing(h, category, k1, k2, k3, k4, k5) ==
  /\ category \in 0..8
  /\ k1 \in Kickers /\ k2 \in Kickers /\ k3 \in Kickers /\ k4 \in Kickers /\ k5 \in Kickers
  /\ Score5(h) = Digits(category, k1, k2, k3, k4, k5)
  /\ Kind(h) = category
  /\ Decided(h, category, k1, k2, k3, k4, k5)

\* The ranks of h from high to low, one by one.
Sorted(h, a, b, c, e, f) ==
  /\ a >= b /\ b >= c /\ c >= e /\ e >= f
  /\ Descending(h) = <<a, b, c, e, f>>
  /\ RanksOf(h) = {a, b, c, e, f}
  /\ \A r \in 2..14 : Count(h, r) = Sames(a, b, c, e, f, r)

LEMMA Catalogue ==
  ASSUME NEW h, FiveCards(h)
  PROVE  \/ \E a, b : Quads(h, a, b) \/ House(h, a, b)
         \/ \E a, b, c : Trips(h, a, b, c) \/ Pairs(h, a, b, c)
         \/ \E a, b, c, e : Pair(h, a, b, c, e)
         \/ \E a, b, c, e, f : Single(h, a, b, c, e, f)
<1>0. PICK a \in 2..14, b \in 2..14, c \in 2..14, e \in 2..14, f \in 2..14 :
        Sorted(h, a, b, c, e, f)
  <2>1. PICK d : d = Descending(h) /\ Ordered(h, d)
    BY DescendingIsOrdered
  <2>2. /\ d[1] \in 2..14 /\ d[2] \in 2..14 /\ d[3] \in 2..14 /\ d[4] \in 2..14
        /\ d[5] \in 2..14 /\ d = <<d[1], d[2], d[3], d[4], d[5]>>
    BY <2>1 DEF Ordered
  <2>3. Sorted(h, d[1], d[2], d[3], d[4], d[5])
    BY <2>1, <2>2 DEF Ordered, Sorted
  <2>4. QED
    BY <2>2, <2>3
<1>1. /\ a >= b /\ b >= c /\ c >= e /\ e >= f
      /\ Descending(h) = <<a, b, c, e, f>>
      /\ RanksOf(h) = {a, b, c, e, f}
      /\ \A r \in 2..14 : Count(h, r) = Sames(a, b, c, e, f, r)
  BY <1>0 DEF Sorted
<1>2. /\ Count(h, a) = Sames(a, b, c, e, f, a) /\ Count(h, b) = Sames(a, b, c, e, f, b)
      /\ Count(h, c) = Sames(a, b, c, e, f, c) /\ Count(h, e) = Sames(a, b, c, e, f, e)
      /\ Count(h, f) = Sames(a, b, c, e, f, f)
  BY <1>1
<1>3. ~(a = b /\ b = c /\ c = e /\ e = f)
  <2>1. Count(h, a) <= 4
    BY TwoRanks
  <2>2. QED
    BY <1>1, <1>2, <2>1 DEF Sames, Same
<1>4. CASE a = b /\ b = c /\ c = e /\ e # f
  <2>1. Quads(h, a, f)
    BY <1>1, <1>2, <1>4 DEF Quads, Sames, Same
  <2>2. QED
    BY <2>1
<1>5. CASE a = b /\ b = c /\ c # e /\ e = f
  <2>1. House(h, a, e)
    BY <1>1, <1>2, <1>5 DEF House, Sames, Same
  <2>2. QED
    BY <2>1
<1>6. CASE a = b /\ b = c /\ c # e /\ e # f
  <2>1. Trips(h, a, e, f)
    BY <1>1, <1>2, <1>6 DEF Trips, Sames, Same
  <2>2. QED
    BY <2>1
<1>7. CASE a = b /\ b # c /\ c = e /\ e = f
  <2>1. House(h, c, a)
    BY <1>1, <1>2, <1>7 DEF House, Sames, Same
  <2>2. QED
    BY <2>1
<1>8. CASE a = b /\ b # c /\ c = e /\ e # f
  <2>1. Pairs(h, a, c, f)
    BY <1>1, <1>2, <1>8 DEF Pairs, Sames, Same
  <2>2. QED
    BY <2>1
<1>9. CASE a = b /\ b # c /\ c # e /\ e = f
  <2>1. Pairs(h, a, e, c)
    BY <1>1, <1>2, <1>9 DEF Pairs, Sames, Same
  <2>2. QED
    BY <2>1
<1>10. CASE a = b /\ b # c /\ c # e /\ e # f
  <2>1. Pair(h, a, c, e, f)
    BY <1>1, <1>2, <1>10 DEF Pair, Sames, Same
  <2>2. QED
    BY <2>1
<1>11. CASE a # b /\ b = c /\ c = e /\ e = f
  <2>1. Quads(h, b, a)
    BY <1>1, <1>2, <1>11 DEF Quads, Sames, Same
  <2>2. QED
    BY <2>1
<1>12. CASE a # b /\ b = c /\ c = e /\ e # f
  <2>1. Trips(h, b, a, f)
    BY <1>1, <1>2, <1>12 DEF Trips, Sames, Same
  <2>2. QED
    BY <2>1
<1>13. CASE a # b /\ b = c /\ c # e /\ e = f
  <2>1. Pairs(h, b, e, a)
    BY <1>1, <1>2, <1>13 DEF Pairs, Sames, Same
  <2>2. QED
    BY <2>1
<1>14. CASE a # b /\ b = c /\ c # e /\ e # f
  <2>1. Pair(h, b, a, e, f)
    BY <1>1, <1>2, <1>14 DEF Pair, Sames, Same
  <2>2. QED
    BY <2>1
<1>15. CASE a # b /\ b # c /\ c = e /\ e = f
  <2>1. Trips(h, c, a, b)
    BY <1>1, <1>2, <1>15 DEF Trips, Sames, Same
  <2>2. QED
    BY <2>1
<1>16. CASE a # b /\ b # c /\ c = e /\ e # f
  <2>1. Pair(h, c, a, b, f)
    BY <1>1, <1>2, <1>16 DEF Pair, Sames, Same
  <2>2. QED
    BY <2>1
<1>17. CASE a # b /\ b # c /\ c # e /\ e = f
  <2>1. Pair(h, e, a, b, c)
    BY <1>1, <1>2, <1>17 DEF Pair, Sames, Same
  <2>2. QED
    BY <2>1
<1>18. CASE a # b /\ b # c /\ c # e /\ e # f
  <2>1. Single(h, a, b, c, e, f)
    BY <1>1, <1>2, <1>18 DEF Single, Sames, Same
  <2>2. QED
    BY <2>1
<1>19. QED
  BY <1>3, <1>4, <1>5, <1>6, <1>7, <1>8, <1>9, <1>10, <1>11, <1>12,
     <1>13, <1>14, <1>15, <1>16, <1>17, <1>18

LEMMA EveryHandStands ==
  ASSUME NEW h, FiveCards(h)
  PROVE  \E category, k1, k2, k3, k4, k5 : Standing(h, category, k1, k2, k3, k4, k5)
<1>1. ASSUME NEW a, NEW b, Quads(h, a, b) PROVE Standing(h, 7, a, b, 0, 0, 0)
  <2>1. Worth(h, 7, a, b, 0, 0, 0, {b}, {}, {}, {a})
    BY <1>1, QuadsWorth
  <2>2. a \in Kickers /\ b \in Kickers /\ 0 \in Kickers
    BY <1>1 DEF Quads, Kickers
  <2>3. QED
    BY <2>1, <2>2 DEF Standing, Decided, Topped, Worth
<1>2. ASSUME NEW a, NEW b, House(h, a, b) PROVE Standing(h, 6, a, b, 0, 0, 0)
  <2>1. Worth(h, 6, a, b, 0, 0, 0, {}, {b}, {a}, {})
    BY <1>2, HouseWorth
  <2>2. a \in Kickers /\ b \in Kickers /\ 0 \in Kickers
    BY <1>2 DEF House, Kickers
  <2>3. QED
    BY <2>1, <2>2 DEF Standing, Decided, Topped, Worth
<1>3. ASSUME NEW a, NEW b, NEW c, Trips(h, a, b, c) PROVE Standing(h, 3, a, b, c, 0, 0)
  <2>1. Worth(h, 3, a, b, c, 0, 0, {b, c}, {}, {a}, {})
    BY <1>3, TripsWorth
  <2>2. a \in Kickers /\ b \in Kickers /\ c \in Kickers /\ 0 \in Kickers /\ b > c
    BY <1>3 DEF Trips, Kickers
  <2>3. QED
    BY <2>1, <2>2 DEF Standing, Decided, Topped, Worth
<1>4. ASSUME NEW a, NEW b, NEW c, Pairs(h, a, b, c) PROVE Standing(h, 2, a, b, c, 0, 0)
  <2>1. Worth(h, 2, a, b, c, 0, 0, {c}, {a, b}, {}, {})
    BY <1>4, PairsWorth
  <2>2. a \in Kickers /\ b \in Kickers /\ c \in Kickers /\ 0 \in Kickers /\ a > b
    BY <1>4 DEF Pairs, Kickers
  <2>3. QED
    BY <2>1, <2>2 DEF Standing, Decided, Topped, Worth
<1>5. ASSUME NEW a, NEW b, NEW c, NEW e, Pair(h, a, b, c, e)
      PROVE  Standing(h, 1, a, b, c, e, 0)
  <2>1. Worth(h, 1, a, b, c, e, 0, {b, c, e}, {a}, {}, {})
    BY <1>5, PairWorth
  <2>2. /\ a \in Kickers /\ b \in Kickers /\ c \in Kickers /\ e \in Kickers /\ 0 \in Kickers
        /\ b > c /\ c > e
    BY <1>5 DEF Pair, Kickers
  <2>3. QED
    BY <2>1, <2>2 DEF Standing, Decided, Topped, Worth
<1>6. ASSUME NEW a, NEW b, NEW c, NEW e, NEW f, Single(h, a, b, c, e, f)
      PROVE  \E category, k1, k2, k3, k4, k5 : Standing(h, category, k1, k2, k3, k4, k5)
  <2>1. /\ a \in Kickers /\ b \in Kickers /\ c \in Kickers /\ e \in Kickers /\ f \in Kickers
        /\ a > b /\ b > c /\ c > e /\ e > f
    BY <1>6 DEF Single, Kickers
  <2>2. CASE Worth(h, IF OneSuit(h) THEN 5 ELSE 0, a, b, c, e, f,
                   {a, b, c, e, f}, {}, {}, {})
    <3>1. Standing(h, IF OneSuit(h) THEN 5 ELSE 0, a, b, c, e, f)
      BY <2>1, <2>2 DEF Standing, Decided, Topped, Worth
    <3>2. QED
      BY <3>1
  <2>3. ASSUME NEW high \in 5..14,
               Worth(h, IF OneSuit(h) THEN 8 ELSE 4, high, 0, 0, 0, 0, {high}, {}, {}, {})
        PROVE  Standing(h, IF OneSuit(h) THEN 8 ELSE 4, high, 0, 0, 0, 0)
    <3>1. high \in Kickers /\ 0 \in Kickers
      BY DEF Kickers
    <3>2. QED
      BY <2>3, <3>1 DEF Standing, Decided, Topped, Worth
  <2>4. QED
    BY <1>6, <2>2, <2>3, SingleWorth
<1>7. QED
  BY <1>1, <1>2, <1>3, <1>4, <1>5, <1>6, Catalogue
---------------------------------------------------------------------------
(* Which of two hands of a kind is stronger. *)

Higher(S, T) == \E r \in S \ T : \A q \in T \ S : q < r

\* The highest element decides, or, when it is the same, the others do.
Equal(S, T) == S = T

Tall(a, S) == a \in Int /\ \A s \in S : s \in Int /\ s < a

LEMMA TopDecides ==
  ASSUME NEW a, NEW b, NEW S, NEW T, Tall(a, S), Tall(b, T)
  PROVE  /\ Higher({a} \cup S, {b} \cup T) <=> (a > b \/ (a = b /\ Higher(S, T)))
         /\ Equal({a} \cup S, {b} \cup T) <=> (a = b /\ Equal(S, T))
<1>0. /\ a \in Int /\ \A s \in S : s \in Int /\ s < a
      /\ b \in Int /\ \A t \in T : t \in Int /\ t < b
  BY DEF Tall
<1>1. ASSUME a > b PROVE Higher({a} \cup S, {b} \cup T)
  <2>1. a \notin T /\ a # b
    BY <1>0, <1>1
  <2>2. QED
    BY <1>0, <1>1, <2>1 DEF Higher
<1>2. ASSUME b > a PROVE ~Higher({a} \cup S, {b} \cup T) /\ {a} \cup S # {b} \cup T
  <2>1. b \notin S /\ a # b
    BY <1>0, <1>2
  <2>2. \A r \in ({a} \cup S) : r \in Int /\ r < b
    BY <1>0, <1>2
  <2>3. {a} \cup S # {b} \cup T
    BY <2>1
  <2>4. ASSUME NEW r \in ({a} \cup S) \ ({b} \cup T),
               \A q \in ({b} \cup T) \ ({a} \cup S) : q < r
        PROVE  FALSE
    <3>1. r \in Int /\ r < b
      BY <2>2
    <3>2. b \in ({b} \cup T) \ ({a} \cup S)
      BY <2>1
    <3>3. b < r
      BY <2>4, <3>2
    <3>4. QED
      BY <1>0, <3>1, <3>3
  <2>5. QED
    BY <2>3, <2>4 DEF Higher
<1>3. ASSUME a = b
      PROVE  /\ Higher({a} \cup S, {b} \cup T) <=> Higher(S, T)
             /\ ({a} \cup S = {b} \cup T) <=> S = T
  <2>1. a \notin S /\ a \notin T
    BY <1>0, <1>3
  <2>2. ({a} \cup S) \ ({b} \cup T) = S \ T /\ ({b} \cup T) \ ({a} \cup S) = T \ S
    BY <1>3, <2>1
  <2>3. QED
    BY <1>3, <2>1, <2>2 DEF Higher
<1>4. ASSUME a > b PROVE {a} \cup S # {b} \cup T
  BY <1>0, <1>4
<1>5. QED
  BY <1>0, <1>1, <1>2, <1>3, <1>4 DEF Equal

LEMMA NothingIsHigher == ~Higher({}, {})
BY DEF Higher

Down1(a) == a \in Int
Down2(a, b) == a \in Int /\ Down1(b) /\ a > b
Down3(a, b, c) == a \in Int /\ Down2(b, c) /\ a > b
Down4(a, b, c, d) == a \in Int /\ Down3(b, c, d) /\ a > b
Down5(a, b, c, d, e) == a \in Int /\ Down4(b, c, d, e) /\ a > b

LEMMA TopsOfOne ==
  ASSUME NEW a, NEW x, Down1(a), Down1(x)
  PROVE  Higher({a}, {x}) <=> a > x
BY DEF Higher, Down1

LEMMA EqualTopsOne ==
  ASSUME NEW a, NEW x, Down1(a), Down1(x)
  PROVE  Equal({a}, {x}) <=> a = x
BY DEF Equal

LEMMA TopsOfTwo ==
  ASSUME NEW a, NEW b, NEW x, NEW y,
         Down2(a, b), Down2(x, y)
  PROVE  Higher({a, b}, {x, y})
           <=> (a > x \/ (a = x /\ b > y))
<1>1. Down1(b) /\ Down1(y)
  BY DEF Down2
<1>2. Higher({b}, {y})
        <=> b > y
  BY <1>1, TopsOfOne
<1>3. Tall(a, {b}) /\ Tall(x, {y})
  BY DEF Tall, Down1, Down2
<1>4. Higher({a} \cup {b}, {x} \cup {y})
        <=> (a > x \/ (a = x /\ Higher({b}, {y})))
  BY <1>3, TopDecides
<1>5. {a} \cup {b} = {a, b} /\ {x} \cup {y} = {x, y}
  OBVIOUS
<1>6. QED
  BY <1>2, <1>4, <1>5

LEMMA EqualTopsTwo ==
  ASSUME NEW a, NEW b, NEW x, NEW y,
         Down2(a, b), Down2(x, y)
  PROVE  Equal({a, b}, {x, y}) <=> (a = x /\ b = y)
<1>1. Down1(b) /\ Down1(y)
  BY DEF Down2
<1>2. Equal({b}, {y}) <=> (b = y)
  BY <1>1, EqualTopsOne
<1>3. Tall(a, {b}) /\ Tall(x, {y})
  BY DEF Tall, Down1, Down2
<1>4. Equal({a} \cup {b}, {x} \cup {y})
        <=> (a = x /\ Equal({b}, {y}))
  BY <1>3, TopDecides
<1>5. {a} \cup {b} = {a, b} /\ {x} \cup {y} = {x, y}
  OBVIOUS
<1>6. QED
  BY <1>2, <1>4, <1>5

LEMMA TopsOfThree ==
  ASSUME NEW a, NEW b, NEW c, NEW x, NEW y, NEW z,
         Down3(a, b, c), Down3(x, y, z)
  PROVE  Higher({a, b, c}, {x, y, z})
           <=> (a > x \/ (a = x /\ (b > y \/ (b = y /\ c > z))))
<1>1. Down2(b, c) /\ Down2(y, z)
  BY DEF Down3
<1>2. Higher({b, c}, {y, z})
        <=> (b > y \/ (b = y /\ c > z))
  BY <1>1, TopsOfTwo
<1>3. Tall(a, {b, c}) /\ Tall(x, {y, z})
  BY DEF Tall, Down1, Down2, Down3
<1>4. Higher({a} \cup {b, c}, {x} \cup {y, z})
        <=> (a > x \/ (a = x /\ Higher({b, c}, {y, z})))
  BY <1>3, TopDecides
<1>5. {a} \cup {b, c} = {a, b, c} /\ {x} \cup {y, z} = {x, y, z}
  OBVIOUS
<1>6. QED
  BY <1>2, <1>4, <1>5

LEMMA EqualTopsThree ==
  ASSUME NEW a, NEW b, NEW c, NEW x, NEW y, NEW z,
         Down3(a, b, c), Down3(x, y, z)
  PROVE  Equal({a, b, c}, {x, y, z}) <=> (a = x /\ b = y /\ c = z)
<1>1. Down2(b, c) /\ Down2(y, z)
  BY DEF Down3
<1>2. Equal({b, c}, {y, z}) <=> (b = y /\ c = z)
  BY <1>1, EqualTopsTwo
<1>3. Tall(a, {b, c}) /\ Tall(x, {y, z})
  BY DEF Tall, Down1, Down2, Down3
<1>4. Equal({a} \cup {b, c}, {x} \cup {y, z})
        <=> (a = x /\ Equal({b, c}, {y, z}))
  BY <1>3, TopDecides
<1>5. {a} \cup {b, c} = {a, b, c} /\ {x} \cup {y, z} = {x, y, z}
  OBVIOUS
<1>6. QED
  BY <1>2, <1>4, <1>5

LEMMA TopsOfFour ==
  ASSUME NEW a, NEW b, NEW c, NEW d, NEW x, NEW y, NEW z, NEW v,
         Down4(a, b, c, d), Down4(x, y, z, v)
  PROVE  Higher({a, b, c, d}, {x, y, z, v})
           <=> (a > x \/ (a = x /\ (b > y \/ (b = y /\ (c > z \/ (c = z /\ d > v))))))
<1>1. Down3(b, c, d) /\ Down3(y, z, v)
  BY DEF Down4
<1>2. Higher({b, c, d}, {y, z, v})
        <=> (b > y \/ (b = y /\ (c > z \/ (c = z /\ d > v))))
  BY <1>1, TopsOfThree
<1>3. Tall(a, {b, c, d}) /\ Tall(x, {y, z, v})
  BY DEF Tall, Down1, Down2, Down3, Down4
<1>4. Higher({a} \cup {b, c, d}, {x} \cup {y, z, v})
        <=> (a > x \/ (a = x /\ Higher({b, c, d}, {y, z, v})))
  BY <1>3, TopDecides
<1>5. {a} \cup {b, c, d} = {a, b, c, d} /\ {x} \cup {y, z, v} = {x, y, z, v}
  OBVIOUS
<1>6. QED
  BY <1>2, <1>4, <1>5

LEMMA EqualTopsFour ==
  ASSUME NEW a, NEW b, NEW c, NEW d, NEW x, NEW y, NEW z, NEW v,
         Down4(a, b, c, d), Down4(x, y, z, v)
  PROVE  Equal({a, b, c, d}, {x, y, z, v}) <=> (a = x /\ b = y /\ c = z /\ d = v)
<1>1. Down3(b, c, d) /\ Down3(y, z, v)
  BY DEF Down4
<1>2. Equal({b, c, d}, {y, z, v}) <=> (b = y /\ c = z /\ d = v)
  BY <1>1, EqualTopsThree
<1>3. Tall(a, {b, c, d}) /\ Tall(x, {y, z, v})
  BY DEF Tall, Down1, Down2, Down3, Down4
<1>4. Equal({a} \cup {b, c, d}, {x} \cup {y, z, v})
        <=> (a = x /\ Equal({b, c, d}, {y, z, v}))
  BY <1>3, TopDecides
<1>5. {a} \cup {b, c, d} = {a, b, c, d} /\ {x} \cup {y, z, v} = {x, y, z, v}
  OBVIOUS
<1>6. QED
  BY <1>2, <1>4, <1>5

LEMMA TopsOfFive ==
  ASSUME NEW a, NEW b, NEW c, NEW d, NEW e, NEW x, NEW y, NEW z, NEW v, NEW w,
         Down5(a, b, c, d, e), Down5(x, y, z, v, w)
  PROVE  Higher({a, b, c, d, e}, {x, y, z, v, w})
           <=> (a > x \/ (a = x /\ (b > y \/ (b = y /\ (c > z \/ (c = z
                  /\ (d > v \/ (d = v /\ e > w))))))))
<1>1. Down4(b, c, d, e) /\ Down4(y, z, v, w)
  BY DEF Down5
<1>2. Higher({b, c, d, e}, {y, z, v, w})
        <=> (b > y \/ (b = y /\ (c > z \/ (c = z /\ (d > v \/ (d = v /\ e > w))))))
  BY <1>1, TopsOfFour
<1>3. Tall(a, {b, c, d, e}) /\ Tall(x, {y, z, v, w})
  BY DEF Tall, Down1, Down2, Down3, Down4, Down5
<1>4. Higher({a} \cup {b, c, d, e}, {x} \cup {y, z, v, w})
        <=> (a > x \/ (a = x /\ Higher({b, c, d, e}, {y, z, v, w})))
  BY <1>3, TopDecides
<1>5. {a} \cup {b, c, d, e} = {a, b, c, d, e} /\ {x} \cup {y, z, v, w} = {x, y, z, v, w}
  OBVIOUS
<1>6. QED
  BY <1>2, <1>4, <1>5

LEMMA EqualTopsFive ==
  ASSUME NEW a, NEW b, NEW c, NEW d, NEW e, NEW x, NEW y, NEW z, NEW v, NEW w,
         Down5(a, b, c, d, e), Down5(x, y, z, v, w)
  PROVE  Equal({a, b, c, d, e}, {x, y, z, v, w}) <=> (a = x /\ b = y /\ c = z /\ d = v /\ e = w)
<1>1. Down4(b, c, d, e) /\ Down4(y, z, v, w)
  BY DEF Down5
<1>2. Equal({b, c, d, e}, {y, z, v, w}) <=> (b = y /\ c = z /\ d = v /\ e = w)
  BY <1>1, EqualTopsFour
<1>3. Tall(a, {b, c, d, e}) /\ Tall(x, {y, z, v, w})
  BY DEF Tall, Down1, Down2, Down3, Down4, Down5
<1>4. Equal({a} \cup {b, c, d, e}, {x} \cup {y, z, v, w})
        <=> (a = x /\ Equal({b, c, d, e}, {y, z, v, w}))
  BY <1>3, TopDecides
<1>5. {a} \cup {b, c, d, e} = {a, b, c, d, e} /\ {x} \cup {y, z, v, w} = {x, y, z, v, w}
  OBVIOUS
<1>6. QED
  BY <1>2, <1>4, <1>5

\* Ranks that occur more often are looked at first.
LEMMA TopsInOrder ==
  ASSUME NEW h, NEW o
  PROVE  HigherTops(h, o)
           <=> \/ Higher(Tops(h, 4), Tops(o, 4))
               \/ /\ Equal(Tops(h, 4), Tops(o, 4))
                  /\ \/ Higher(Tops(h, 3), Tops(o, 3))
                     \/ /\ Equal(Tops(h, 3), Tops(o, 3))
                        /\ \/ Higher(Tops(h, 2), Tops(o, 2))
                           \/ /\ Equal(Tops(h, 2), Tops(o, 2))
                              /\ Higher(Tops(h, 1), Tops(o, 1))
<1> DEFINE More(n) == \A more \in (n + 1)..4 : Equal(Tops(h, more), Tops(o, more))
<1>1. HigherTops(h, o) <=> \E n \in 1..4 : More(n) /\ Higher(Tops(h, n), Tops(o, n))
  BY DEF HigherTops, Higher, Equal
<1>2. More(4)
  OBVIOUS
<1>3. More(3) <=> Equal(Tops(h, 4), Tops(o, 4))
  OBVIOUS
<1>4. More(2) <=> (Equal(Tops(h, 4), Tops(o, 4)) /\ Equal(Tops(h, 3), Tops(o, 3)))
  OBVIOUS
<1>5. More(1) <=> /\ Equal(Tops(h, 4), Tops(o, 4)) /\ Equal(Tops(h, 3), Tops(o, 3))
                  /\ Equal(Tops(h, 2), Tops(o, 2))
  OBVIOUS
<1> HIDE DEF More
<1>6. \A n \in 1..4 : n = 1 \/ n = 2 \/ n = 3 \/ n = 4
  OBVIOUS
<1>7. 1 \in 1..4 /\ 2 \in 1..4 /\ 3 \in 1..4 /\ 4 \in 1..4
  OBVIOUS
<1>8. QED
  BY <1>1, <1>2, <1>3, <1>4, <1>5, <1>6, <1>7

LEMMA NoTops == ~Higher({}, {}) /\ Equal({}, {})
BY DEF Higher, Equal

LEMMA KickersDecide ==
  ASSUME NEW h, NEW o, NEW category,
         NEW k1, NEW k2, NEW k3, NEW k4, NEW k5, NEW l1, NEW l2, NEW l3, NEW l4, NEW l5,
         Standing(h, category, k1, k2, k3, k4, k5), Standing(o, category, l1, l2, l3, l4, l5)
  PROVE  HigherTops(h, o) <=> Higher5(k1, k2, k3, k4, k5, l1, l2, l3, l4, l5)
<1>1. /\ Decided(h, category, k1, k2, k3, k4, k5) /\ Decided(o, category, l1, l2, l3, l4, l5)
      /\ category \in 0..8
      /\ k1 \in 0..14 /\ k2 \in 0..14 /\ k3 \in 0..14 /\ k4 \in 0..14 /\ k5 \in 0..14
      /\ l1 \in 0..14 /\ l2 \in 0..14 /\ l3 \in 0..14 /\ l4 \in 0..14 /\ l5 \in 0..14
  BY DEF Standing, Kickers
<1>2. /\ Down1(k1) /\ Down1(k2) /\ Down1(k3) /\ Down1(k4) /\ Down1(k5)
      /\ Down1(l1) /\ Down1(l2) /\ Down1(l3) /\ Down1(l4) /\ Down1(l5)
  BY <1>1 DEF Down1
<1>3. CASE category = 4 \/ category = 8
  <2>1. /\ Topped(h, {k1}, {}, {}, {})
        /\ Topped(o, {l1}, {}, {}, {})
        /\ k2 = 0 /\ l2 = 0 /\ k3 = 0 /\ l3 = 0 /\ k4 = 0 /\ l4 = 0 /\ k5 = 0 /\ l5 = 0
    BY <1>1, <1>3 DEF Decided
  <2>2. ~Higher(Tops(h, 4), Tops(o, 4)) /\ Equal(Tops(h, 4), Tops(o, 4))
    BY <2>1, NoTops DEF Topped
  <2>3. ~Higher(Tops(h, 3), Tops(o, 3)) /\ Equal(Tops(h, 3), Tops(o, 3))
    BY <2>1, NoTops DEF Topped
  <2>4. ~Higher(Tops(h, 2), Tops(o, 2)) /\ Equal(Tops(h, 2), Tops(o, 2))
    BY <2>1, NoTops DEF Topped
  <2>5. Higher(Tops(h, 1), Tops(o, 1)) <=> k1 > l1
    BY <1>2, <2>1, TopsOfOne DEF Topped
  <2>6. k2 = 0 /\ l2 = 0 /\ k3 = 0 /\ l3 = 0 /\ k4 = 0 /\ l4 = 0 /\ k5 = 0 /\ l5 = 0
    BY <2>1
  <2>7. QED
    BY <2>2, <2>3, <2>4, <2>5, <2>6, TopsInOrder DEF Higher5
<1>4. CASE category = 7
  <2>1. /\ Topped(h, {k2}, {}, {}, {k1})
        /\ Topped(o, {l2}, {}, {}, {l1})
        /\ k3 = 0 /\ l3 = 0 /\ k4 = 0 /\ l4 = 0 /\ k5 = 0 /\ l5 = 0
    BY <1>1, <1>4 DEF Decided
  <2>2. Higher(Tops(h, 4), Tops(o, 4)) <=> k1 > l1
    BY <1>2, <2>1, TopsOfOne DEF Topped
  <2>3. Equal(Tops(h, 4), Tops(o, 4)) <=> (k1 = l1)
    BY <1>2, <2>1, EqualTopsOne DEF Topped
  <2>4. ~Higher(Tops(h, 3), Tops(o, 3)) /\ Equal(Tops(h, 3), Tops(o, 3))
    BY <2>1, NoTops DEF Topped
  <2>5. ~Higher(Tops(h, 2), Tops(o, 2)) /\ Equal(Tops(h, 2), Tops(o, 2))
    BY <2>1, NoTops DEF Topped
  <2>6. Higher(Tops(h, 1), Tops(o, 1)) <=> k2 > l2
    BY <1>2, <2>1, TopsOfOne DEF Topped
  <2>7. k3 = 0 /\ l3 = 0 /\ k4 = 0 /\ l4 = 0 /\ k5 = 0 /\ l5 = 0
    BY <2>1
  <2>8. QED
    BY <2>2, <2>3, <2>4, <2>5, <2>6, <2>7, TopsInOrder DEF Higher5
<1>5. CASE category = 6
  <2>1. /\ Topped(h, {}, {k2}, {k1}, {})
        /\ Topped(o, {}, {l2}, {l1}, {})
        /\ k3 = 0 /\ l3 = 0 /\ k4 = 0 /\ l4 = 0 /\ k5 = 0 /\ l5 = 0
    BY <1>1, <1>5 DEF Decided
  <2>2. ~Higher(Tops(h, 4), Tops(o, 4)) /\ Equal(Tops(h, 4), Tops(o, 4))
    BY <2>1, NoTops DEF Topped
  <2>3. Higher(Tops(h, 3), Tops(o, 3)) <=> k1 > l1
    BY <1>2, <2>1, TopsOfOne DEF Topped
  <2>4. Equal(Tops(h, 3), Tops(o, 3)) <=> (k1 = l1)
    BY <1>2, <2>1, EqualTopsOne DEF Topped
  <2>5. Higher(Tops(h, 2), Tops(o, 2)) <=> k2 > l2
    BY <1>2, <2>1, TopsOfOne DEF Topped
  <2>6. Equal(Tops(h, 2), Tops(o, 2)) <=> (k2 = l2)
    BY <1>2, <2>1, EqualTopsOne DEF Topped
  <2>7. ~Higher(Tops(h, 1), Tops(o, 1)) /\ Equal(Tops(h, 1), Tops(o, 1))
    BY <2>1, NoTops DEF Topped
  <2>8. k3 = 0 /\ l3 = 0 /\ k4 = 0 /\ l4 = 0 /\ k5 = 0 /\ l5 = 0
    BY <2>1
  <2>9. QED
    BY <2>2, <2>3, <2>4, <2>5, <2>6, <2>7, <2>8, TopsInOrder DEF Higher5
<1>6. CASE category = 3
  <2>1. /\ Topped(h, {k2, k3}, {}, {k1}, {})
        /\ Topped(o, {l2, l3}, {}, {l1}, {})
        /\ k4 = 0 /\ l4 = 0 /\ k5 = 0 /\ l5 = 0
        /\ Down2(k2, k3) /\ Down2(l2, l3)
    BY <1>1, <1>6 DEF Decided, Down1, Down2
  <2>2. ~Higher(Tops(h, 4), Tops(o, 4)) /\ Equal(Tops(h, 4), Tops(o, 4))
    BY <2>1, NoTops DEF Topped
  <2>3. Higher(Tops(h, 3), Tops(o, 3)) <=> k1 > l1
    BY <1>2, <2>1, TopsOfOne DEF Topped
  <2>4. Equal(Tops(h, 3), Tops(o, 3)) <=> (k1 = l1)
    BY <1>2, <2>1, EqualTopsOne DEF Topped
  <2>5. ~Higher(Tops(h, 2), Tops(o, 2)) /\ Equal(Tops(h, 2), Tops(o, 2))
    BY <2>1, NoTops DEF Topped
  <2>6. Higher(Tops(h, 1), Tops(o, 1)) <=> (k2 > l2 \/ (k2 = l2 /\ k3 > l3))
    BY <1>2, <2>1, TopsOfTwo DEF Topped
  <2>7. k4 = 0 /\ l4 = 0 /\ k5 = 0 /\ l5 = 0
    BY <2>1
  <2>8. QED
    BY <2>2, <2>3, <2>4, <2>5, <2>6, <2>7, TopsInOrder DEF Higher5
<1>7. CASE category = 2
  <2>1. /\ Topped(h, {k3}, {k1, k2}, {}, {})
        /\ Topped(o, {l3}, {l1, l2}, {}, {})
        /\ k4 = 0 /\ l4 = 0 /\ k5 = 0 /\ l5 = 0
        /\ Down2(k1, k2) /\ Down2(l1, l2)
    BY <1>1, <1>7 DEF Decided, Down1, Down2
  <2>2. ~Higher(Tops(h, 4), Tops(o, 4)) /\ Equal(Tops(h, 4), Tops(o, 4))
    BY <2>1, NoTops DEF Topped
  <2>3. ~Higher(Tops(h, 3), Tops(o, 3)) /\ Equal(Tops(h, 3), Tops(o, 3))
    BY <2>1, NoTops DEF Topped
  <2>4. Higher(Tops(h, 2), Tops(o, 2)) <=> (k1 > l1 \/ (k1 = l1 /\ k2 > l2))
    BY <1>2, <2>1, TopsOfTwo DEF Topped
  <2>5. Equal(Tops(h, 2), Tops(o, 2)) <=> (k1 = l1 /\ k2 = l2)
    BY <1>2, <2>1, EqualTopsTwo DEF Topped
  <2>6. Higher(Tops(h, 1), Tops(o, 1)) <=> k3 > l3
    BY <1>2, <2>1, TopsOfOne DEF Topped
  <2>7. k4 = 0 /\ l4 = 0 /\ k5 = 0 /\ l5 = 0
    BY <2>1
  <2>8. QED
    BY <2>2, <2>3, <2>4, <2>5, <2>6, <2>7, TopsInOrder DEF Higher5
<1>8. CASE category = 1
  <2>1. /\ Topped(h, {k2, k3, k4}, {k1}, {}, {})
        /\ Topped(o, {l2, l3, l4}, {l1}, {}, {})
        /\ k5 = 0 /\ l5 = 0
        /\ Down3(k2, k3, k4) /\ Down3(l2, l3, l4)
    BY <1>1, <1>8 DEF Decided, Down1, Down2, Down3
  <2>2. ~Higher(Tops(h, 4), Tops(o, 4)) /\ Equal(Tops(h, 4), Tops(o, 4))
    BY <2>1, NoTops DEF Topped
  <2>3. ~Higher(Tops(h, 3), Tops(o, 3)) /\ Equal(Tops(h, 3), Tops(o, 3))
    BY <2>1, NoTops DEF Topped
  <2>4. Higher(Tops(h, 2), Tops(o, 2)) <=> k1 > l1
    BY <1>2, <2>1, TopsOfOne DEF Topped
  <2>5. Equal(Tops(h, 2), Tops(o, 2)) <=> (k1 = l1)
    BY <1>2, <2>1, EqualTopsOne DEF Topped
  <2>6. Higher(Tops(h, 1), Tops(o, 1))
          <=> (k2 > l2 \/ (k2 = l2 /\ (k3 > l3 \/ (k3 = l3 /\ k4 > l4))))
    BY <1>2, <2>1, TopsOfThree DEF Topped
  <2>7. k5 = 0 /\ l5 = 0
    BY <2>1
  <2>8. QED
    BY <2>2, <2>3, <2>4, <2>5, <2>6, <2>7, TopsInOrder DEF Higher5
<1>9. CASE category = 0 \/ category = 5
  <2>1. /\ Topped(h, {k1, k2, k3, k4, k5}, {}, {}, {})
        /\ Topped(o, {l1, l2, l3, l4, l5}, {}, {}, {})
        /\ Down5(k1, k2, k3, k4, k5) /\ Down5(l1, l2, l3, l4, l5)
    BY <1>1, <1>9 DEF Decided, Down1, Down2, Down3, Down4, Down5
  <2>2. ~Higher(Tops(h, 4), Tops(o, 4)) /\ Equal(Tops(h, 4), Tops(o, 4))
    BY <2>1, NoTops DEF Topped
  <2>3. ~Higher(Tops(h, 3), Tops(o, 3)) /\ Equal(Tops(h, 3), Tops(o, 3))
    BY <2>1, NoTops DEF Topped
  <2>4. ~Higher(Tops(h, 2), Tops(o, 2)) /\ Equal(Tops(h, 2), Tops(o, 2))
    BY <2>1, NoTops DEF Topped
  <2>5. Higher(Tops(h, 1), Tops(o, 1))
          <=> (k1 > l1 \/ (k1 = l1 /\ (k2 > l2 \/ (k2 = l2 /\ (k3 > l3 \/ (k3 = l3
                 /\ (k4 > l4 \/ (k4 = l4 /\ k5 > l5))))))))
    BY <1>2, <2>1, TopsOfFive DEF Topped
  <2>6. QED
    BY <2>2, <2>3, <2>4, <2>5, TopsInOrder DEF Higher5
<1>10. QED
  BY <1>1, <1>3, <1>4, <1>5, <1>6, <1>7, <1>8, <1>9 DEF Decided

\* Five cards have a score, its category is their kind, and the higher score is the
\* stronger hand.
LEMMA ScoresOfFive ==
  ASSUME NEW h, NEW o, FiveCards(h), FiveCards(o)
  PROVE  /\ Score5(h) \in Nat
         /\ Score5(h) \div CategoryUnit = Kind(h)
         /\ Score5(h) > Score5(o) <=> StrongerThan(h, o)
<1>1. PICK c, k1, k2, k3, k4, k5 : Standing(h, c, k1, k2, k3, k4, k5)
  BY EveryHandStands
<1>2. PICK d, l1, l2, l3, l4, l5 : Standing(o, d, l1, l2, l3, l4, l5)
  BY EveryHandStands
<1>3. /\ c \in 0..8 /\ d \in 0..8
      /\ k1 \in Kickers /\ k2 \in Kickers /\ k3 \in Kickers /\ k4 \in Kickers /\ k5 \in Kickers
      /\ l1 \in Kickers /\ l2 \in Kickers /\ l3 \in Kickers /\ l4 \in Kickers /\ l5 \in Kickers
  BY <1>1, <1>2 DEF Standing
<1> DEFINE k == Digits(c, k1, k2, k3, k4, k5)
           l == Digits(d, l1, l2, l3, l4, l5)
<1>4. /\ k \in Nat /\ k \div CategoryUnit = c
      /\ (k > l) <=> (c > d \/ (c = d /\ Higher5(k1, k2, k3, k4, k5, l1, l2, l3, l4, l5)))
  BY <1>3, DigitsInOrder
<1>5. Score5(h) = k /\ Score5(o) = l /\ Kind(h) = c /\ Kind(o) = d
  BY <1>1, <1>2 DEF Standing
<1>6. c = d => (HigherTops(h, o) <=> Higher5(k1, k2, k3, k4, k5, l1, l2, l3, l4, l5))
  BY <1>1, <1>2, KickersDecide
<1> HIDE DEF k, l
<1>7. QED
  BY <1>4, <1>5, <1>6 DEF StrongerThan
---------------------------------------------------------------------------
(* Five of seven cards. *)

\* Where the last index that can grow is the i-th.
LEMMA NextAt ==
  ASSUME NEW idx, DOMAIN idx = 1..5,
         NEW i \in 1..5, idx[i] # 2 + i, \A j \in 1..5 : j > i => idx[j] = 2 + j
  PROVE  NextSelection(idx, 7) = [j \in 1..5 |-> IF j < i THEN idx[j] ELSE idx[i] + 1 + j - i]
<1>1. Growing(idx, 7) = {j \in 1..5 : idx[j] # 2 + j}
  BY 7 - 5 = 2 DEF Growing
<1>2. i \in Growing(idx, 7) /\ \A j \in Growing(idx, 7) : j <= i
  BY <1>1
<1>3. ASSUME NEW m \in Growing(idx, 7), \A j \in Growing(idx, 7) : j <= m PROVE m = i
  <2>1. i <= m /\ m <= i /\ m \in 1..5
    BY <1>1, <1>2, <1>3
  <2>2. QED
    BY <2>1
<1>4. (CHOOSE m \in Growing(idx, 7) : \A j \in Growing(idx, 7) : j <= m) = i
  BY <1>2, <1>3
<1>5. QED
  BY <1>2, <1>4 DEF NextSelection

LEMMA Next5 ==
  ASSUME NEW a, NEW b, NEW c, NEW d, NEW e, e \in Int, e # 7
  PROVE  NextSelection(<<a, b, c, d, e>>, 7) = <<a, b, c, d, e + 1>>
<1>1. PICK p : p = <<a, b, c, d, e>>
  OBVIOUS
<1>2. /\ DOMAIN p = 1..5 /\ p[5] # 2 + 5 /\ \A j \in 1..5 : j > 5 => p[j] = 2 + j
  BY <1>1
<1>3. NextSelection(p, 7) = [j \in 1..5 |-> IF j < 5 THEN p[j] ELSE p[5] + 1 + j - 5]
  BY <1>2, NextAt
<1>4. NextSelection(p, 7) = <<a, b, c, d, e + 1>>
  BY <1>1, <1>3
<1>5. QED
  BY <1>1, <1>4

LEMMA Next4 ==
  ASSUME NEW a, NEW b, NEW c, NEW d, d \in Int, d # 6
  PROVE  NextSelection(<<a, b, c, d, 7>>, 7) = <<a, b, c, d + 1, d + 2>>
<1>1. PICK p : p = <<a, b, c, d, 7>>
  OBVIOUS
<1>2. /\ DOMAIN p = 1..5 /\ p[4] # 2 + 4 /\ \A j \in 1..5 : j > 4 => p[j] = 2 + j
  BY <1>1
<1>3. NextSelection(p, 7) = [j \in 1..5 |-> IF j < 4 THEN p[j] ELSE p[4] + 1 + j - 4]
  BY <1>2, NextAt
<1>4. NextSelection(p, 7) = <<a, b, c, d + 1, d + 2>>
  BY <1>1, <1>3
<1>5. QED
  BY <1>1, <1>4

LEMMA Next3 ==
  ASSUME NEW a, NEW b, NEW c, c \in Int, c # 5
  PROVE  NextSelection(<<a, b, c, 6, 7>>, 7) = <<a, b, c + 1, c + 2, c + 3>>
<1>1. PICK p : p = <<a, b, c, 6, 7>>
  OBVIOUS
<1>2. /\ DOMAIN p = 1..5 /\ p[3] # 2 + 3 /\ \A j \in 1..5 : j > 3 => p[j] = 2 + j
  BY <1>1
<1>3. NextSelection(p, 7) = [j \in 1..5 |-> IF j < 3 THEN p[j] ELSE p[3] + 1 + j - 3]
  BY <1>2, NextAt
<1>4. NextSelection(p, 7) = <<a, b, c + 1, c + 2, c + 3>>
  BY <1>1, <1>3
<1>5. QED
  BY <1>1, <1>4

LEMMA Next2 ==
  ASSUME NEW a, NEW b, b \in Int, b # 4
  PROVE  NextSelection(<<a, b, 5, 6, 7>>, 7) = <<a, b + 1, b + 2, b + 3, b + 4>>
<1>1. PICK p : p = <<a, b, 5, 6, 7>>
  OBVIOUS
<1>2. /\ DOMAIN p = 1..5 /\ p[2] # 2 + 2 /\ \A j \in 1..5 : j > 2 => p[j] = 2 + j
  BY <1>1
<1>3. NextSelection(p, 7) = [j \in 1..5 |-> IF j < 2 THEN p[j] ELSE p[2] + 1 + j - 2]
  BY <1>2, NextAt
<1>4. NextSelection(p, 7) = <<a, b + 1, b + 2, b + 3, b + 4>>
  BY <1>1, <1>3
<1>5. QED
  BY <1>1, <1>4

LEMMA Next1 ==
  ASSUME NEW a, a \in Int, a # 3
  PROVE  NextSelection(<<a, 4, 5, 6, 7>>, 7) = <<a + 1, a + 2, a + 3, a + 4, a + 5>>
<1>1. PICK p : p = <<a, 4, 5, 6, 7>>
  OBVIOUS
<1>2. /\ DOMAIN p = 1..5 /\ p[1] # 2 + 1 /\ \A j \in 1..5 : j > 1 => p[j] = 2 + j
  BY <1>1
<1>3. NextSelection(p, 7) = [j \in 1..5 |-> IF j < 1 THEN p[j] ELSE p[1] + 1 + j - 1]
  BY <1>2, NextAt
<1>4. NextSelection(p, 7) = <<a + 1, a + 2, a + 3, a + 4, a + 5>>
  BY <1>1, <1>3
<1>5. QED
  BY <1>1, <1>4

\* The choices of five among seven in the order in which evaluate comes to them.
ChoiceList ==
  <<<<1, 2, 3, 4, 5>>, <<1, 2, 3, 4, 6>>, <<1, 2, 3, 4, 7>>, <<1, 2, 3, 5, 6>>,
    <<1, 2, 3, 5, 7>>, <<1, 2, 3, 6, 7>>, <<1, 2, 4, 5, 6>>, <<1, 2, 4, 5, 7>>,
    <<1, 2, 4, 6, 7>>, <<1, 2, 5, 6, 7>>, <<1, 3, 4, 5, 6>>, <<1, 3, 4, 5, 7>>,
    <<1, 3, 4, 6, 7>>, <<1, 3, 5, 6, 7>>, <<1, 4, 5, 6, 7>>, <<2, 3, 4, 5, 6>>,
    <<2, 3, 4, 5, 7>>, <<2, 3, 4, 6, 7>>, <<2, 3, 5, 6, 7>>, <<2, 4, 5, 6, 7>>,
    <<3, 4, 5, 6, 7>>>>

Chosen(k) == ChoiceList[k]

LEMMA TheChoices ==
  /\ Chosen(1) = <<1, 2, 3, 4, 5>> /\
     Chosen(2) = <<1, 2, 3, 4, 6>> /\
     Chosen(3) = <<1, 2, 3, 4, 7>>
  /\ Chosen(4) = <<1, 2, 3, 5, 6>> /\
     Chosen(5) = <<1, 2, 3, 5, 7>> /\
     Chosen(6) = <<1, 2, 3, 6, 7>>
  /\ Chosen(7) = <<1, 2, 4, 5, 6>> /\
     Chosen(8) = <<1, 2, 4, 5, 7>> /\
     Chosen(9) = <<1, 2, 4, 6, 7>>
  /\ Chosen(10) = <<1, 2, 5, 6, 7>> /\
     Chosen(11) = <<1, 3, 4, 5, 6>> /\
     Chosen(12) = <<1, 3, 4, 5, 7>>
  /\ Chosen(13) = <<1, 3, 4, 6, 7>> /\
     Chosen(14) = <<1, 3, 5, 6, 7>> /\
     Chosen(15) = <<1, 4, 5, 6, 7>>
  /\ Chosen(16) = <<2, 3, 4, 5, 6>> /\
     Chosen(17) = <<2, 3, 4, 5, 7>> /\
     Chosen(18) = <<2, 3, 4, 6, 7>>
  /\ Chosen(19) = <<2, 3, 5, 6, 7>> /\
     Chosen(20) = <<2, 4, 5, 6, 7>> /\
     Chosen(21) = <<3, 4, 5, 6, 7>>
BY DEF ChoiceList, Chosen

LEMMA EachIsNext ==
  /\ NextSelection(Chosen(1), 7) = Chosen(2)
  /\ NextSelection(Chosen(2), 7) = Chosen(3)
  /\ NextSelection(Chosen(3), 7) = Chosen(4)
  /\ NextSelection(Chosen(4), 7) = Chosen(5)
  /\ NextSelection(Chosen(5), 7) = Chosen(6)
  /\ NextSelection(Chosen(6), 7) = Chosen(7)
  /\ NextSelection(Chosen(7), 7) = Chosen(8)
  /\ NextSelection(Chosen(8), 7) = Chosen(9)
  /\ NextSelection(Chosen(9), 7) = Chosen(10)
  /\ NextSelection(Chosen(10), 7) = Chosen(11)
  /\ NextSelection(Chosen(11), 7) = Chosen(12)
  /\ NextSelection(Chosen(12), 7) = Chosen(13)
  /\ NextSelection(Chosen(13), 7) = Chosen(14)
  /\ NextSelection(Chosen(14), 7) = Chosen(15)
  /\ NextSelection(Chosen(15), 7) = Chosen(16)
  /\ NextSelection(Chosen(16), 7) = Chosen(17)
  /\ NextSelection(Chosen(17), 7) = Chosen(18)
  /\ NextSelection(Chosen(18), 7) = Chosen(19)
  /\ NextSelection(Chosen(19), 7) = Chosen(20)
  /\ NextSelection(Chosen(20), 7) = Chosen(21)
<1>1. NextSelection(<<1, 2, 3, 4, 5>>, 7) = <<1, 2, 3, 4, 6>>
  BY Next5
<1>2. NextSelection(<<1, 2, 3, 4, 6>>, 7) = <<1, 2, 3, 4, 7>>
  BY Next5
<1>3. NextSelection(<<1, 2, 3, 4, 7>>, 7) = <<1, 2, 3, 5, 6>>
  BY Next4
<1>4. NextSelection(<<1, 2, 3, 5, 6>>, 7) = <<1, 2, 3, 5, 7>>
  BY Next5
<1>5. NextSelection(<<1, 2, 3, 5, 7>>, 7) = <<1, 2, 3, 6, 7>>
  BY Next4
<1>6. NextSelection(<<1, 2, 3, 6, 7>>, 7) = <<1, 2, 4, 5, 6>>
  BY Next3
<1>7. NextSelection(<<1, 2, 4, 5, 6>>, 7) = <<1, 2, 4, 5, 7>>
  BY Next5
<1>8. NextSelection(<<1, 2, 4, 5, 7>>, 7) = <<1, 2, 4, 6, 7>>
  BY Next4
<1>9. NextSelection(<<1, 2, 4, 6, 7>>, 7) = <<1, 2, 5, 6, 7>>
  BY Next3
<1>10. NextSelection(<<1, 2, 5, 6, 7>>, 7) = <<1, 3, 4, 5, 6>>
  BY Next2
<1>11. NextSelection(<<1, 3, 4, 5, 6>>, 7) = <<1, 3, 4, 5, 7>>
  BY Next5
<1>12. NextSelection(<<1, 3, 4, 5, 7>>, 7) = <<1, 3, 4, 6, 7>>
  BY Next4
<1>13. NextSelection(<<1, 3, 4, 6, 7>>, 7) = <<1, 3, 5, 6, 7>>
  BY Next3
<1>14. NextSelection(<<1, 3, 5, 6, 7>>, 7) = <<1, 4, 5, 6, 7>>
  BY Next2
<1>15. NextSelection(<<1, 4, 5, 6, 7>>, 7) = <<2, 3, 4, 5, 6>>
  BY Next1
<1>16. NextSelection(<<2, 3, 4, 5, 6>>, 7) = <<2, 3, 4, 5, 7>>
  BY Next5
<1>17. NextSelection(<<2, 3, 4, 5, 7>>, 7) = <<2, 3, 4, 6, 7>>
  BY Next4
<1>18. NextSelection(<<2, 3, 4, 6, 7>>, 7) = <<2, 3, 5, 6, 7>>
  BY Next3
<1>19. NextSelection(<<2, 3, 5, 6, 7>>, 7) = <<2, 4, 5, 6, 7>>
  BY Next2
<1>20. NextSelection(<<2, 4, 5, 6, 7>>, 7) = <<3, 4, 5, 6, 7>>
  BY Next1
<1>21. QED
  BY <1>1, <1>2, <1>3, <1>4, <1>5, <1>6, <1>7, <1>8, <1>9, <1>10,
     <1>11, <1>12, <1>13, <1>14, <1>15, <1>16, <1>17, <1>18, <1>19, <1>20, TheChoices

LEMMA NextOfAny ==
  ASSUME NEW k \in 2..21
  PROVE  NextSelection(Chosen(k - 1), 7) = Chosen(k)
<1>1. \/ k = 2 \/ k = 3 \/ k = 4 \/ k = 5 \/ k = 6 \/ k = 7 \/ k = 8 \/ k = 9 \/ k = 10
      \/ k = 11 \/ k = 12 \/ k = 13 \/ k = 14 \/ k = 15 \/ k = 16 \/ k = 17 \/ k = 18
      \/ k = 19 \/ k = 20 \/ k = 21
  OBVIOUS
<1>2. QED
  BY <1>1, EachIsNext

LEMMA TheSelections == Selections(7) = {Chosen(k) : k \in 1..21}
<1> DEFINE Step(w) == [k \in 1..MaxSelections |->
                         IF k = 1 THEN <<1, 2, 3, 4, 5>> ELSE NextSelection(w[k - 1], 7)]
           walk == CHOOSE w : w = Step(w)
<1>1. Selections(7) = {walk[m] : m \in 1..MaxSelections} \ {Finished}
  BY Zenon DEF Selections
<1>2. \E w : w = Step(w)
  <2>1. PICK w : /\ w = [k \in 1..21 |-> w[k]]
                 /\ \A k \in 1..21 : w[k] = Chosen(k)
    <3> WITNESS [k \in 1..21 |-> Chosen(k)]
    <3> QED
      OBVIOUS
  <2>2. \A k \in 1..21 : Step(w)[k] = Chosen(k)
    <3> TAKE k \in 1..21
    <3>1. CASE k = 1
      BY <3>1, TheChoices DEF MaxSelections
    <3>2. CASE k \in 2..21
      <4>1. k - 1 \in 1..21 /\ k # 1
        BY <3>2
      <4>2. Step(w)[k] = NextSelection(w[k - 1], 7)
        BY <4>1 DEF MaxSelections
      <4>3. w[k - 1] = Chosen(k - 1)
        BY <2>1, <4>1
      <4>4. QED
        BY <3>2, <4>2, <4>3, NextOfAny
    <3>3. QED
      BY <3>1, <3>2
  <2>3. Step(w) = [k \in 1..21 |-> Step(w)[k]]
    BY DEF MaxSelections
  <2> HIDE DEF Step
  <2>4. w = Step(w)
    BY <2>1, <2>2, <2>3
  <2>5. QED
    BY <2>4
<1>3. walk = Step(walk)
  <2> HIDE DEF Step
  <2>1. QED
    BY <1>2
<1> PICK w : w = walk
  OBVIOUS
<1> HIDE DEF walk
<1>4. w = Step(w)
  BY <1>3
<1>5. w[1] = Chosen(1) /\ \A k \in 2..21 : w[k] = NextSelection(w[k - 1], 7)
  <2>1. DOMAIN Step(w) = 1..21 /\ Step(w)[1] = <<1, 2, 3, 4, 5>>
    BY DEF MaxSelections
  <2>2. \A k \in 2..21 : Step(w)[k] = NextSelection(w[k - 1], 7)
    BY DEF MaxSelections
  <2> HIDE DEF Step
  <2>3. QED
    BY <1>4, <2>1, <2>2, TheChoices
<1>6. \A k \in 2..21 : w[k - 1] = Chosen(k - 1) => w[k] = Chosen(k)
  BY <1>5, NextOfAny
<1> HIDE DEF Step
<1>7. w[2] = Chosen(2)
  BY <1>6, <1>5, 2 - 1 = 1
<1>8. w[3] = Chosen(3)
  BY <1>6, <1>7, 3 - 1 = 2
<1>9. w[4] = Chosen(4)
  BY <1>6, <1>8, 4 - 1 = 3
<1>10. w[5] = Chosen(5)
  BY <1>6, <1>9, 5 - 1 = 4
<1>11. w[6] = Chosen(6)
  BY <1>6, <1>10, 6 - 1 = 5
<1>12. w[7] = Chosen(7)
  BY <1>6, <1>11, 7 - 1 = 6
<1>13. w[8] = Chosen(8)
  BY <1>6, <1>12, 8 - 1 = 7
<1>14. w[9] = Chosen(9)
  BY <1>6, <1>13, 9 - 1 = 8
<1>15. w[10] = Chosen(10)
  BY <1>6, <1>14, 10 - 1 = 9
<1>16. w[11] = Chosen(11)
  BY <1>6, <1>15, 11 - 1 = 10
<1>17. w[12] = Chosen(12)
  BY <1>6, <1>16, 12 - 1 = 11
<1>18. w[13] = Chosen(13)
  BY <1>6, <1>17, 13 - 1 = 12
<1>19. w[14] = Chosen(14)
  BY <1>6, <1>18, 14 - 1 = 13
<1>20. w[15] = Chosen(15)
  BY <1>6, <1>19, 15 - 1 = 14
<1>21. w[16] = Chosen(16)
  BY <1>6, <1>20, 16 - 1 = 15
<1>22. w[17] = Chosen(17)
  BY <1>6, <1>21, 17 - 1 = 16
<1>23. w[18] = Chosen(18)
  BY <1>6, <1>22, 18 - 1 = 17
<1>24. w[19] = Chosen(19)
  BY <1>6, <1>23, 19 - 1 = 18
<1>25. w[20] = Chosen(20)
  BY <1>6, <1>24, 20 - 1 = 19
<1>26. w[21] = Chosen(21)
  BY <1>6, <1>25, 21 - 1 = 20
<1>27. \A k \in 1..21 : w[k] = Chosen(k)
  <2> TAKE k \in 1..21
  <2>1. \/ k = 1 \/ k = 2 \/ k = 3 \/ k = 4 \/ k = 5 \/ k = 6 \/ k = 7 \/ k = 8 \/ k = 9
        \/ k = 10 \/ k = 11 \/ k = 12 \/ k = 13 \/ k = 14 \/ k = 15 \/ k = 16 \/ k = 17
        \/ k = 18 \/ k = 19 \/ k = 20 \/ k = 21
    OBVIOUS
  <2>2. QED
    BY <2>1, <1>5, <1>7, <1>8, <1>9, <1>10, <1>11, <1>12, <1>13, <1>14, <1>15, <1>16,
       <1>17, <1>18, <1>19, <1>20, <1>21, <1>22, <1>23, <1>24, <1>25, <1>26
<1>28. \A k \in 1..21 : Chosen(k) # Finished
  <2> TAKE k \in 1..21
  <2>1. \/ k = 1 \/ k = 2 \/ k = 3 \/ k = 4 \/ k = 5 \/ k = 6 \/ k = 7 \/ k = 8 \/ k = 9
        \/ k = 10 \/ k = 11 \/ k = 12 \/ k = 13 \/ k = 14 \/ k = 15 \/ k = 16 \/ k = 17
        \/ k = 18 \/ k = 19 \/ k = 20 \/ k = 21
    OBVIOUS
  <2>2. QED
    BY <2>1, TheChoices DEF Finished
<1>29. QED
  BY <1>1, <1>27, <1>28 DEF MaxSelections

Places(k) == {Chosen(k)[i] : i \in 1..5}

LEMMA ChosenIsFive ==
  ASSUME NEW k \in 1..21
  PROVE  /\ Chosen(k) \in [1..5 -> 1..7]
         /\ \A i, j \in 1..5 : Chosen(k)[i] = Chosen(k)[j] => i = j
<1>1. PICK a, b, c, d, e : Chosen(k) = <<a, b, c, d, e>> /\ a \in 1..7 /\ b \in 1..7
        /\ c \in 1..7 /\ d \in 1..7 /\ e \in 1..7 /\ a < b /\ b < c /\ c < d /\ d < e
  <2>1. \/ k = 1 \/ k = 2 \/ k = 3 \/ k = 4 \/ k = 5 \/ k = 6 \/ k = 7 \/ k = 8 \/ k = 9
      \/ k = 10 \/ k = 11 \/ k = 12 \/ k = 13 \/ k = 14 \/ k = 15 \/ k = 16 \/ k = 17
      \/ k = 18 \/ k = 19 \/ k = 20 \/ k = 21
    OBVIOUS
  <2>2. QED
    BY <2>1, TheChoices
<1>2. QED
  BY <1>1

LEMMA EveryFiveIsChosen ==
  ASSUME NEW S \in SUBSET (1..7), Cardinality(S) = 5
  PROVE  \E k \in 1..21 : S = Places(k)
<1>1. In(S, 1) + In(S, 2) + In(S, 3) + In(S, 4) + In(S, 5) + In(S, 6) + In(S, 7) = 5
  BY Tally
<1>2. \A i \in 1..7 : (In(S, i) = 0 \/ In(S, i) = 1) /\ (In(S, i) = 1 <=> i \in S)
  BY DEF In
<1>3. \/ 6 \notin S /\ 7 \notin S
      \/ 5 \notin S /\ 7 \notin S
      \/ 5 \notin S /\ 6 \notin S
      \/ 4 \notin S /\ 7 \notin S
      \/ 4 \notin S /\ 6 \notin S
      \/ 4 \notin S /\ 5 \notin S
      \/ 3 \notin S /\ 7 \notin S
      \/ 3 \notin S /\ 6 \notin S
      \/ 3 \notin S /\ 5 \notin S
      \/ 3 \notin S /\ 4 \notin S
      \/ 2 \notin S /\ 7 \notin S
      \/ 2 \notin S /\ 6 \notin S
      \/ 2 \notin S /\ 5 \notin S
      \/ 2 \notin S /\ 4 \notin S
      \/ 2 \notin S /\ 3 \notin S
      \/ 1 \notin S /\ 7 \notin S
      \/ 1 \notin S /\ 6 \notin S
      \/ 1 \notin S /\ 5 \notin S
      \/ 1 \notin S /\ 4 \notin S
      \/ 1 \notin S /\ 3 \notin S
      \/ 1 \notin S /\ 2 \notin S
  BY <1>1, <1>2
<1>4. ASSUME NEW x \in 1..7, NEW y \in 1..7, x # y, x \notin S, y \notin S
      PROVE  S = (1..7) \ {x, y}
  <2>1. \A i \in 1..7 : i # x /\ i # y => In(S, i) = 1
    BY <1>1, <1>2, <1>4
  <2>2. QED
    BY <1>2, <1>4, <2>1
<1>5. CASE 6 \notin S /\ 7 \notin S
  <2>1. S = (1..7) \ {6, 7}
    BY <1>4, <1>5
  <2>2. S = Places(1)
    BY <2>1, TheChoices DEF Places
  <2>3. QED
    BY <2>2
<1>6. CASE 5 \notin S /\ 7 \notin S
  <2>1. S = (1..7) \ {5, 7}
    BY <1>4, <1>6
  <2>2. S = Places(2)
    BY <2>1, TheChoices DEF Places
  <2>3. QED
    BY <2>2
<1>7. CASE 5 \notin S /\ 6 \notin S
  <2>1. S = (1..7) \ {5, 6}
    BY <1>4, <1>7
  <2>2. S = Places(3)
    BY <2>1, TheChoices DEF Places
  <2>3. QED
    BY <2>2
<1>8. CASE 4 \notin S /\ 7 \notin S
  <2>1. S = (1..7) \ {4, 7}
    BY <1>4, <1>8
  <2>2. S = Places(4)
    BY <2>1, TheChoices DEF Places
  <2>3. QED
    BY <2>2
<1>9. CASE 4 \notin S /\ 6 \notin S
  <2>1. S = (1..7) \ {4, 6}
    BY <1>4, <1>9
  <2>2. S = Places(5)
    BY <2>1, TheChoices DEF Places
  <2>3. QED
    BY <2>2
<1>10. CASE 4 \notin S /\ 5 \notin S
  <2>1. S = (1..7) \ {4, 5}
    BY <1>4, <1>10
  <2>2. S = Places(6)
    BY <2>1, TheChoices DEF Places
  <2>3. QED
    BY <2>2
<1>11. CASE 3 \notin S /\ 7 \notin S
  <2>1. S = (1..7) \ {3, 7}
    BY <1>4, <1>11
  <2>2. S = Places(7)
    BY <2>1, TheChoices DEF Places
  <2>3. QED
    BY <2>2
<1>12. CASE 3 \notin S /\ 6 \notin S
  <2>1. S = (1..7) \ {3, 6}
    BY <1>4, <1>12
  <2>2. S = Places(8)
    BY <2>1, TheChoices DEF Places
  <2>3. QED
    BY <2>2
<1>13. CASE 3 \notin S /\ 5 \notin S
  <2>1. S = (1..7) \ {3, 5}
    BY <1>4, <1>13
  <2>2. S = Places(9)
    BY <2>1, TheChoices DEF Places
  <2>3. QED
    BY <2>2
<1>14. CASE 3 \notin S /\ 4 \notin S
  <2>1. S = (1..7) \ {3, 4}
    BY <1>4, <1>14
  <2>2. S = Places(10)
    BY <2>1, TheChoices DEF Places
  <2>3. QED
    BY <2>2
<1>15. CASE 2 \notin S /\ 7 \notin S
  <2>1. S = (1..7) \ {2, 7}
    BY <1>4, <1>15
  <2>2. S = Places(11)
    BY <2>1, TheChoices DEF Places
  <2>3. QED
    BY <2>2
<1>16. CASE 2 \notin S /\ 6 \notin S
  <2>1. S = (1..7) \ {2, 6}
    BY <1>4, <1>16
  <2>2. S = Places(12)
    BY <2>1, TheChoices DEF Places
  <2>3. QED
    BY <2>2
<1>17. CASE 2 \notin S /\ 5 \notin S
  <2>1. S = (1..7) \ {2, 5}
    BY <1>4, <1>17
  <2>2. S = Places(13)
    BY <2>1, TheChoices DEF Places
  <2>3. QED
    BY <2>2
<1>18. CASE 2 \notin S /\ 4 \notin S
  <2>1. S = (1..7) \ {2, 4}
    BY <1>4, <1>18
  <2>2. S = Places(14)
    BY <2>1, TheChoices DEF Places
  <2>3. QED
    BY <2>2
<1>19. CASE 2 \notin S /\ 3 \notin S
  <2>1. S = (1..7) \ {2, 3}
    BY <1>4, <1>19
  <2>2. S = Places(15)
    BY <2>1, TheChoices DEF Places
  <2>3. QED
    BY <2>2
<1>20. CASE 1 \notin S /\ 7 \notin S
  <2>1. S = (1..7) \ {1, 7}
    BY <1>4, <1>20
  <2>2. S = Places(16)
    BY <2>1, TheChoices DEF Places
  <2>3. QED
    BY <2>2
<1>21. CASE 1 \notin S /\ 6 \notin S
  <2>1. S = (1..7) \ {1, 6}
    BY <1>4, <1>21
  <2>2. S = Places(17)
    BY <2>1, TheChoices DEF Places
  <2>3. QED
    BY <2>2
<1>22. CASE 1 \notin S /\ 5 \notin S
  <2>1. S = (1..7) \ {1, 5}
    BY <1>4, <1>22
  <2>2. S = Places(18)
    BY <2>1, TheChoices DEF Places
  <2>3. QED
    BY <2>2
<1>23. CASE 1 \notin S /\ 4 \notin S
  <2>1. S = (1..7) \ {1, 4}
    BY <1>4, <1>23
  <2>2. S = Places(19)
    BY <2>1, TheChoices DEF Places
  <2>3. QED
    BY <2>2
<1>24. CASE 1 \notin S /\ 3 \notin S
  <2>1. S = (1..7) \ {1, 3}
    BY <1>4, <1>24
  <2>2. S = Places(20)
    BY <2>1, TheChoices DEF Places
  <2>3. QED
    BY <2>2
<1>25. CASE 1 \notin S /\ 2 \notin S
  <2>1. S = (1..7) \ {1, 2}
    BY <1>4, <1>25
  <2>2. S = Places(21)
    BY <2>1, TheChoices DEF Places
  <2>3. QED
    BY <2>2
<1>26. QED
  BY <1>3, <1>5, <1>6, <1>7, <1>8, <1>9, <1>10, <1>11, <1>12, <1>13, <1>14,
     <1>15, <1>16, <1>17, <1>18, <1>19, <1>20, <1>21, <1>22, <1>23, <1>24, <1>25
---------------------------------------------------------------------------
(* The best five of seven. *)

LEMMA Least ==
  ASSUME NEW T, T \subseteq Nat, T # {}
  PROVE  \E x \in T : \A y \in T : x <= y
<1>1. IsWellFoundedOn(OpToRel(<, Nat), Nat)
  BY NatLessThanWellFounded
<1>2. PICK R : R = OpToRel(<, Nat)
  OBVIOUS
<1>3. \A x, y \in Nat : (<<x, y>> \in R) <=> (x < y)
  BY <1>2 DEF OpToRel
<1>4. IsWellFoundedOn(R, Nat)
  BY <1>1, <1>2
<1>5. PICK x \in T : \A y \in T : ~ (<<y, x>> \in R)
  BY <1>4, WFMin
<1>6. x \in Nat /\ \A y \in T : y \in Nat /\ ~ (y < x)
  BY <1>3, <1>5
<1>7. \A y \in T : x <= y
  BY <1>6
<1>8. QED
  BY <1>7

LEMMA Greatest ==
  ASSUME NEW T, NEW bound \in Nat, \A x \in T : x \in Nat /\ x <= bound, T # {}
  PROVE  \E x \in T : \A y \in T : y <= x
<1> DEFINE D == {bound - x : x \in T}
<1>1. D \subseteq Nat /\ D # {}
  OBVIOUS
<1>2. PICK d \in D : \A y \in D : d <= y
  <2> HIDE DEF D
  <2>1. QED
    BY <1>1, Least
<1>3. PICK x \in T : d = bound - x
  OBVIOUS
<1>4. \A y \in T : bound - x <= bound - y
  BY <1>2, <1>3
<1>5. \A y \in T : y <= x
  BY <1>4
<1>6. QED
  BY <1>5

LEMMA ScoreBound ==
  ASSUME NEW h, FiveCards(h)
  PROVE  Score5(h) <= 9 * CategoryUnit
<1>1. PICK c, k1, k2, k3, k4, k5 : Standing(h, c, k1, k2, k3, k4, k5)
  BY EveryHandStands
<1>2. PICK s : s = Shifts(k1, k2, k3, k4, k5)
  OBVIOUS
<1>3. PICK U : U = CategoryUnit
  OBVIOUS
<1>4. /\ c \in 0..8 /\ s \in Nat /\ s < U /\ U \in Nat
      /\ Score5(h) = c * U + s
  BY <1>1, <1>2, <1>3, ShiftsBound, RadixFacts DEF Standing, Digits
<1>5. c = 0 \/ c = 1 \/ c = 2 \/ c = 3 \/ c = 4 \/ c = 5 \/ c = 6 \/ c = 7 \/ c = 8
  BY <1>4
<1>6. c * U + s <= 9 * U
  BY <1>4, <1>5
<1>7. QED
  BY <1>3, <1>4, <1>6

\* Hands of which the rules see the same.
SameHand(h, p) ==
  /\ RanksOf(h) = RanksOf(p)
  /\ \A r : Count(h, r) = Count(p, r)
  /\ OneSuit(h) <=> OneSuit(p)

LEMMA SameKind ==
  ASSUME NEW h, NEW p, SameHand(h, p)
  PROVE  Kind(h) = Kind(p) /\ \A n : Tops(h, n) = Tops(p, n)
<1>1. /\ RanksOf(h) = RanksOf(p) /\ \A r : Count(h, r) = Count(p, r)
      /\ OneSuit(h) <=> OneSuit(p)
  BY DEF SameHand
<1>2. RunsOf(h) = RunsOf(p)
  BY <1>1 DEF RunsOf
<1>3. \A n : Times(h, n) = Times(p, n)
  BY <1>1 DEF Times
<1>4. Kind(h) = Kind(p)
  BY <1>1, <1>2, <1>3 DEF Kind
<1>5. QED
  BY <1>2, <1>3, <1>4 DEF Tops

LEMMA SameStrength ==
  ASSUME NEW h, NEW p, NEW o, NEW q, SameHand(h, p), SameHand(o, q)
  PROVE  StrongerThan(h, o) <=> StrongerThan(p, q)
<1>1. /\ Kind(h) = Kind(p) /\ Kind(o) = Kind(q)
      /\ \A n : Tops(h, n) = Tops(p, n) /\ Tops(o, n) = Tops(q, n)
  BY SameKind
<1>2. HigherTops(h, o) <=> HigherTops(p, q)
  BY <1>1 DEF HigherTops
<1>3. QED
  BY <1>1, <1>2 DEF StrongerThan

SevenCards(cards) == cards \in [1..7 -> Cards] /\ \A i, j \in 1..7 : cards[i] = cards[j] => i = j

Taken(cards, S) == [i \in S |-> cards[i]]

LEMMA PickedIsSame ==
  ASSUME NEW cards, SevenCards(cards), NEW k \in 1..21
  PROVE  /\ FiveCards(Pick(cards, Chosen(k)))
         /\ Places(k) \in SUBSET (1..7) /\ Cardinality(Places(k)) = 5
         /\ SameHand(Taken(cards, Places(k)), Pick(cards, Chosen(k)))
<1>0. PICK S : S = Places(k)
  OBVIOUS
<1>1. PICK c : c = Chosen(k)
  OBVIOUS
<1>2. c \in [1..5 -> 1..7] /\ \A i, j \in 1..5 : c[i] = c[j] => i = j
  BY <1>1, ChosenIsFive
<1>3. PICK p, h : p = Pick(cards, c) /\ h = Taken(cards, S)
  OBVIOUS
<1>4. /\ DOMAIN p = 1..5 /\ \A i \in 1..5 : p[i] = cards[c[i]]
      /\ p = [i \in 1..5 |-> cards[c[i]]]
      /\ DOMAIN h = S /\ \A i \in S : h[i] = cards[i]
  BY <1>2, <1>3 DEF Pick, Taken
<1>5. /\ \A i \in 1..7 : cards[i] \in Cards
      /\ \A i, j \in 1..7 : cards[i] = cards[j] => i = j
  BY DEF SevenCards
<1>6. FiveCards(p)
  BY <1>2, <1>4, <1>5 DEF FiveCards
<1>7. S = {c[i] : i \in 1..5}
  BY <1>0, <1>1 DEF Places
<1>8. S \in SUBSET (1..7) /\ Cardinality(S) = 5
  <2>1. S \in SUBSET (1..7)
    BY <1>2, <1>7
  <2>2. DOMAIN c = 1..5
    BY <1>2
  <2>3. QED
    BY <1>2, <1>7, <2>1, <2>2, ManyRanks
<1>9. RanksOf(h) = RanksOf(p)
  BY <1>4, <1>7 DEF RanksOf
<1>10. OneSuit(h) <=> OneSuit(p)
  BY <1>4, <1>7 DEF OneSuit
<1>11. ASSUME NEW r PROVE Count(h, r) = Count(p, r)
  <2> DEFINE P == {i \in DOMAIN p : p[i].rank = r}
             H == {i \in DOMAIN h : h[i].rank = r}
             f == [i \in P |-> c[i]]
  <2>1. P \in SUBSET (1..5)
    BY <1>4
  <2>2. f \in Bijection(P, H)
    <3>1. \A i \in P : c[i] \in H
      BY <1>4, <1>7
    <3>2. \A j \in H : \E i \in P : c[i] = j
      BY <1>4, <1>7
    <3>3. \A i, j \in P : c[i] = c[j] => i = j
      BY <1>2, <2>1
    <3> HIDE DEF P, H
    <3>4. QED
      BY <3>1, <3>2, <3>3 DEF Bijection, Injection, Surjection, IsInjective
  <2>3. IsFiniteSet(P)
    BY <2>1, FiveTally
  <2> HIDE DEF P, H, f
  <2>4. Cardinality(H) = Cardinality(P)
    BY <2>2, <2>3, FS_Bijection DEF ExistsBijection
  <2>5. QED
    BY <2>4 DEF Count, P, H
<1>12. SameHand(h, p)
  BY <1>9, <1>10, <1>11 DEF SameHand
<1>13. QED
  BY <1>0, <1>1, <1>3, <1>6, <1>8, <1>12

\* Of any seven cards some five are beaten by no others, and the walk of evaluate through
\* the choices of five ends with their score (eval.go:142-182).
THEOREM BestOfSeven ==
  ASSUME NEW cards, SevenCards(cards)
  PROVE  \E p : /\ FiveCards(p) /\ SameHand(Strongest(cards), p)
                /\ Evaluate7(cards) = Score5(p)
                /\ Strongest(cards) \in FivesOf(cards)
                /\ \A o \in FivesOf(cards) : ~StrongerThan(o, Strongest(cards))
<1> DEFINE Try(k) == Pick(cards, Chosen(k))
           Of(k) == Taken(cards, Places(k))
           scores == {Score5(Try(k)) : k \in 1..21}
<1>1. \A k \in 1..21 : FiveCards(Try(k)) /\ SameHand(Of(k), Try(k))
  BY PickedIsSame
<1>2. FivesOf(cards) = {Of(k) : k \in 1..21}
  <2>1. DOMAIN cards = 1..7
    BY DEF SevenCards
  <2>2. FivesOf(cards) = {Taken(cards, S) : S \in {S \in SUBSET (1..7) : Cardinality(S) = 5}}
    BY <2>1 DEF FivesOf, Taken
  <2>3. \A k \in 1..21 : Of(k) \in FivesOf(cards)
    <3> TAKE k \in 1..21
    <3>1. Places(k) \in SUBSET (1..7) /\ Cardinality(Places(k)) = 5
      BY PickedIsSame
    <3>2. QED
      BY <2>2, <3>1
  <2>4. ASSUME NEW S \in SUBSET (1..7), Cardinality(S) = 5
        PROVE  \E k \in 1..21 : Taken(cards, S) = Of(k)
    BY <2>4, EveryFiveIsChosen
  <2>5. QED
    BY <2>2, <2>3, <2>4
<1> HIDE DEF Of, Try
<1>3. \A k \in 1..21 : Score5(Try(k)) \in Nat /\ Score5(Try(k)) <= 9 * CategoryUnit
  BY <1>1, ScoresOfFive, ScoreBound
<1>4. PICK m \in 1..21 : \A k \in 1..21 : Score5(Try(k)) <= Score5(Try(m))
  <2>1. 9 * CategoryUnit \in Nat
    BY RadixFacts
  <2>2. scores # {} /\ \A x \in scores : x \in Nat /\ x <= 9 * CategoryUnit
    BY <1>3
  <2>3. PICK x \in scores : \A y \in scores : y <= x
    <3> HIDE DEF scores
    <3>1. QED
      BY <2>1, <2>2, Greatest
  <2>4. QED
    BY <2>3
<1>5. Evaluate7(cards) = Score5(Try(m))
  <2>1. Evaluate7(cards) = CHOOSE best \in scores : \A other \in scores : other <= best
    <3>1. Len(cards) = 7
      BY DEF SevenCards
    <3>2. {Score5(Pick(cards, idx)) : idx \in Selections(7)} = scores
      BY TheSelections DEF Try
    <3>3. QED
      BY <3>1, <3>2 DEF Evaluate7
  <2>2. Score5(Try(m)) \in scores /\ \A other \in scores : other <= Score5(Try(m))
    BY <1>4
  <2>3. \A x \in scores : x \in Nat
    BY <1>3
  <2> HIDE DEF scores
  <2>4. \A x \in scores : (\A other \in scores : other <= x) => x = Score5(Try(m))
    BY <2>2, <2>3
  <2>5. QED
    BY <2>1, <2>2, <2>4
<1>6. \A k, l \in 1..21 : StrongerThan(Of(k), Of(l)) <=> Score5(Try(k)) > Score5(Try(l))
  <2> TAKE k, l \in 1..21
  <2>1. StrongerThan(Of(k), Of(l)) <=> StrongerThan(Try(k), Try(l))
    BY <1>1, SameStrength
  <2>2. StrongerThan(Try(k), Try(l)) <=> Score5(Try(k)) > Score5(Try(l))
    BY <1>1, ScoresOfFive
  <2>3. QED
    BY <2>1, <2>2
<1>7. PICK b \in 1..21 : /\ Strongest(cards) = Of(b)
                         /\ \A o \in FivesOf(cards) : ~StrongerThan(o, Of(b))
  <2>1. \A o \in FivesOf(cards) : ~StrongerThan(o, Of(m))
    BY <1>2, <1>3, <1>4, <1>6
  <2>2. Of(m) \in FivesOf(cards)
    BY <1>2
  <2>3. /\ Strongest(cards) \in FivesOf(cards)
        /\ \A o \in FivesOf(cards) : ~StrongerThan(o, Strongest(cards))
    BY <2>1, <2>2 DEF Strongest
  <2>4. QED
    BY <1>2, <2>3
<1>8. Score5(Try(b)) = Score5(Try(m))
  <2>1. ~ (Score5(Try(m)) > Score5(Try(b)))
    BY <1>2, <1>6, <1>7
  <2>2. QED
    BY <1>3, <1>4, <2>1
<1>9. QED
  BY <1>1, <1>2, <1>5, <1>7, <1>8

\* The integers that Evaluate7 packs order any two holdings of seven cards as the rules
\* of poker do, and are equal for holdings that tie; their category is the kind of the
\* best five cards (eval.go:50-52, 188-282).
THEOREM ScoreOrdersHoldings ==
  ASSUME NEW mine, NEW yours, SevenCards(mine), SevenCards(yours)
  PROVE  /\ Evaluate7(mine) \in Nat
         /\ Evaluate7(mine) \div CategoryUnit = Kind(Strongest(mine))
         /\ Evaluate7(mine) > Evaluate7(yours)
              <=> StrongerThan(Strongest(mine), Strongest(yours))
<1>1. PICK p : /\ FiveCards(p) /\ SameHand(Strongest(mine), p) /\ Evaluate7(mine) = Score5(p)
  BY BestOfSeven
<1>2. PICK q : /\ FiveCards(q) /\ SameHand(Strongest(yours), q)
               /\ Evaluate7(yours) = Score5(q)
  BY BestOfSeven
<1>3. /\ Score5(p) \in Nat /\ Score5(p) \div CategoryUnit = Kind(p)
      /\ Score5(p) > Score5(q) <=> StrongerThan(p, q)
  BY <1>1, <1>2, ScoresOfFive
<1>4. Kind(Strongest(mine)) = Kind(p)
  BY <1>1, SameKind
<1>5. StrongerThan(Strongest(mine), Strongest(yours)) <=> StrongerThan(p, q)
  BY <1>1, <1>2, SameStrength
<1>6. QED
  BY <1>1, <1>2, <1>3, <1>4, <1>5
=======================================================================
