-------------------------- MODULE TableProofs --------------------------
(* For any number of players, seats up to six, chips, deals and options, and *)
(* blinds in order (ProperBlinds, which the server leaves to its clients):   *)
(* whatever the clients and the timers do at such a table, its variables     *)
(* keep their types, each seat's chips stay accounted for, the manager's     *)
(* counter is right, and nobody keeps a chair beyond what the code allows.   *)
(* The argument has two layers.  Every method of a hand keeps its chips      *)
(* natural numbers and accounted for, with nobody above the current bet, and *)
(* a settlement pays the pot out to the last chip, no seat getting more than *)
(* it has matched.  And every way the actor combines the methods keeps this. *)
(* On top of it stands what no step may do to a hand.                        *)
EXTENDS TableProperties, PotProofs
---------------------------------------------------------------------------
(* Hands. *)

\* A hand of a table whose blinds are in order, with its chips accounted for; the
\* current bet may just be changing.
Accounted(h) ==
  /\ ProperBlinds
  /\ h \in Hands
  /\ h.folded \subseteq h.dealt /\ h.allIn \subseteq h.dealt /\ h.acted \subseteq h.dealt
  /\ \A s \in Seats : h.bet[s] <= h.committed[s]
  /\ \A s \in Seats : h.stack[s] + h.committed[s] = h.stackIn[s] + h.won[s]

\* Nobody has bet above the current bet.
Covered(h) == \A s \in Seats : h.bet[s] <= h.currentBet

Sound(h) == Accounted(h) /\ Covered(h)
---------------------------------------------------------------------------
LEMMA SeatsFacts == /\ Seats \subseteq Nat
                    /\ NoSeat \notin Seats
                    /\ MaxSeats \in Nat
                    /\ \A s \in Seats : s >= 0 /\ s <= 5 /\ s < MaxSeats
BY SeatNumbers DEF NoSeat

LEMMA NothingIsNothing == Total(Nothing) = 0
BY TotalZero DEF Nothing, NoChips

\* Going round the table from any place, a non-empty set of seats has a first one.
LEMMA NextInFacts ==
  ASSUME NEW S \in SUBSET Seats, NEW from \in SeatOrNone
  PROVE  /\ NextIn(from, S) \in S \cup {NoSeat}
         /\ S # {} => NextIn(from, S) \in S
<1> DEFINE first == {s \in S : \A o \in S : Distance(from, s) <= Distance(from, o)}
<1>1. \A s \in S : Distance(from, s) \in 0..5
  <2>1. \A s \in S : s + MaxSeats - from - 1 \in Int
    BY SeatsFacts DEF SeatOrNone, NoSeat
  <2>2. \A x \in Int : x % MaxSeats \in 0..(MaxSeats - 1)
    BY MaxSeatsAssumption
  <2>3. \A s \in S : Distance(from, s) \in 0..(MaxSeats - 1)
    BY <2>1, <2>2 DEF Distance
  <2>4. 0..(MaxSeats - 1) \subseteq 0..5
    BY MaxSeatsAssumption
  <2>5. QED
    BY <2>3, <2>4
<1>2. S # {} => first # {}
  <2> DEFINE P(d) == \E s \in S : Distance(from, s) = d
  <2> SUFFICES ASSUME S # {} PROVE first # {}
    OBVIOUS
  <2>1. \E d \in 0..5 : P(d)
    BY <1>1
  <2>2. \E d \in 0..5 : P(d) /\ \A e \in 0..5 : P(e) => d <= e
    <3> HIDE DEF P
    <3>1. P(0) \/ P(1) \/ P(2) \/ P(3) \/ P(4) \/ P(5)
      BY <2>1
    <3>2. QED
      BY <3>1
  <2>3. QED
    BY <2>2, <1>1
<1>3. first # {} => NextIn(from, S) \in first
  BY DEF NextIn
<1>4. first = {} => NextIn(from, S) = NoSeat
  BY DEF NextIn
<1>5. QED
  BY <1>2, <1>3, <1>4
---------------------------------------------------------------------------
\* Chips from the stack into the pot, as far as the stack goes.
LEMMA PutInSound ==
  ASSUME NEW h, Accounted(h), NEW s \in h.dealt, NEW pay \in Nat, pay <= h.stack[s]
  PROVE  LET g == PutIn(h, s, pay)
         IN  /\ Accounted(g)
             /\ g.currentBet = h.currentBet
             /\ g.bet = [h.bet EXCEPT ![s] = h.bet[s] + pay]
             /\ g.folded = h.folded
             /\ g.id = h.id
<1> DEFINE g == PutIn(h, s, pay)
<1>1. s \in Seats
  BY DEF Accounted, Hands
<1>2. /\ [h.stack EXCEPT ![s] = @ - pay] \in [Seats -> Nat]
      /\ [h.bet EXCEPT ![s] = @ + pay] \in [Seats -> Nat]
      /\ [h.committed EXCEPT ![s] = @ + pay] \in [Seats -> Nat]
      /\ h.allIn \cup {s} \in SUBSET Seats /\ h.acted \cup {s} \in SUBSET Seats
  BY <1>1 DEF Hands, Accounted
<1>3. g \in Hands
  BY <1>2 DEF PutIn, Hands, Accounted
<1>4. /\ g.stack = [h.stack EXCEPT ![s] = h.stack[s] - pay]
      /\ g.bet = [h.bet EXCEPT ![s] = h.bet[s] + pay]
      /\ g.committed = [h.committed EXCEPT ![s] = h.committed[s] + pay]
      /\ g.folded = h.folded /\ g.dealt = h.dealt
      /\ g.allIn \subseteq h.allIn \cup {s} /\ g.acted = h.acted \cup {s}
      /\ g.stackIn = h.stackIn /\ g.won = h.won
      /\ g.currentBet = h.currentBet /\ g.id = h.id
  BY DEF PutIn, Hands, Accounted
<1>5. /\ h.stack \in [Seats -> Nat] /\ h.bet \in [Seats -> Nat]
      /\ h.committed \in [Seats -> Nat] /\ h.stackIn \in [Seats -> Nat]
      /\ h.won \in [Seats -> Nat]
  BY DEF Accounted, Hands
<1>6. \A o \in Seats : g.bet[o] <= g.committed[o]
  BY <1>1, <1>4, <1>5 DEF Accounted
<1>7. \A o \in Seats : g.stack[o] + g.committed[o] = g.stackIn[o] + g.won[o]
  BY <1>1, <1>4, <1>5 DEF Accounted
<1>8. Accounted(g)
  BY <1>3, <1>4, <1>6, <1>7 DEF Accounted
<1>9. QED
  BY <1>4, <1>8

LEMMA ReopenSound ==
  ASSUME NEW h, Accounted(h), NEW s \in h.dealt
  PROVE  /\ Accounted(Reopen(h, s))
         /\ Reopen(h, s).currentBet = h.currentBet
         /\ Reopen(h, s).bet = h.bet
         /\ Reopen(h, s).id = h.id
BY DEF Accounted, Hands, Reopen
---------------------------------------------------------------------------
\* The player actions.
Kept(h, g) == Sound(g) /\ g.id = h.id

LEMMA FoldSound ==
  ASSUME NEW h, Sound(h), NEW s \in h.dealt
  PROVE  Kept(h, Fold(h, s))
<1>1. h.folded \cup {s} \in SUBSET Seats /\ h.acted \cup {s} \in SUBSET Seats
  BY DEF Sound, Accounted, Hands
<1>2. Fold(h, s) \in Hands
  BY <1>1 DEF Fold, Hands, Sound, Accounted
<1>3. QED
  BY <1>2 DEF Kept, Sound, Accounted, Covered, Hands, Fold

LEMMA CheckSound ==
  ASSUME NEW h, Sound(h), NEW s \in h.dealt
  PROVE  Kept(h, Check(h, s))
<1>1. h.acted \cup {s} \in SUBSET Seats
  BY DEF Sound, Accounted, Hands
<1>2. Check(h, s) \in Hands
  BY <1>1 DEF Check, Hands, Sound, Accounted
<1>3. QED
  BY <1>2 DEF Kept, Sound, Accounted, Covered, Hands, Check

\* A payment that stays within the current bet.
LEMMA PayUpSound ==
  ASSUME NEW h, Sound(h), NEW s \in h.dealt, NEW pay \in Nat,
         pay <= h.stack[s], h.bet[s] + pay <= h.currentBet
  PROVE  Kept(h, PutIn(h, s, pay))
<1> DEFINE g == PutIn(h, s, pay)
<1>1. s \in Seats /\ h.bet \in [Seats -> Nat]
  BY DEF Sound, Accounted, Hands
<1>2. /\ Accounted(g) /\ g.currentBet = h.currentBet /\ g.id = h.id
      /\ g.bet = [h.bet EXCEPT ![s] = h.bet[s] + pay]
  BY PutInSound DEF Sound
<1>3. Covered(g)
  BY <1>1, <1>2 DEF Sound, Covered
<1>4. QED
  BY <1>2, <1>3 DEF Kept, Sound

LEMMA CallSound ==
  ASSUME NEW h, Sound(h), NEW s \in h.dealt, ToCall(h, s) > 0
  PROVE  Kept(h, Call(h, s))
<1>1. h.bet[s] \in Nat /\ h.currentBet \in Nat /\ h.stack[s] \in Nat
  BY DEF Sound, Accounted, Hands
<1>2. ToCall(h, s) \in Nat /\ h.bet[s] + ToCall(h, s) = h.currentBet
  BY <1>1 DEF ToCall
<1> DEFINE pay == Lower(ToCall(h, s), h.stack[s])
<1>3. pay \in Nat /\ pay <= h.stack[s] /\ pay <= ToCall(h, s)
  BY <1>1, <1>2, LowerFacts
<1>4. h.bet[s] + pay <= h.currentBet
  BY <1>1, <1>2, <1>3
<1> HIDE DEF pay
<1>5. Kept(h, PutIn(h, s, pay))
  BY <1>3, <1>4, PayUpSound
<1>6. QED
  BY <1>5 DEF Call, pay

\* A payment that makes a new current bet.
LEMMA PayOverSound ==
  ASSUME NEW h, Sound(h), NEW s \in h.dealt, NEW pay \in Nat, NEW raise \in Nat,
         pay <= h.stack[s], h.bet[s] + pay >= h.currentBet
  PROVE  LET level == h.bet[s] + pay
             g == [PutIn(h, s, pay) EXCEPT !.currentBet = level]
         IN  /\ Kept(h, g)
             /\ Kept(h, Reopen([g EXCEPT !.minRaise = raise], s))
<1> DEFINE level == h.bet[s] + pay
           p == PutIn(h, s, pay)
           g == [p EXCEPT !.currentBet = level]
           q == [g EXCEPT !.minRaise = raise]
<1>1. /\ s \in Seats /\ h.bet \in [Seats -> Nat] /\ h.currentBet \in Nat
      /\ level \in Nat
  BY DEF Sound, Accounted, Hands
<1>2. /\ Accounted(p) /\ p.currentBet = h.currentBet /\ p.id = h.id
      /\ p.bet = [h.bet EXCEPT ![s] = h.bet[s] + pay]
  BY PutInSound DEF Sound
<1>3. s \in p.dealt
  BY DEF PutIn, Sound, Accounted, Hands
<1> HIDE DEF p, level
<1>4. Accounted(g) /\ g.bet = p.bet /\ g.currentBet = level /\ g.id = p.id
      /\ g.dealt = p.dealt
  BY <1>1, <1>2 DEF Accounted, Hands
<1>5. Covered(g)
  BY <1>1, <1>2, <1>4 DEF Sound, Covered, level
<1> HIDE DEF g
<1>6. Accounted(q) /\ q.bet = g.bet /\ q.currentBet = g.currentBet /\ q.id = g.id
      /\ q.dealt = g.dealt
  BY <1>4 DEF Accounted, Hands
<1> HIDE DEF q
<1>7. /\ Accounted(Reopen(q, s)) /\ Reopen(q, s).currentBet = q.currentBet
      /\ Reopen(q, s).bet = q.bet /\ Reopen(q, s).id = q.id
  BY <1>3, <1>4, <1>6, ReopenSound
<1>8. Covered(Reopen(q, s))
  BY <1>5, <1>6, <1>7 DEF Covered
<1>9. Kept(h, g) /\ Kept(h, Reopen(q, s))
  BY <1>2, <1>4, <1>5, <1>6, <1>7, <1>8 DEF Kept, Sound
<1>10. QED
  BY <1>9 DEF g, q, p, level

LEMMA BetSound ==
  ASSUME NEW h, Sound(h), NEW s \in h.dealt, NEW amount \in Int, CanBet(h, s, amount)
  PROVE  Kept(h, Bet(h, s, amount))
<1>1. h.bet[s] \in Nat /\ h.currentBet \in Nat /\ h.stack[s] \in Nat
  BY DEF Sound, Accounted, Hands
<1>2. amount \in Nat /\ amount <= h.stack[s] /\ h.bet[s] + amount >= h.currentBet
  BY <1>1 DEF CanBet, ProperBlinds, Sound, Accounted
<1> DEFINE paid == [PutIn(h, s, amount) EXCEPT !.currentBet = h.bet[s] + amount]
<1>3. Kept(h, Reopen([paid EXCEPT !.minRaise = amount], s))
  BY <1>2, PayOverSound
<1>4. [PutIn(h, s, amount) EXCEPT !.currentBet = h.bet[s] + amount, !.minRaise = amount]
        = [paid EXCEPT !.minRaise = amount]
  BY DEF PutIn
<1> HIDE DEF paid
<1>5. QED
  BY <1>3, <1>4 DEF Bet

LEMMA RaiseSound ==
  ASSUME NEW h, Sound(h), NEW s \in h.dealt, NEW level \in Int, CanRaiseTo(h, s, level)
  PROVE  Kept(h, RaiseTo(h, s, level))
<1> DEFINE pay == level - h.bet[s]
           raise == level - h.currentBet
<1>1. /\ h.bet[s] \in Nat /\ h.currentBet \in Nat /\ h.stack[s] \in Nat
      /\ h.bet[s] <= h.currentBet
  BY DEF Sound, Accounted, Hands, Covered
<1>2. /\ pay \in Nat /\ raise \in Nat /\ pay <= h.stack[s]
      /\ h.bet[s] + pay = level /\ level >= h.currentBet /\ level \in Nat
  BY <1>1 DEF CanRaiseTo
<1>3. /\ Kept(h, [PutIn(h, s, pay) EXCEPT !.currentBet = level])
      /\ Kept(h, Reopen([[PutIn(h, s, pay) EXCEPT !.currentBet = level]
                           EXCEPT !.minRaise = raise], s))
  BY <1>2, PayOverSound
<1>4. QED
  BY <1>3 DEF RaiseTo

LEMMA AllInSound ==
  ASSUME NEW h, Sound(h), NEW s \in h.dealt
  PROVE  Kept(h, AllIn(h, s))
<1> DEFINE level == AllInLevel(h, s)
<1>1. /\ h.bet[s] \in Nat /\ h.currentBet \in Nat /\ h.stack[s] \in Nat
      /\ h.minRaise \in Nat /\ h.bet[s] <= h.currentBet
  BY DEF Sound, Accounted, Hands, Covered
<1>2. level \in Nat /\ level = h.bet[s] + h.stack[s]
  BY <1>1 DEF AllInLevel
<1>3. CASE level <= h.currentBet
  BY <1>1, <1>2, <1>3, PayUpSound DEF AllIn
<1>4. CASE ~(level <= h.currentBet)
  <2>1. CanRaiseTo(h, s, level)
    BY <1>1, <1>2, <1>4 DEF CanRaiseTo, ShortAllIn
  <2>2. QED
    BY <1>2, <1>4, <2>1, RaiseSound DEF AllIn
<1>5. QED
  BY <1>3, <1>4

\* Whatever the hand accepts, it survives.
LEMMA ApplySound ==
  ASSUME NEW h, Sound(h), NEW s, NEW intent \in [kind : ActionKinds, amount : Int],
         Accepts(h, s, intent)
  PROVE  Kept(h, Apply(h, s, intent)) /\ s \in h.dealt
<1>1. s \in h.dealt /\ intent.kind \in ActionKinds /\ intent.amount \in Int
  BY DEF Accepts, MayAct
<1>2. CASE intent.kind = "fold"
  BY <1>1, <1>2, FoldSound DEF Apply
<1>3. CASE intent.kind = "check"
  BY <1>1, <1>3, CheckSound DEF Apply
<1>4. CASE intent.kind = "call"
  BY <1>1, <1>4, CallSound DEF Apply, Accepts
<1>5. CASE intent.kind = "bet"
  BY <1>1, <1>5, BetSound DEF Apply, Accepts
<1>6. CASE intent.kind = "raise"
  BY <1>1, <1>6, RaiseSound DEF Apply, Accepts
<1>7. CASE intent.kind = "allin"
  BY <1>1, <1>7, AllInSound DEF Apply
<1>8. QED
  BY <1>1, <1>2, <1>3, <1>4, <1>5, <1>6, <1>7 DEF ActionKinds
---------------------------------------------------------------------------
\* The rest of the methods.
LEMMA PointsSound ==
  ASSUME NEW h, Sound(h)
  PROVE  /\ Kept(h, Advance(h))
         /\ Kept(h, DealStreet(h))
         /\ Kept(h, ResetForNextStreet(h))
<1>1. /\ h.dealt \in SUBSET Seats /\ h.button \in Seats /\ h.toAct \in SeatOrNone
      /\ CanAct(h) \in SUBSET Seats
  BY DEF Sound, Accounted, Hands, CanAct
<1>2. /\ NextActorAfter(h, h.toAct) \in SeatOrNone
      /\ NextActorAfter(h, h.button) \in SeatOrNone
  BY <1>1, NextInFacts DEF NextActorAfter, SeatOrNone
<1>3. Kept(h, Advance(h))
  BY <1>2 DEF Advance, Kept, Sound, Accounted, Covered, Hands
<1>4. h.stage \in DOMAIN NextStage => NextStage[h.stage] \in Stages
  BY DEF NextStage, Stages
<1>5. Kept(h, DealStreet(h))
  BY <1>4 DEF DealStreet, Kept, Sound, Accounted, Covered, Hands
<1>6. Nothing \in [Seats -> Nat] /\ \A s \in Seats : Nothing[s] = 0
  BY DEF Nothing
<1>7. BigBlind \in Nat /\ h.acted \ h.dealt = {}
  BY DEF ProperBlinds, Sound, Accounted
<1>8. ResetForNextStreet(h) \in Hands
  BY <1>2, <1>6, <1>7 DEF ResetForNextStreet, Sound, Accounted, Hands
<1>9. Kept(h, ResetForNextStreet(h))
  BY <1>6, <1>7, <1>8 DEF ResetForNextStreet, Kept, Sound, Accounted, Covered, Hands
<1>10. QED
  BY <1>3, <1>5, <1>9

LEMMA PendingSound ==
  ASSUME NEW h, Sound(h), NEW s \in Seats, NEW p \in Pendings
  PROVE  Kept(h, SetPending(h, s, p)) /\ Kept(h, ClearPending(h, s))
<1>1. NoPending \in Pendings
  BY DEF NoPending, Pendings, PendingKinds
<1>2. \A q \in Pendings : [h.pending EXCEPT ![s] = q] \in [Seats -> Pendings]
  BY DEF Sound, Accounted, Hands
<1>3. \A q \in Pendings : Kept(h, SetPending(h, s, q))
  BY <1>2 DEF SetPending, Kept, Sound, Accounted, Covered, Hands
<1>4. QED
  BY <1>1, <1>3 DEF ClearPending

\* A pre-action that fires is an intent like any other.
LEMMA ResolvedIntent ==
  ASSUME NEW h, Sound(h), NEW s, Accepts(h, s, ResolvePending(h, s))
  PROVE  ResolvePending(h, s) \in [kind : ActionKinds, amount : Int]
<1>1. s \in Seats
  BY DEF Accepts, MayAct, Sound, Accounted, Hands
<1>2. h.pending[s] \in Pendings
  BY <1>1 DEF Sound, Accounted, Hands
<1>3. ResolvePending(h, s).kind # "none"
  BY DEF Accepts
<1>4. QED
  BY <1>2, <1>3 DEF ResolvePending, ActionKinds, Pendings, PendingKinds
---------------------------------------------------------------------------
\* Paying out.
LEMMA CreditSound ==
  ASSUME NEW h, Sound(h), NEW prize \in [Seats -> Nat]
  PROVE  Kept(h, Credit(h, prize))
<1> DEFINE g == Credit(h, prize)
           stack == [s \in Seats |-> h.stack[s] + prize[s]]
           won == [s \in Seats |-> h.won[s] + prize[s]]
<1>1. /\ h.stack \in [Seats -> Nat] /\ h.won \in [Seats -> Nat]
      /\ h.stackIn \in [Seats -> Nat] /\ h.committed \in [Seats -> Nat]
      /\ h.finals \in Nat /\ h \in Hands
  BY DEF Sound, Accounted, Hands
<1>2. stack \in [Seats -> Nat] /\ won \in [Seats -> Nat] /\ h.finals + 1 \in Nat
  BY <1>1
<1>3. \A s \in Seats : stack[s] = h.stack[s] + prize[s] /\ won[s] = h.won[s] + prize[s]
  OBVIOUS
<1>4. g = [h EXCEPT !.stack = stack, !.won = won, !.finals = h.finals + 1]
  BY DEF Credit
<1> HIDE DEF g, stack, won
<1>5. g \in Hands
  BY <1>1, <1>2, <1>4 DEF Hands
<1>6. /\ g.stack = stack /\ g.won = won
      /\ g.committed = h.committed /\ g.stackIn = h.stackIn /\ g.bet = h.bet
      /\ g.dealt = h.dealt /\ g.folded = h.folded /\ g.allIn = h.allIn
      /\ g.acted = h.acted /\ g.currentBet = h.currentBet /\ g.id = h.id
  BY <1>1, <1>4 DEF Hands
<1>7. \A s \in Seats : g.stack[s] + g.committed[s] = g.stackIn[s] + g.won[s]
  <2> TAKE s \in Seats
  <2>1. h.stack[s] + h.committed[s] = h.stackIn[s] + h.won[s]
    BY DEF Sound, Accounted
  <2>2. /\ h.stack[s] \in Nat /\ h.committed[s] \in Nat
        /\ h.stackIn[s] \in Nat /\ h.won[s] \in Nat /\ prize[s] \in Nat
    BY <1>1
  <2>3. QED
    BY <1>3, <1>6, <2>1, <2>2
<1>8. Accounted(g) /\ Covered(g)
  BY <1>5, <1>6, <1>7 DEF Sound, Accounted, Covered
<1>9. QED
  BY <1>6, <1>8 DEF Kept, Sound, g

LEMMA AwardSound ==
  ASSUME NEW h, Sound(h)
  PROVE  Kept(h, AwardSinglePot(h))
<1>1. Pot(h) \in Nat
  BY TotalNat DEF Pot, Sound, Accounted, Hands
<1>2. [s \in Seats |-> IF /\ s \in NotFolded(h)
                          /\ \A o \in NotFolded(h) : o <= s
                       THEN Pot(h) ELSE 0] \in [Seats -> Nat]
  BY <1>1
<1>3. QED
  BY <1>2, CreditSound DEF AwardSinglePot

LEMMA ShareNat ==
  ASSUME NEW h, Sound(h), NEW k \in Live(h.committed, h.folded), NEW s \in Seats
  PROVE  Share(h, k, s) \in Nat
<1> DEFINE W == Winners(h, k)
           n == Cardinality(W)
<1>1. Amount(h.committed, h.folded, k) \in Nat
  BY AmountNat DEF Sound, Accounted, Hands
<1>2. CASE s \notin W
  BY <1>2 DEF Share
<1>3. CASE s \in W
  <2>1. IsFiniteSet(W)
    <3>1. IsFiniteSet(Seats)
      BY MaxSeatsAssumption, FS_Interval DEF Seats
    <3>2. W \subseteq Seats
      BY DEF Winners, Eligible, Live
    <3>3. QED
      BY <3>1, <3>2, FS_Subset
  <2>2. n \in Nat \ {0}
    BY <1>3, <2>1, FS_CardinalityType, FS_EmptySet
  <2>3. \A a \in Nat : \A b \in Nat \ {0} : a \div b \in Nat /\ a % b \in Nat
    OBVIOUS
  <2> HIDE DEF W, n
  <2>4. /\ Amount(h.committed, h.folded, k) \div n \in Nat
        /\ Amount(h.committed, h.folded, k) % n \in Nat
    BY <1>1, <2>2, <2>3
  <2>5. QED
    BY <1>3, <2>4 DEF Share, W, n
<1>4. QED
  BY <1>2, <1>3

LEMMA SettleSound ==
  ASSUME NEW h, Sound(h)
  PROVE  Kept(h, Settle(h))
<1> DEFINE layers == Layers(h.committed, h.folded)
           Part(s) == [k \in Seats |-> IF k \in layers THEN Share(h, k, s) ELSE 0]
           prize == [s \in Seats |-> Total(Part(s))]
<1>1. \A k \in layers : k \in Live(h.committed, h.folded)
  BY DEF Layers
<1>2. \A s \in Seats : Part(s) \in [Seats -> Nat]
  BY <1>1, ShareNat
<1>3. prize \in [Seats -> Nat]
  BY <1>2, TotalNat
<1> HIDE DEF prize
<1>4. Kept(h, Credit(h, prize))
  BY <1>3, CreditSound
<1>5. "showdown" \in Stages
  BY DEF Stages
<1> DEFINE g == Credit(h, prize)
<1> HIDE DEF g
<1>6. Kept(h, g) => Kept(h, [g EXCEPT !.stage = "showdown"])
  BY <1>5 DEF Kept, Sound, Accounted, Covered, Hands
<1>7. QED
  BY <1>4, <1>6 DEF Settle, prize, g
---------------------------------------------------------------------------
\* Posting the blinds.
LEMMA PostBlindSound ==
  ASSUME NEW h, Accounted(h), NEW s \in h.dealt, NEW amount \in Nat
  PROVE  LET g == PostBlind(h, s, amount)
         IN  /\ Accounted(g) /\ g.id = h.id /\ g.dealt = h.dealt
             /\ g.bet[s] <= h.bet[s] + amount
             /\ \A o \in Seats \ {s} : g.bet[o] = h.bet[o]
<1> DEFINE g == PostBlind(h, s, amount)
           pay == Lower(amount, h.stack[s])
           allIn == IF amount > h.stack[s] THEN h.allIn \cup {s} ELSE h.allIn
<1>1. /\ s \in Seats /\ h \in Hands
      /\ h.stack \in [Seats -> Nat] /\ h.bet \in [Seats -> Nat]
      /\ h.committed \in [Seats -> Nat] /\ h.stackIn \in [Seats -> Nat]
      /\ h.won \in [Seats -> Nat]
  BY DEF Accounted, Hands
<1>2. pay \in Nat /\ pay <= h.stack[s] /\ pay <= amount
  BY <1>1, LowerFacts
<1>3. allIn \in SUBSET Seats /\ allIn \subseteq h.dealt
  BY <1>1 DEF Accounted, Hands
<1>4. g = [h EXCEPT !.stack = [h.stack EXCEPT ![s] = @ - pay],
                    !.bet = [h.bet EXCEPT ![s] = @ + pay],
                    !.committed = [h.committed EXCEPT ![s] = @ + pay],
                    !.allIn = allIn]
  BY DEF PostBlind
<1> HIDE DEF g, pay, allIn
<1>5. /\ [h.stack EXCEPT ![s] = @ - pay] \in [Seats -> Nat]
      /\ [h.bet EXCEPT ![s] = @ + pay] \in [Seats -> Nat]
      /\ [h.committed EXCEPT ![s] = @ + pay] \in [Seats -> Nat]
  BY <1>1, <1>2
<1>6. g \in Hands
  BY <1>1, <1>3, <1>4, <1>5 DEF Hands
<1>7. /\ g.stack = [h.stack EXCEPT ![s] = h.stack[s] - pay]
      /\ g.bet = [h.bet EXCEPT ![s] = h.bet[s] + pay]
      /\ g.committed = [h.committed EXCEPT ![s] = h.committed[s] + pay]
      /\ g.folded = h.folded /\ g.dealt = h.dealt /\ g.allIn = allIn
      /\ g.acted = h.acted /\ g.stackIn = h.stackIn /\ g.won = h.won /\ g.id = h.id
  BY <1>1, <1>4 DEF Hands
<1>8. \A o \in Seats : g.bet[o] <= g.committed[o]
  BY <1>1, <1>2, <1>7 DEF Accounted
<1>9. \A o \in Seats : g.stack[o] + g.committed[o] = g.stackIn[o] + g.won[o]
  BY <1>1, <1>2, <1>7 DEF Accounted
<1>10. Accounted(g)
  BY <1>3, <1>6, <1>7, <1>8, <1>9 DEF Accounted
<1>11. g.bet[s] <= h.bet[s] + amount /\ \A o \in Seats \ {s} : g.bet[o] = h.bet[o]
  BY <1>1, <1>2, <1>7
<1>12. QED
  BY <1>7, <1>10, <1>11 DEF g

LEMMA PostDeadBlindsSound ==
  ASSUME NEW h, Accounted(h), NEW D \in SUBSET h.dealt
  PROVE  LET g == PostDeadBlinds(h, D)
         IN  Accounted(g) /\ g.id = h.id /\ g.dealt = h.dealt /\ g.bet = h.bet
<1> DEFINE g == PostDeadBlinds(h, D)
           Pay(s) == IF s \in D THEN Lower(BigBlind, h.stack[s]) ELSE 0
           stack == [s \in Seats |-> h.stack[s] - Pay(s)]
           committed == [s \in Seats |-> h.committed[s] + Pay(s)]
           allIn == h.allIn \cup {s \in D : BigBlind > h.stack[s]}
<1>1. /\ h \in Hands
      /\ h.stack \in [Seats -> Nat] /\ h.bet \in [Seats -> Nat]
      /\ h.committed \in [Seats -> Nat] /\ h.stackIn \in [Seats -> Nat]
      /\ h.won \in [Seats -> Nat]
  BY DEF Accounted, Hands
<1>2. \A s \in Seats : Pay(s) \in Nat /\ Pay(s) <= h.stack[s]
  <2> TAKE s \in Seats
  <2>1. h.stack[s] \in Nat /\ BigBlind \in Nat
    BY <1>1 DEF ProperBlinds, Accounted
  <2>2. /\ Lower(BigBlind, h.stack[s]) \in Nat
        /\ Lower(BigBlind, h.stack[s]) <= h.stack[s]
    BY <2>1, LowerFacts
  <2>3. QED
    BY <2>1, <2>2
<1>3. allIn \in SUBSET Seats /\ allIn \subseteq h.dealt
  BY DEF Accounted, Hands
<1>4. g = [h EXCEPT !.stack = stack, !.committed = committed, !.allIn = allIn]
  BY DEF PostDeadBlinds
<1> HIDE DEF g, Pay, allIn
<1>5. stack \in [Seats -> Nat] /\ committed \in [Seats -> Nat]
  BY <1>1, <1>2
<1>6. \A s \in Seats : stack[s] = h.stack[s] - Pay(s) /\ committed[s] = h.committed[s] + Pay(s)
  OBVIOUS
<1> HIDE DEF stack, committed
<1>7. g \in Hands
  BY <1>1, <1>3, <1>4, <1>5 DEF Hands
<1>8. /\ g.stack = stack /\ g.committed = committed /\ g.bet = h.bet
      /\ g.folded = h.folded /\ g.dealt = h.dealt /\ g.allIn = allIn
      /\ g.acted = h.acted /\ g.stackIn = h.stackIn /\ g.won = h.won /\ g.id = h.id
  BY <1>1, <1>4 DEF Hands
<1>9. \A s \in Seats : g.bet[s] <= g.committed[s]
  BY <1>1, <1>2, <1>6, <1>8 DEF Accounted
<1>10. \A s \in Seats : g.stack[s] + g.committed[s] = g.stackIn[s] + g.won[s]
  <2> TAKE s \in Seats
  <2>1. h.stack[s] + h.committed[s] = h.stackIn[s] + h.won[s]
    BY DEF Accounted
  <2>2. /\ h.stack[s] \in Nat /\ h.committed[s] \in Nat
        /\ h.stackIn[s] \in Nat /\ h.won[s] \in Nat
    BY <1>1
  <2>3. QED
    BY <1>2, <1>6, <1>8, <2>1, <2>2
<1>11. Accounted(g)
  BY <1>3, <1>7, <1>8, <1>9, <1>10 DEF Accounted
<1>12. QED
  BY <1>8, <1>11 DEF g

\* With two seats or more, the one after a seat is another seat.
LEMMA NextIsAnother ==
  ASSUME NEW S \in SUBSET Seats, NEW from \in S, NEW other \in S, other # from
  PROVE  NextIn(from, S) \in S \ {from}
<1>1. from \in SeatOrNone /\ S # {}
  BY DEF SeatOrNone
<1>2. NextIn(from, S) \in S
  BY <1>1, NextInFacts
<1>3. \A a, b \in Seats : a # b => Distance(a, b) < Distance(a, a)
  <2>1. MaxSeats = 2 \/ MaxSeats = 3 \/ MaxSeats = 4 \/ MaxSeats = 5 \/ MaxSeats = 6
    BY MaxSeatsAssumption
  <2>2. \A a \in Seats : Distance(a, a) = MaxSeats - 1
    BY <2>1 DEF Distance, Seats
  <2>3. \A a, b \in Seats : a # b => Distance(a, b) < MaxSeats - 1
    BY <2>1 DEF Distance, Seats
  <2>4. QED
    BY <2>2, <2>3
<1>4. NextIn(from, S) # from
  <2> SUFFICES ASSUME NextIn(from, S) = from PROVE FALSE
    OBVIOUS
  <2> DEFINE first == {s \in S : \A o \in S : Distance(from, s) <= Distance(from, o)}
  <2>1. first # {} => NextIn(from, S) \in first
    BY DEF NextIn
  <2>2. first = {} => NextIn(from, S) = NoSeat
    BY DEF NextIn
  <2>3. from \in first
    BY <1>2, <2>1, <2>2, SeatsFacts
  <2>4. Distance(from, from) <= Distance(from, other)
    BY <2>3
  <2>5. Distance(from, other) < Distance(from, from)
    BY <1>3
  <2>6. Distance(from, from) \in Int /\ Distance(from, other) \in Int
    BY MaxSeatsAssumption, SeatsFacts DEF Distance
  <2>7. QED
    BY <2>4, <2>5, <2>6
<1>5. QED
  BY <1>2, <1>4

\* A hand for at least two seats, blinds posted.
LEMMA StartSound ==
  ASSUME NEW id \in Nat, NEW dealer \in Seats, NEW dealt \in SUBSET Seats,
         NEW chips \in [Seats -> Nat], NEW score \in [Seats -> Nat],
         NEW D \in SUBSET dealt, NEW a \in dealt, NEW b \in dealt, a # b,
         dealer \in dealt, ProperBlinds
  PROVE  LET g == StartPreflop(NewHand(id, dealer, dealt, chips, score), D)
         IN  Sound(g) /\ g.id = id
<1> DEFINE h == NewHand(id, dealer, dealt, chips, score)
           sb == SmallBlindSeat(h)
           bb == BigBlindSeat(h)
           dead == PostDeadBlinds(h, SkipNatural(D, bb))
           small == PostBlind(dead, sb, SmallBlind)
           big == PostBlind(small, bb, BigBlind)
           actor == IF HeadsUp(h) THEN sb ELSE NextActorAfter(big, bb)
<1>1. /\ Nothing \in [Seats -> Nat] /\ \A s \in Seats : Nothing[s] = 0
      /\ [s \in Seats |-> NoPending] \in [Seats -> Pendings]
      /\ "waiting" \in Stages /\ "preflop" \in Stages
      /\ NoSeat \in SeatOrNone
  BY DEF Nothing, NoPending, Pendings, PendingKinds, Stages, SeatOrNone
<1>2. /\ h \in Hands /\ h.dealt = dealt /\ h.button = dealer /\ h.id = id
      /\ h.bet = Nothing
  BY <1>1 DEF NewHand, Hands
<1>3. Accounted(h)
  BY <1>1, <1>2 DEF NewHand, Accounted
<1> HIDE DEF h
<1>4. sb \in dealt
  BY <1>2, NextInFacts DEF SmallBlindSeat, NextSeatedAfter, SeatOrNone
<1>5. bb \in dealt /\ bb # sb
  <2>1. PICK other \in dealt : other # sb
    OBVIOUS
  <2> HIDE DEF sb
  <2>2. NextIn(sb, dealt) \in dealt \ {sb}
    BY <1>4, <2>1, NextIsAnother
  <2>3. bb = NextIn(sb, dealt)
    BY <1>2 DEF BigBlindSeat, NextSeatedAfter, sb
  <2>4. QED
    BY <2>2, <2>3
<1> HIDE DEF sb, bb
<1>6. Accounted(dead) /\ dead.id = id /\ dead.dealt = dealt /\ dead.bet = Nothing
  <2>1. SkipNatural(D, bb) \in SUBSET h.dealt
    BY <1>2 DEF SkipNatural
  <2>2. QED
    BY <1>2, <1>3, <2>1, PostDeadBlindsSound
<1> HIDE DEF dead
<1>7. /\ Accounted(small) /\ small.id = id /\ small.dealt = dealt
      /\ small.bet[sb] <= SmallBlind
      /\ \A o \in Seats \ {sb} : small.bet[o] = 0
  <2>1. dead \in Hands /\ dead.id = id /\ dead.dealt = dealt /\ Accounted(dead)
        /\ \A o \in Seats : dead.bet[o] = 0
    BY <1>1, <1>6 DEF Accounted
  <2>2. sb \in dead.dealt /\ dead.bet[sb] = 0 /\ SmallBlind \in Nat
    BY <1>4, <2>1, ProperBlinds DEF ProperBlinds
  <2>3. /\ Accounted(small) /\ small.id = dead.id /\ small.dealt = dead.dealt
        /\ small.bet[sb] <= dead.bet[sb] + SmallBlind
        /\ \A o \in Seats \ {sb} : small.bet[o] = dead.bet[o]
    BY <2>1, <2>2, PostBlindSound
  <2> HIDE DEF small
  <2>4. QED
    BY <2>1, <2>2, <2>3
<1> HIDE DEF small
<1>8. /\ Accounted(big) /\ big.id = id /\ big.dealt = dealt
      /\ big.bet[bb] <= BigBlind
      /\ \A o \in Seats \ {bb} : big.bet[o] = small.bet[o]
  <2>1. bb \in small.dealt /\ small.bet[bb] = 0 /\ BigBlind \in Nat
    BY <1>5, <1>7, ProperBlinds DEF ProperBlinds
  <2>2. /\ Accounted(big) /\ big.id = small.id /\ big.dealt = small.dealt
        /\ big.bet[bb] <= small.bet[bb] + BigBlind
        /\ \A o \in Seats \ {bb} : big.bet[o] = small.bet[o]
    BY <1>7, <2>1, PostBlindSound
  <2> HIDE DEF big
  <2>3. QED
    BY <1>7, <2>1, <2>2
<1>9. \A s \in Seats : big.bet[s] <= BigBlind
  <2> TAKE s \in Seats
  <2>1. SmallBlind \in Nat /\ BigBlind \in Nat /\ SmallBlind <= BigBlind
    BY ProperBlinds DEF ProperBlinds
  <2>2. small.bet[sb] \in Nat
    BY <1>4, <1>7 DEF Accounted, Hands
  <2>3. CASE s = bb
    BY <1>8, <2>3
  <2>4. CASE s = sb
    BY <1>4, <1>5, <1>7, <1>8, <2>1, <2>2, <2>4
  <2>5. CASE s # bb /\ s # sb
    BY <1>7, <1>8, <2>1, <2>5
  <2>6. QED
    BY <2>3, <2>4, <2>5
<1>10. actor \in SeatOrNone
  <2>1. bb \in SeatOrNone /\ sb \in SeatOrNone
    BY <1>4, <1>5 DEF SeatOrNone
  <2>2. CanAct(big) \in SUBSET Seats
    BY <1>8 DEF CanAct
  <2>3. NextActorAfter(big, bb) \in SeatOrNone
    BY <2>1, <2>2, NextInFacts DEF NextActorAfter, SeatOrNone
  <2>4. QED
    BY <2>1, <2>3
<1> HIDE DEF big, actor
<1> DEFINE g == [big EXCEPT !.currentBet = BigBlind, !.minRaise = BigBlind,
                            !.stage = "preflop", !.toAct = actor]
<1>11. Accounted(g) /\ Covered(g) /\ g.id = id
  BY <1>1, <1>8, <1>9, <1>10, ProperBlinds DEF ProperBlinds, Accounted, Covered, Hands
<1>12. StartPreflop(h, D) = g
  BY DEF StartPreflop, big, small, dead, actor, sb, bb
<1>13. QED
  BY <1>11, <1>12 DEF Sound, h

\* No hand at all is sound.
LEMMA NoHandSound == NoHand \in Hands /\ NoHand.id = 0 /\ (ProperBlinds => Sound(NoHand))
<1>1. /\ Nothing \in [Seats -> Nat] /\ \A s \in Seats : Nothing[s] = 0
      /\ [s \in Seats |-> NoPending] \in [Seats -> Pendings]
      /\ "waiting" \in Stages /\ NoSeat \in SeatOrNone /\ 0 \in Seats
  BY MaxSeatsAssumption
  DEF Nothing, NoPending, Pendings, PendingKinds, Stages, SeatOrNone, Seats
<1>2. NoHand \in Hands
  BY <1>1 DEF NoHand, NewHand, Hands
<1>3. QED
  BY <1>1, <1>2 DEF NoHand, NewHand, Sound, Accounted, Covered
---------------------------------------------------------------------------
(* Who is paid. *)

LEMMA WinnersFacts ==
  ASSUME NEW h, Sound(h), NEW k \in Layers(h.committed, h.folded)
  PROVE  /\ Winners(h, k) \in SUBSET Seats /\ Winners(h, k) # {}
         /\ k \in Live(h.committed, h.folded) /\ k \in Seats
         /\ \A s \in Winners(h, k) :
              /\ s \in Live(h.committed, h.folded)
              /\ h.committed[k] <= h.committed[s]
              /\ \A o \in Live(h.committed, h.folded) :
                   h.committed[k] <= h.committed[o] => h.score[o] <= h.score[s]
<1> DEFINE c == h.committed
           live == Live(h.committed, h.folded)
           in == Eligible(h.committed, h.folded, k)
<1>1. c \in [Seats -> Nat] /\ h.score \in [Seats -> Int]
  BY DEF Sound, Accounted, Hands
<1>2. live \in SUBSET Seats /\ k \in live /\ c[k] \in Nat
  BY <1>1, LiveFacts
<1>3. \A s : s \in in <=> s \in live /\ c[k] <= c[s]
  BY <1>1, <1>2 DEF Eligible
<1>4. \A s : s \in Winners(h, k) <=> s \in in /\ \A o \in in : h.score[o] <= h.score[s]
  BY DEF Winners
<1> HIDE DEF in, live
<1>5. in \in SUBSET Seats /\ in # {}
  BY <1>2, <1>3
<1>6. \E s \in in : \A o \in in : h.score[o] <= h.score[s]
  BY <1>1, <1>5, LastSeat
<1>7. QED
  BY <1>2, <1>3, <1>4, <1>5, <1>6 DEF live

LEMMA DivisionFacts ==
  ASSUME NEW a \in Int, NEW b \in Int, b > 0
  PROVE  a - (a % b) = b * (a \div b)
OBVIOUS

\* A pot is split among its winners to the last chip.
LEMMA SharesMakeThePot ==
  ASSUME NEW h, Sound(h), NEW k \in Layers(h.committed, h.folded)
  PROVE  Total([s \in Seats |-> Share(h, k, s)]) = Amount(h.committed, h.folded, k)
<1> DEFINE W == Winners(h, k)
           n == Cardinality(W)
           amount == Amount(h.committed, h.folded, k)
           q == amount \div n
           r == amount % n
           share == [s \in Seats |-> Share(h, k, s)]
           one == [s \in Seats |-> IF s \in W THEN 1 ELSE 0]
           even == [s \in Seats |-> IF s \in W THEN q ELSE 0]
           odd == [s \in Seats |-> IF s \in W /\ (\A o \in W : s <= o) THEN r ELSE 0]
<1>1. W \in SUBSET Seats /\ W # {} /\ amount \in Nat
  BY WinnersFacts, AmountNat DEF Sound, Accounted, Hands
<1>2. n \in Nat \ {0}
  <2>1. IsFiniteSet(Seats)
    BY MaxSeatsAssumption, FS_Interval DEF Seats
  <2>2. IsFiniteSet(W)
    BY <1>1, <2>1, FS_Subset
  <2>3. QED
    BY <1>1, <2>2, FS_CardinalityType, FS_EmptySet
<1>3. Total(one) = n
  BY <1>1, CountIsTotal
<1>4. \A s \in Seats : share[s] = IF s \notin W THEN 0
                                  ELSE q + IF \A o \in W : s <= o THEN r ELSE 0
  BY DEF Share
<1> HIDE DEF W, n, amount, share
<1>5. q \in Nat /\ r \in Nat /\ amount = n * q + r
  <2>1. \A a \in Nat : \A b \in Nat \ {0} : a \div b \in Nat /\ a % b \in Nat
    OBVIOUS
  <2>2. amount - r = n * q
    BY <1>1, <1>2, DivisionFacts
  <2>3. q \in Nat /\ r \in Nat
    BY <1>1, <1>2, <2>1
  <2> HIDE DEF q, r
  <2>4. n * q \in Int
    BY <1>2, <2>3
  <2>5. QED
    BY <1>1, <2>2, <2>3, <2>4
<1> HIDE DEF q, r
<1>6. /\ one \in [Seats -> Int] /\ even \in [Seats -> Int] /\ odd \in [Seats -> Int]
      /\ \A s \in Seats : even[s] = q * one[s]
      /\ \A s \in Seats : /\ even[s] = IF s \in W THEN q ELSE 0
                          /\ odd[s] = IF s \in W /\ (\A o \in W : s <= o) THEN r ELSE 0
                          /\ even[s] \in Int /\ odd[s] \in Int
  BY <1>5
<1> HIDE DEF one, even, odd
<1>7. Total(even) = q * n
  BY <1>3, <1>5, <1>6, TotalTimes
<1>8. Total(odd) = r
  <2> DEFINE number == [s \in Seats |-> s]
  <2>1. number \in [Seats -> Int] /\ \A s \in Seats : number[s] = s
    BY SeatsFacts
  <2> HIDE DEF number
  <2>2. PICK w \in W : \A o \in W : number[w] <= number[o]
    BY <1>1, <2>1, FirstSeat
  <2>3. w \in Seats /\ \A o \in W : w <= o
    BY <1>1, <2>1, <2>2
  <2>4. \A s \in Seats \ {w} : ~(s \in W /\ \A o \in W : s <= o)
    BY <2>2, <2>3, SeatsFacts
  <2>5. odd[w] = r /\ \A s \in Seats \ {w} : odd[s] = 0
    BY <1>6, <2>2, <2>3, <2>4
  <2>6. QED
    BY <1>5, <1>6, <2>3, <2>5, TotalSingle
<1>9. share \in [Seats -> Int] /\ \A s \in Seats : share[s] = even[s] + odd[s]
  <2>1. \A s \in Seats : share[s] = even[s] + odd[s]
    BY <1>4, <1>5, <1>6
  <2>2. \A s \in Seats : even[s] + odd[s] \in Int
    BY <1>6
  <2>3. QED
    BY <2>1, <2>2 DEF share
<1>10. Total(share) = Total(even) + Total(odd)
  BY <1>6, <1>9, TotalPlus
<1>11. Total(share) = amount
  BY <1>2, <1>5, <1>7, <1>8, <1>10
<1>12. QED
  BY <1>11 DEF share, amount

\* What a settlement pays each seat.
PrizeOf(h) ==
  [s \in Seats |-> Total([k \in Seats |->
     IF k \in Layers(h.committed, h.folded) THEN Share(h, k, s) ELSE 0])]

LEMMA PrizeFacts ==
  ASSUME NEW h, Sound(h)
  PROVE  /\ PrizeOf(h) \in [Seats -> Nat]
         /\ Settle(h) = [Credit(h, PrizeOf(h)) EXCEPT !.stage = "showdown"]
<1> DEFINE layers == Layers(h.committed, h.folded)
           Part(s) == [k \in Seats |-> IF k \in layers THEN Share(h, k, s) ELSE 0]
<1>1. \A k \in layers : k \in Live(h.committed, h.folded)
  BY DEF Layers
<1>2. \A s \in Seats : Part(s) \in [Seats -> Nat]
  BY <1>1, ShareNat
<1>3. PrizeOf(h) \in [Seats -> Nat]
  BY <1>2, TotalNat DEF PrizeOf
<1>4. QED
  BY <1>3 DEF Settle, PrizeOf

\* A settlement credits exactly the pot, however pots, ties and odd chips fall
\* (hand.go:576-655), as long as a seat that put something in has not folded.
THEOREM SettlePaysThePot ==
  ASSUME NEW h, Sound(h), Live(h.committed, h.folded) # {}
  PROVE  Total(PrizeOf(h)) = Pot(h)
<1> DEFINE c == h.committed
           layers == Layers(c, h.folded)
           M == [s \in Seats |-> [k \in Seats |-> IF k \in layers THEN Share(h, k, s) ELSE 0]]
           byRow == [s \in Seats |-> Total([k \in Seats |-> M[s][k]])]
           byColumn == [k \in Seats |-> Total([s \in Seats |-> M[s][k]])]
<1>1. /\ c \in [Seats -> Nat]
      /\ \A k \in layers : k \in Live(c, h.folded) /\ k \in Seats
  BY LiveFacts DEF Sound, Accounted, Hands
<1>2. /\ M \in [Seats -> [Seats -> Int]]
      /\ \A s, k \in Seats : M[s][k] = IF k \in layers THEN Share(h, k, s) ELSE 0
  BY <1>1, ShareNat
<1>3. \A s \in Seats : M[s] = [k \in Seats |-> IF k \in layers THEN Share(h, k, s) ELSE 0]
  OBVIOUS
<1> HIDE DEF M
<1>4. PrizeOf(h) = byRow
  <2>1. \A s \in Seats : M[s] = [k \in Seats |-> M[s][k]]
    BY <1>2
  <2>2. \A s \in Seats : PrizeOf(h)[s] = Total(M[s])
    BY <1>3 DEF PrizeOf
  <2>3. \A s \in Seats : byRow[s] = PrizeOf(h)[s]
    BY <2>1, <2>2
  <2>4. PrizeOf(h) = [s \in Seats |-> PrizeOf(h)[s]]
    BY DEF PrizeOf
  <2>5. QED
    BY <2>3, <2>4
<1>5. byColumn = PotsOf(c, h.folded, layers)
  <2>1. ASSUME NEW k \in Seats
        PROVE  byColumn[k] = IF k \in layers THEN Amount(c, h.folded, k) ELSE 0
    <3> DEFINE column == [s \in Seats |-> M[s][k]]
    <3>1. byColumn[k] = Total(column)
      OBVIOUS
    <3>2. CASE k \in layers
      <4>1. column = [s \in Seats |-> Share(h, k, s)]
        BY <1>2, <3>2
      <4>2. QED
        BY <3>1, <3>2, <4>1, SharesMakeThePot
    <3>3. CASE k \notin layers
      <4>1. column = Nothing
        BY <1>2, <3>3 DEF Nothing
      <4>2. QED
        BY <3>1, <3>3, <4>1, NothingIsNothing
    <3>4. QED
      BY <3>2, <3>3
  <2>2. QED
    BY <2>1 DEF PotsOf
<1>6. Total(byRow) = Total(byColumn)
  BY <1>2, TotalSwap
<1>7. Total(byColumn) = Total(c)
  BY <1>1, <1>5, PotsHoldEverything
<1>8. QED
  BY <1>4, <1>6, <1>7 DEF Pot

\* Only winners of a layer are paid.
LEMMA PaidWon ==
  ASSUME NEW h, Sound(h), NEW s \in Seats, PrizeOf(h)[s] > 0
  PROVE  \E k \in Layers(h.committed, h.folded) : s \in Winners(h, k)
<1> DEFINE layers == Layers(h.committed, h.folded)
           part == [k \in Seats |-> IF k \in layers THEN Share(h, k, s) ELSE 0]
<1> SUFFICES ASSUME \A k \in layers : s \notin Winners(h, k) PROVE FALSE
  OBVIOUS
<1>1. \A k \in layers : Share(h, k, s) = 0
  BY DEF Share
<1>2. part = Nothing
  BY <1>1 DEF Nothing
<1>3. PrizeOf(h)[s] = Total(part)
  BY DEF PrizeOf
<1>4. QED
  BY <1>2, <1>3, NothingIsNothing

\* Nobody gets more than the pots up to its own layer hold.
LEMMA PaidWithin ==
  ASSUME NEW h, Sound(h), NEW s \in Live(h.committed, h.folded),
         NEW j \in Layers(h.committed, h.folded), h.committed[j] = h.committed[s]
  PROVE  PrizeOf(h)[s] <= Reach(h.committed, h.folded, j)
<1> DEFINE c == h.committed
           layers == Layers(c, h.folded)
           part == [k \in Seats |-> IF k \in layers THEN Share(h, k, s) ELSE 0]
           pots == PotsOf(c, h.folded, UpTo(c, h.folded, j))
<1>1. /\ c \in [Seats -> Nat] /\ s \in Seats
      /\ \A k \in layers : k \in Live(c, h.folded) /\ k \in Seats
  BY LiveFacts DEF Sound, Accounted, Hands
<1>2. /\ part \in [Seats -> Nat]
      /\ \A k \in Seats : part[k] = IF k \in layers THEN Share(h, k, s) ELSE 0
  BY <1>1, ShareNat
<1>3. /\ pots \in [Seats -> Nat]
      /\ \A k \in Seats : pots[k] = IF k \in UpTo(c, h.folded, j)
                                    THEN Amount(c, h.folded, k) ELSE 0
  <2>1. UpTo(c, h.folded, j) \in SUBSET layers
    BY DEF UpTo
  <2>2. QED
    BY <1>1, <2>1, PotsOfFacts
<1>4. PrizeOf(h)[s] = Total(part)
  BY <1>1 DEF PrizeOf
<1>5. \A k \in layers : Share(h, k, s) <= Amount(c, h.folded, k)
  <2> TAKE k \in layers
  <2> DEFINE share == [o \in Seats |-> Share(h, k, o)]
  <2>1. share \in [Seats -> Nat] /\ share[s] = Share(h, k, s)
    BY <1>1, ShareNat
  <2>2. Total(share) = Amount(c, h.folded, k)
    BY SharesMakeThePot
  <2> HIDE DEF share
  <2>3. QED
    BY <1>1, <2>1, <2>2, TotalBounds
<1>6. \A k \in layers : Share(h, k, s) # 0 => k \in UpTo(c, h.folded, j)
  <2> TAKE k \in layers
  <2> HAVE Share(h, k, s) # 0
  <2>1. s \in Winners(h, k)
    BY DEF Share
  <2>2. c[k] <= c[s]
    BY <2>1, WinnersFacts
  <2>3. QED
    BY <2>2 DEF UpTo
<1>7. \A k \in layers : Amount(c, h.folded, k) \in Nat
  BY <1>1, AmountNat
<1> HIDE DEF part, pots
<1>8. \A k \in Seats : part[k] <= pots[k]
  BY <1>2, <1>3, <1>5, <1>6, <1>7
<1>9. Total(part) <= Total(pots)
  BY <1>2, <1>3, <1>8, TotalLess
<1>10. QED
  BY <1>1, <1>4, <1>9, Telescope DEF pots
---------------------------------------------------------------------------
(* The actor. *)

\* A machine is what the actor has in hand while it handles one command.
Machines == [hand : Hands, turn : Turns, due : [Commands -> Nat], ask : BOOLEAN]
Fit(m) == m \in Machines /\ Sound(m.hand) /\ m.hand.id \in HandIds

\* n is a machine that m may become: sound, and of the same hand.
Onward(m, n) == Fit(n) /\ n.hand.id = m.hand.id
---------------------------------------------------------------------------
LEMMA CommandFacts ==
  ASSUME NEW id \in HandIds
  PROVE  /\ StartCmd \in Commands /\ AdvanceCmd(id) \in Commands
         /\ EndCmd(id) \in Commands
         /\ \A s \in SeatOrNone : TimeoutCmd(id, s) \in Commands
BY TableAssumption
DEF HandIds, Commands, Command, StartCmd, AdvanceCmd, EndCmd, TimeoutCmd, SeatOrNone

LEMMA DueFacts ==
  ASSUME NEW d \in [Commands -> Nat], NEW c \in Commands
  PROVE  /\ Schedule(d, c) \in [Commands -> Nat]
         /\ d[c] > 0 => Consume(d, c) \in [Commands -> Nat]
BY DEF Schedule, Consume

LEMMA NoTurnFacts == NoTurn \in Turns /\ NoPlayer \in Players
BY TableAssumption DEF NoTurn, Turns, HandIds, SeatOrNone, NoPlayer, Players

LEMMA FitFacts ==
  ASSUME NEW m, Fit(m)
  PROVE  /\ m.hand \in Hands /\ m.turn \in Turns /\ m.due \in [Commands -> Nat]
         /\ m.ask \in BOOLEAN /\ Sound(m.hand) /\ m.hand.id \in HandIds
         /\ m.hand.toAct \in SeatOrNone
BY DEF Fit, Machines, Hands

LEMMA OnwardTransitive ==
  ASSUME NEW m, NEW n, NEW o, Onward(m, n), Onward(n, o)
  PROVE  Onward(m, o)
BY DEF Onward

\* Replacing the parts of a machine one by one.
LEMMA Replace ==
  ASSUME NEW m, Fit(m)
  PROVE  /\ \A h : Kept(m.hand, h) => Onward(m, [m EXCEPT !.hand = h])
         /\ \A t \in Turns : Onward(m, [m EXCEPT !.turn = t])
         /\ \A d \in [Commands -> Nat] : Onward(m, [m EXCEPT !.due = d])
         /\ \A a \in BOOLEAN : Onward(m, [m EXCEPT !.ask = a])
<1>1. \A h : Kept(m.hand, h) => h \in Hands /\ h.id \in HandIds /\ Sound(h)
  BY FitFacts DEF Kept, Sound, Accounted
<1>2. \A h : Kept(m.hand, h) => Onward(m, [m EXCEPT !.hand = h])
  <2> TAKE h
  <2> HAVE Kept(m.hand, h)
  <2>1. [m EXCEPT !.hand = h] \in Machines /\ [m EXCEPT !.hand = h].hand = h
    BY <1>1, FitFacts DEF Fit, Machines
  <2>2. QED
    BY <1>1, <2>1 DEF Onward, Fit, Kept
<1>3. \A t \in Turns : Onward(m, [m EXCEPT !.turn = t])
  BY FitFacts DEF Onward, Fit, Machines
<1>4. \A d \in [Commands -> Nat] : Onward(m, [m EXCEPT !.due = d])
  BY FitFacts DEF Onward, Fit, Machines
<1>5. \A a \in BOOLEAN : Onward(m, [m EXCEPT !.ask = a])
  BY FitFacts DEF Onward, Fit, Machines
<1>6. QED
  BY <1>2, <1>3, <1>4, <1>5

LEMMA MachineFit ==
  ASSUME NEW h, Sound(h), h.id \in HandIds, NEW t \in Turns, NEW d \in [Commands -> Nat]
  PROVE  Fit(Machine(h, t, d)) /\ Machine(h, t, d).hand = h
BY DEF Machine, Fit, Machines, Sound, Accounted
---------------------------------------------------------------------------
\* The ends of a hand: the new hand, and one command more.
LEMMA PaidOut ==
  ASSUME NEW m, Fit(m)
  PROVE  Onward(m, EndByFoldOut(m)) /\ Onward(m, SettleAndBroadcast(m))
<1>1. Kept(m.hand, AwardSinglePot(m.hand)) /\ Kept(m.hand, Settle(m.hand))
  BY FitFacts, AwardSound, SettleSound
<1> DEFINE d == Schedule(m.due, EndCmd(m.hand.id))
<1>2. d \in [Commands -> Nat]
  BY FitFacts, CommandFacts, DueFacts
<1> HIDE DEF d
<1>3. \A h : Kept(m.hand, h) => Onward(m, [[m EXCEPT !.hand = h] EXCEPT !.due = d])
  <2> TAKE h
  <2> HAVE Kept(m.hand, h)
  <2>1. Onward(m, [m EXCEPT !.hand = h])
    BY Replace
  <2>2. Onward([m EXCEPT !.hand = h], [[m EXCEPT !.hand = h] EXCEPT !.due = d])
    BY <1>2, <2>1, Replace DEF Onward
  <2>3. QED
    BY <2>1, <2>2, OnwardTransitive
<1>4. /\ EndByFoldOut(m) = [[m EXCEPT !.hand = AwardSinglePot(m.hand)] EXCEPT !.due = d]
      /\ SettleAndBroadcast(m) = [[m EXCEPT !.hand = Settle(m.hand)] EXCEPT !.due = d]
  BY DEF EndByFoldOut, SettleAndBroadcast, d
<1>5. QED
  BY <1>1, <1>3, <1>4

LEMMA MaybeFinishFit ==
  ASSUME NEW m, Fit(m)
  PROVE  Onward(m, MaybeFinishStreetOrHand(m))
<1> DEFINE moved == [m EXCEPT !.hand = Advance(m.hand)]
           asking == [moved EXCEPT !.ask = TRUE]
           closing == [m EXCEPT !.due = Schedule(m.due, AdvanceCmd(m.hand.id))]
<1>1. Onward(m, EndByFoldOut(m))
  BY PaidOut
<1>2. Onward(m, asking)
  <2>1. Onward(m, moved)
    BY FitFacts, PointsSound, Replace
  <2> HIDE DEF moved
  <2>2. Onward(moved, asking)
    BY <2>1, Replace DEF Onward
  <2>3. QED
    BY <2>1, <2>2, OnwardTransitive
<1>3. Onward(m, closing)
  <2>1. Schedule(m.due, AdvanceCmd(m.hand.id)) \in [Commands -> Nat]
    BY FitFacts, CommandFacts, DueFacts
  <2>2. QED
    BY <2>1, Replace
<1>4. /\ asking = [m EXCEPT !.hand = Advance(m.hand), !.ask = TRUE]
      /\ closing = [m EXCEPT !.due = Schedule(@, AdvanceCmd(m.hand.id))]
  OBVIOUS
<1> HIDE DEF asking, closing, moved
<1>5. QED
  BY <1>1, <1>2, <1>3, <1>4 DEF MaybeFinishStreetOrHand

\* An action the hand accepts.
LEMMA ActFit ==
  ASSUME NEW m, Fit(m), NEW s, NEW intent \in [kind : ActionKinds, amount : Int],
         Accepts(m.hand, s, intent)
  PROVE  Onward(m, Act(m, s, intent))
<1> DEFINE g == Apply(m.hand, s, intent)
           h == ClearPending(g, s)
           m1 == [m EXCEPT !.hand = h]
           m2 == [m1 EXCEPT !.turn = NoTurn]
           m3 == [m2 EXCEPT !.ask = FALSE]
<1>1. Kept(m.hand, g) /\ s \in Seats
  BY FitFacts, ApplySound DEF Sound, Accounted, Hands
<1> HIDE DEF g
<1>2. Kept(g, h)
  <2>1. NoPending \in Pendings
    BY DEF NoPending, Pendings, PendingKinds
  <2>2. QED
    BY <1>1, <2>1, PendingSound DEF Kept
<1>3. Kept(m.hand, h)
  BY <1>1, <1>2 DEF Kept
<1> HIDE DEF h
<1>4. Onward(m, m1)
  BY <1>3, Replace
<1> HIDE DEF m1
<1>5. Onward(m1, m2)
  BY <1>4, Replace, NoTurnFacts DEF Onward
<1> HIDE DEF m2
<1>6. Onward(m2, m3)
  BY <1>5, Replace DEF Onward
<1> HIDE DEF m3
<1>7. Onward(m3, MaybeFinishStreetOrHand(m3))
  BY <1>6, MaybeFinishFit DEF Onward
<1>8. Onward(m, MaybeFinishStreetOrHand(m3))
  BY <1>4, <1>5, <1>6, <1>7, OnwardTransitive
<1>9. m3 = [m EXCEPT !.hand = ClearPending(Apply(m.hand, s, intent), s),
                     !.turn = NoTurn, !.ask = FALSE]
  BY DEF m3, m2, m1, h, g
<1>10. QED
  BY <1>8, <1>9 DEF Act
---------------------------------------------------------------------------
\* Asking the next player, as often as pre-actions fire.
LEMMA DropStaleFit ==
  ASSUME NEW m, Fit(m), m.hand.toAct # NoSeat
  PROVE  Onward(m, DropStale(m))
<1>1. m.hand.toAct \in Seats
  BY FitFacts DEF SeatOrNone
<1>2. NoPending \in Pendings
  BY DEF NoPending, Pendings, PendingKinds
<1>3. Kept(m.hand, ClearPending(m.hand, m.hand.toAct))
  BY <1>1, <1>2, FitFacts, PendingSound
<1>4. Onward(m, [m EXCEPT !.hand = ClearPending(m.hand, m.hand.toAct)])
  BY <1>3, Replace
<1>5. Onward(m, m)
  BY DEF Onward
<1>6. QED
  BY <1>4, <1>5 DEF DropStale

LEMMA ArmFit ==
  ASSUME NEW m, Fit(m)
  PROVE  Onward(m, ArmTurnTimer(m))
<1>1. [hand |-> m.hand.id, seat |-> m.hand.toAct, live |-> TRUE] \in Turns
  BY FitFacts DEF Turns
<1>2. QED
  BY <1>1, Replace DEF ArmTurnTimer

LEMMA BroadcastFit ==
  ASSUME NEW m, Fit(m)
  PROVE  Onward(m, BroadcastToAct(m))
<1>1. CASE m.hand.toAct = NoSeat
  BY <1>1, Replace DEF BroadcastToAct
<1>2. CASE m.hand.toAct # NoSeat /\ Fires(m)
  <2>1. Accepts(m.hand, m.hand.toAct, Resolved(m))
    BY <1>2 DEF Fires
  <2>2. Resolved(m) \in [kind : ActionKinds, amount : Int]
    BY <2>1, FitFacts, ResolvedIntent DEF Resolved
  <2>3. QED
    BY <1>2, <2>1, <2>2, ActFit DEF BroadcastToAct
<1>3. CASE m.hand.toAct # NoSeat /\ ~Fires(m)
  <2> DEFINE n == DropStale(m)
             o == ArmTurnTimer(n)
             p == [o EXCEPT !.ask = FALSE]
  <2>1. Onward(m, n)
    BY <1>3, DropStaleFit
  <2> HIDE DEF n
  <2>2. Onward(n, o)
    BY <2>1, ArmFit DEF Onward
  <2> HIDE DEF o
  <2>3. Onward(o, p)
    BY <2>2, Replace DEF Onward
  <2> HIDE DEF p
  <2>4. Onward(m, p)
    BY <2>1, <2>2, <2>3, OnwardTransitive
  <2>5. BroadcastToAct(m) = p
    BY <1>3 DEF BroadcastToAct, p, o, n
  <2>6. QED
    BY <2>4, <2>5
<1>4. QED
  BY <1>1, <1>2, <1>3

LEMMA AskFit ==
  ASSUME NEW m, Fit(m)
  PROVE  Onward(m, Ask(m))
<1>1. Ask(m) = BroadcastToAct(m) \/ Ask(m) = m
  BY Zenon DEF Ask
<1>2. Onward(m, m)
  BY DEF Onward
<1>3. QED
  BY <1>1, <1>2, BroadcastFit

LEMMA ChainFit ==
  ASSUME NEW m, Fit(m)
  PROVE  Onward(m, Chain(m))
<1>1. \A n : Onward(m, n) => Onward(m, Ask(n))
  BY AskFit, OnwardTransitive DEF Onward
<1>2. Onward(m, m)
  BY DEF Onward
<1>3. Onward(m, Ask(Ask(Ask(m))))
  BY <1>1, <1>2
<1>4. Onward(m, Ask(Ask(Ask(Ask(Ask(Ask(Ask(m))))))))
  BY <1>1, <1>3
<1>5. QED
  BY <1>4 DEF Chain

LEMMA NextStreetFit ==
  ASSUME NEW m, Fit(m)
  PROVE  Onward(m, NextStreet(m))
<1>1. CASE m.hand.stage = "river"
  BY <1>1, PaidOut DEF NextStreet
<1>2. CASE m.hand.stage # "river"
  <2> DEFINE dealt == DealStreet(m.hand)
             h == ResetForNextStreet(dealt)
             n == [m EXCEPT !.hand = h]
             asking == [n EXCEPT !.ask = TRUE]
             closing == [n EXCEPT !.due = Schedule(@, AdvanceCmd(m.hand.id))]
  <2>1. Kept(m.hand, h)
    <3>1. Kept(m.hand, dealt)
      BY FitFacts, PointsSound
    <3> HIDE DEF dealt
    <3>2. Kept(dealt, h)
      BY <3>1, PointsSound DEF Kept
    <3>3. QED
      BY <3>1, <3>2 DEF Kept
  <2> HIDE DEF h
  <2>2. Onward(m, n)
    BY <2>1, Replace
  <2> HIDE DEF n
  <2>3. Onward(m, Chain(asking))
    <3>1. Onward(n, asking)
      BY <2>2, Replace DEF Onward
    <3> HIDE DEF asking
    <3>2. Onward(asking, Chain(asking))
      BY <3>1, ChainFit DEF Onward
    <3>3. QED
      BY <2>2, <3>1, <3>2, OnwardTransitive
  <2>4. Onward(m, SettleAndBroadcast(n))
    BY <2>2, PaidOut, OnwardTransitive DEF Onward
  <2>5. Onward(m, closing)
    <3>1. Schedule(n.due, AdvanceCmd(m.hand.id)) \in [Commands -> Nat]
      BY <2>2, FitFacts, CommandFacts, DueFacts DEF Onward
    <3>2. Onward(n, closing)
      BY <2>2, <3>1, Replace DEF Onward
    <3>3. QED
      BY <2>2, <3>2, OnwardTransitive
  <2>6. \/ NextStreet(m) = Chain(asking)
        \/ NextStreet(m) = SettleAndBroadcast(n)
        \/ NextStreet(m) = closing
    BY <1>2, Zenon DEF NextStreet, n, h, dealt, asking, closing
  <2>7. QED
    BY <2>3, <2>4, <2>5, <2>6
<1>3. QED
  BY <1>1, <1>2

LEMMA LeaveHandFit ==
  ASSUME TypeOK, Sound(hand), NEW s \in NotFolded(hand)
  PROVE  LeaveHand(s).hand.id = hand.id /\ Fit(LeaveHand(s))
<1> DEFINE folded == Fold(hand, s)
           gone == FoldLeaver(hand, s)
           m == IF hand.toAct = s THEN Machine(Advance(gone), NoTurn, due)
                ELSE Machine(gone, turn, due)
<1>1. s \in hand.dealt /\ s \in Seats
  BY DEF NotFolded, Sound, Accounted, Hands
<1>2. Kept(hand, folded)
  BY <1>1, FoldSound
<1>3. Kept(hand, gone)
  <2> HIDE DEF folded
  <2>1. NoPending \in Pendings
    BY DEF NoPending, Pendings, PendingKinds
  <2>2. Kept(folded, ClearPending(folded, s))
    BY <1>1, <1>2, <2>1, PendingSound DEF Kept
  <2>3. QED
    BY <1>2, <2>2 DEF Kept, FoldLeaver, folded
<1> HIDE DEF gone
<1>4. Kept(hand, Advance(gone))
  BY <1>3, PointsSound DEF Kept
<1>5. Fit(m) /\ m.hand.id = hand.id
  <2>1. hand.id \in HandIds /\ turn \in Turns /\ due \in [Commands -> Nat]
    BY DEF TypeOK
  <2>2. Fit(Machine(gone, turn, due)) /\ Machine(gone, turn, due).hand = gone
    BY <1>3, <2>1, MachineFit DEF Kept
  <2>3. /\ Fit(Machine(Advance(gone), NoTurn, due))
        /\ Machine(Advance(gone), NoTurn, due).hand = Advance(gone)
    BY <1>4, <2>1, MachineFit, NoTurnFacts DEF Kept
  <2>4. QED
    BY <1>3, <1>4, <2>2, <2>3 DEF Kept
<1> HIDE DEF m
<1>6. Onward(m, MaybeFinishStreetOrHand(m))
  BY <1>5, MaybeFinishFit
<1>7. Onward(m, Chain(MaybeFinishStreetOrHand(m)))
  BY <1>6, ChainFit, OnwardTransitive DEF Onward
<1>8. LeaveHand(s) = Chain(MaybeFinishStreetOrHand(m))
  BY DEF LeaveHand, m, gone
<1>9. QED
  BY <1>5, <1>7, <1>8 DEF Onward
---------------------------------------------------------------------------
(* The inductive invariant.  TypeOK alone is not inductive: that a stack     *)
(* stays a natural number when a bet is paid needs bets within the level and *)
(* the seats to act among those dealt in, which is what Sound adds.          *)
Inv == TypeOK /\ Sound(hand)

\* What a command does to the hand, the turn and the queue.
LEMMA BecomeInv ==
  ASSUME NEW m, Fit(m), Become(m)
  PROVE  /\ hand' \in Hands /\ hand'.id \in HandIds /\ Sound(hand')
         /\ turn' \in Turns /\ due' \in [Commands -> Nat]
BY FitFacts DEF Become

LEMMA InitInv == ProperBlinds /\ Init => Inv
<1> SUFFICES ASSUME ProperBlinds, Init PROVE Inv
  OBVIOUS
<1>1. /\ NoHand \in Hands /\ Sound(NoHand) /\ NoHand.id = 0
  BY NoHandSound DEF Sound, Accounted
<1>2. 0 \in HandIds
  BY TableAssumption DEF HandIds
<1>3. QED
  BY <1>1, <1>2, NoTurnFacts DEF Init, Inv, TypeOK, SeatOrNone

LEMMA ScheduleStartFacts ==
  ASSUME TypeOK, NEW ss
  PROVE  ScheduleStart(ss) \in [Commands -> Nat]
<1>1. 0 \in HandIds /\ due \in [Commands -> Nat]
  BY TableAssumption DEF HandIds, TypeOK
<1>2. StartCmd \in Commands
  BY <1>1, CommandFacts
<1>3. QED
  BY <1>1, <1>2, DueFacts DEF ScheduleStart

LEMMA SitInv ==
  ASSUME Inv, NEW u \in Users, NEW chips \in BuyIns, Sit(u, chips)
  PROVE  Inv'
<1>1. PICK s \in Seats :
        seats' = [seats EXCEPT ![s] =
            [NoPlayer EXCEPT !.user = u, !.stack = chips, !.bank = TimeBankInit,
                             !.owes = HandOn \/ button >= 0]]
  BY DEF Sit
<1>2. [NoPlayer EXCEPT !.user = u, !.stack = chips, !.bank = TimeBankInit,
                       !.owes = HandOn \/ button >= 0] \in Players
  <2>1. chips \in Nat /\ TimeBankInit \in Nat /\ u \in Users
    BY TableAssumption
  <2>2. (HandOn \/ button >= 0) \in BOOLEAN
    OBVIOUS
  <2> DEFINE owes == HandOn \/ button >= 0
  <2> HIDE DEF owes
  <2>3. [NoPlayer EXCEPT !.user = u, !.stack = chips, !.bank = TimeBankInit,
                         !.owes = owes] \in Players
    BY <2>1, <2>2 DEF owes, NoPlayer, Players
  <2>4. QED
    BY <2>3 DEF owes
<1>3. seats' \in [Seats -> Players]
  BY <1>1, <1>2 DEF Inv, TypeOK
<1>4. due' \in [Commands -> Nat]
  BY ScheduleStartFacts DEF Sit, Inv
<1>5. /\ seatedCount' = seatedCount + 1 /\ hand' = hand /\ button' = button
      /\ turn' = turn /\ hands' = hands
  BY DEF Sit
<1>6. QED
  BY <1>3, <1>4, <1>5 DEF Inv, TypeOK

LEMMA LeaveInv ==
  ASSUME Inv, NEW u \in Users, Leave(u)
  PROVE  Inv'
<1>1. PICK s \in Seats :
        /\ seats' = [seats EXCEPT ![s] = NoPlayer]
        /\ seatedCount' = seatedCount - 1
        /\ IF s \in NotFolded(hand) THEN Become(LeaveHand(s)) ELSE UNCHANGED <<hand, turn, due>>
        /\ UNCHANGED <<button, hands>>
  BY DEF Leave
<1>2. seats' \in [Seats -> Players] /\ seatedCount' \in Int
  BY <1>1, NoTurnFacts DEF Inv, TypeOK
<1>3. /\ hand' \in Hands /\ hand'.id \in HandIds /\ Sound(hand')
      /\ turn' \in Turns /\ due' \in [Commands -> Nat]
  <2>1. CASE s \in NotFolded(hand)
    BY <1>1, <2>1, LeaveHandFit, BecomeInv DEF Inv
  <2>2. CASE s \notin NotFolded(hand)
    BY <1>1, <2>2 DEF Inv, TypeOK
  <2>3. QED
    BY <2>1, <2>2
<1>4. QED
  BY <1>1, <1>2, <1>3 DEF Inv, TypeOK

LEMMA SitOutInInv ==
  ASSUME Inv, NEW u \in Users, SitOut(u) \/ SitIn(u)
  PROVE  Inv'
<1>1. CASE SitOut(u)
  <2>1. PICK s \in Seats : seats' = [seats EXCEPT ![s].out = TRUE]
    BY <1>1 DEF SitOut
  <2>2. seats' \in [Seats -> Players]
    BY <2>1 DEF Inv, TypeOK, Players
  <2>3. QED
    BY <1>1, <2>2 DEF SitOut, Inv, TypeOK
<1>2. CASE SitIn(u)
  <2>1. PICK s \in Seats :
          seats' = [seats EXCEPT ![s] = [@ EXCEPT !.out = FALSE, !.missed = 0,
                                                  !.owes = TRUE, !.timeouts = 0]]
    BY <1>2 DEF SitIn
  <2>2. [seats[s] EXCEPT !.out = FALSE, !.missed = 0,
                         !.owes = TRUE, !.timeouts = 0] \in Players
    BY DEF Inv, TypeOK, Players
  <2>3. seats' \in [Seats -> Players]
    BY <2>1, <2>2 DEF Inv, TypeOK
  <2>4. due' \in [Commands -> Nat]
    BY <1>2, ScheduleStartFacts DEF SitIn, Inv
  <2>5. QED
    BY <1>2, <2>3, <2>4 DEF SitIn, Inv, TypeOK
<1>3. QED
  BY <1>1, <1>2
---------------------------------------------------------------------------
LEMMA StartHandInv ==
  ASSUME Inv, StartHand
  PROVE  Inv' /\ hand'.id = hands + 1
<1> DEFINE in == Participants(seats)
           chips == [s \in Seats |-> IF s \in in THEN seats[s].stack ELSE 0]
           owing == {s \in in : seats[s].owes}
           start == Consume(due, StartCmd)
<1>1. in \in SUBSET Seats /\ owing \in SUBSET in /\ chips \in [Seats -> Nat]
  BY DEF Participants, Inv, TypeOK, Players
<1>2. \E a, b \in in : a # b
  <2>1. Cardinality(in) >= 2
    BY DEF StartHand, StartReady, CanStart, ActivePlayers
  <2>2. IsFiniteSet(in)
    <3>1. IsFiniteSet(Seats)
      BY MaxSeatsAssumption, FS_Interval DEF Seats
    <3> HIDE DEF in
    <3>2. QED
      BY <1>1, <3>1, FS_Subset
  <2> HIDE DEF in
  <2>3. Cardinality({}) = 0 /\ \A a : Cardinality({a}) = 1
    BY FS_EmptySet, FS_Singleton
  <2>4. ~(Cardinality({}) >= 2) /\ \A a : ~(Cardinality({a}) >= 2)
    BY <2>3
  <2>5. in # {} /\ \A a : in # {a}
    BY <2>1, <2>4, Zenon
  <2>6. QED
    BY <2>5
<1>3. button' = NextIn(button, in) /\ button' \in in
  <2>1. button \in SeatOrNone /\ in # {}
    BY <1>2 DEF Inv, TypeOK
  <2>2. QED
    BY <1>1, <2>1, NextInFacts DEF StartHand
<1>4. start \in [Commands -> Nat]
  <2>1. StartCmd \in Commands
    BY CommandFacts, TableAssumption DEF HandIds
  <2>2. due[StartCmd] > 0
    BY DEF StartHand, StartReady
  <2>3. QED
    BY <2>1, <2>2, DueFacts DEF Inv, TypeOK
<1>5. hands + 1 \in HandIds /\ hands + 1 \in Nat
  BY TableAssumption DEF StartHand, StartReady, HandIds, Inv, TypeOK
<1> HIDE DEF in, chips, owing, start
<1>6. PICK score \in Deals :
        LET h == NewHand(hands + 1, button', in, chips, score)
            m == Machine(StartPreflop(h, owing), turn, start)
        IN  Become(Chain([m EXCEPT !.ask = TRUE]))
  BY DEF StartHand, in, chips, owing, start
<1> DEFINE h == NewHand(hands + 1, button', in, chips, score)
           g == StartPreflop(h, owing)
           m == Machine(g, turn, start)
           asking == [m EXCEPT !.ask = TRUE]
<1>7. Sound(g) /\ g.id = hands + 1
  <2>1. score \in [Seats -> Nat] /\ button' \in Seats
    BY <1>1, <1>3, TableAssumption
  <2>2. PICK a, b \in in : a # b
    BY <1>2
  <2>3. ProperBlinds
    BY DEF Inv, Sound, Accounted
  <2>4. QED
    BY <1>1, <1>3, <1>5, <2>1, <2>2, <2>3, StartSound
<1> HIDE DEF g
<1>8. Fit(m) /\ m.hand = g
  BY <1>4, <1>5, <1>7, MachineFit DEF Inv, TypeOK
<1> HIDE DEF m
<1>9. Onward(m, asking)
  BY <1>8, Replace
<1> HIDE DEF asking
<1>10. Fit(Chain(asking)) /\ Chain(asking).hand.id = hands + 1
  BY <1>7, <1>8, <1>9, ChainFit DEF Onward
<1>11. Become(Chain(asking))
  BY <1>6 DEF asking, m, g
<1>12. /\ hand' \in Hands /\ hand'.id \in HandIds /\ Sound(hand')
       /\ turn' \in Turns /\ due' \in [Commands -> Nat] /\ hand'.id = hands + 1
  BY <1>10, <1>11, BecomeInv DEF Become
<1>13. seats' \in [Seats -> Players]
  <2>1. \A s \in Seats : [seats[s] EXCEPT !.owes = FALSE] \in Players
    BY DEF Inv, TypeOK, Players
  <2>2. seats' = [s \in Seats |-> IF s \in in THEN [seats[s] EXCEPT !.owes = FALSE]
                                  ELSE seats[s]]
    BY DEF StartHand, in
  <2>3. QED
    BY <2>1, <2>2 DEF Inv, TypeOK
<1>14. button' \in SeatOrNone
  BY <1>1, <1>3 DEF SeatOrNone
<1>15. hands' = hands + 1 /\ seatedCount' = seatedCount
  BY DEF StartHand
<1>16. QED
  BY <1>5, <1>12, <1>13, <1>14, <1>15 DEF Inv, TypeOK

LEMMA AdvanceStreetInv ==
  ASSUME Inv, AdvanceStreet
  PROVE  Inv' /\ hand'.id = hand.id
<1> DEFINE d == Consume(due, AdvanceCmd(hand.id))
           m == Machine(hand, turn, d)
<1>1. d \in [Commands -> Nat]
  BY CommandFacts, DueFacts DEF AdvanceStreet, AdvanceReady, Inv, TypeOK
<1>2. Fit(m) /\ m.hand = hand
  BY <1>1, MachineFit DEF Inv, TypeOK
<1>3. Become(NextStreet(m))
  BY DEF AdvanceStreet
<1> HIDE DEF m
<1>4. Fit(NextStreet(m)) /\ NextStreet(m).hand.id = hand.id
  BY <1>2, NextStreetFit DEF Onward
<1>5. QED
  BY <1>3, <1>4, BecomeInv DEF AdvanceStreet, Inv, TypeOK, Become

\* What a chair holds after a hand.
LEMMA AfterHandType ==
  ASSUME Inv, NEW s \in Seats
  PROVE  AfterHand(s) \in Players
<1> DEFINE chips == IF s \in hand.dealt THEN hand.stack[s] ELSE seats[s].stack
           bank == Lower(seats[s].bank + TimeBankPerHand, TimeBankCap)
<1>1. seats[s] \in Players /\ chips \in Nat
  BY DEF Inv, TypeOK, Hands, Players
<1>2. bank \in Nat
  <2>1. seats[s].bank + TimeBankPerHand \in Nat /\ TimeBankCap \in Nat
    BY <1>1, TableAssumption DEF Players
  <2>2. QED
    BY <2>1, LowerFacts
<1> HIDE DEF chips, bank
<1> DEFINE p == seats[s]
<1>3. p \in Players /\ p.missed + 1 \in Nat
  BY <1>1 DEF Players
<1>4. \A missed, b \in Nat : /\ [p EXCEPT !.stack = chips, !.missed = missed] \in Players
                             /\ [p EXCEPT !.stack = chips, !.missed = missed, !.bank = b] \in Players
  <2> HIDE DEF p
  <2>1. QED
    BY <1>1, <1>3 DEF Players
<1>5. /\ [seats[s] EXCEPT !.stack = chips, !.missed = seats[s].missed + 1] \in Players
      /\ [seats[s] EXCEPT !.stack = chips, !.missed = 0, !.bank = bank] \in Players
  BY <1>2, <1>3, <1>4
<1>6. \/ AfterHand(s) = NoPlayer
      \/ AfterHand(s) = [seats[s] EXCEPT !.stack = chips, !.missed = seats[s].missed + 1]
      \/ AfterHand(s) = [seats[s] EXCEPT !.stack = chips, !.missed = 0, !.bank = bank]
  BY DEF AfterHand, chips, bank
<1>7. QED
  BY <1>5, <1>6, NoTurnFacts

LEMMA TakenFinite == IsFiniteSet(Taken) /\ IsFiniteSet(Removed)
<1>1. IsFiniteSet(Seats)
  BY MaxSeatsAssumption, FS_Interval DEF Seats
<1>2. Taken \subseteq Seats /\ Removed \subseteq Seats
  BY DEF Taken, Removed
<1>3. QED
  BY <1>1, <1>2, FS_Subset

LEMMA EndHandInv ==
  ASSUME Inv, EndHand
  PROVE  Inv'
<1>1. seats' \in [Seats -> Players]
  BY AfterHandType DEF EndHand
<1>2. seatedCount' \in Int
  BY TakenFinite, FS_CardinalityType DEF EndHand, Inv, TypeOK
<1>3. hand' \in Hands /\ hand'.id \in HandIds /\ Sound(hand') /\ turn' \in Turns
  <2>1. ProperBlinds
    BY DEF Inv, Sound, Accounted
  <2>2. hand' = NoHand /\ turn' = NoTurn
    BY DEF EndHand
  <2>3. QED
    BY <2>1, <2>2, NoHandSound, NoTurnFacts, TableAssumption DEF HandIds
<1>4. due' \in [Commands -> Nat]
  <2> DEFINE d == Consume(due, EndCmd(hand.id))
  <2>1. d \in [Commands -> Nat]
    BY CommandFacts, DueFacts DEF EndHand, EndReady, Inv, TypeOK
  <2>2. StartCmd \in Commands
    BY CommandFacts, TableAssumption DEF HandIds
  <2> HIDE DEF d
  <2>3. Schedule(d, StartCmd) \in [Commands -> Nat]
    BY <2>1, <2>2, DueFacts
  <2>4. due' = Schedule(d, StartCmd) \/ due' = d
    BY Zenon DEF EndHand, d
  <2>5. QED
    BY <2>1, <2>3, <2>4
<1>5. QED
  BY <1>1, <1>2, <1>3, <1>4 DEF EndHand, Inv, TypeOK

\* Commands that are used up and change nothing else.
LEMMA IgnoredInv ==
  ASSUME Inv, NEW c \in Commands, due[c] > 0, due' = Consume(due, c),
         UNCHANGED <<seats, hand, button, turn, hands, seatedCount>>
  PROVE  Inv'
<1>1. due' \in [Commands -> Nat]
  BY DueFacts DEF Inv, TypeOK
<1>2. QED
  BY <1>1 DEF Inv, TypeOK

LEMMA StartInVainInv ==
  ASSUME Inv, StartInVain
  PROVE  Inv'
<1>1. StartCmd \in Commands
  BY CommandFacts, TableAssumption DEF HandIds
<1>2. QED
  BY <1>1, IgnoredInv DEF StartInVain

LEMMA StaleInv ==
  ASSUME Inv, StaleCommand \/ StaleTimeout \/ Drop
  PROVE  Inv'
<1>1. CASE StaleCommand
  <2>0. PICK id \in 1..MaxHands : \E c \in {AdvanceCmd(id), EndCmd(id)} :
          due[c] > 0 /\ due' = Consume(due, c)
    BY <1>1 DEF StaleCommand
  <2>1. PICK c \in {AdvanceCmd(id), EndCmd(id)} :
          due[c] > 0 /\ due' = Consume(due, c)
    BY <2>0
  <2>2. c \in Commands
    BY <2>1, CommandFacts, TableAssumption DEF HandIds
  <2>3. UNCHANGED <<seats, hand, button, turn, hands, seatedCount>>
    BY <1>1 DEF StaleCommand
  <2>4. QED
    BY <2>1, <2>2, <2>3, IgnoredInv
<1>2. CASE StaleTimeout
  <2>1. PICK id \in 1..MaxHands, s \in Seats :
          due[TimeoutCmd(id, s)] > 0 /\ due' = Consume(due, TimeoutCmd(id, s))
    BY <1>2 DEF StaleTimeout
  <2>2. TimeoutCmd(id, s) \in Commands
    BY <2>1, CommandFacts, TableAssumption DEF HandIds, SeatOrNone
  <2>3. UNCHANGED <<seats, hand, button, turn, hands, seatedCount>>
    BY <1>2 DEF StaleTimeout
  <2>4. QED
    BY <2>1, <2>2, <2>3, IgnoredInv
<1>3. CASE Drop
  BY <1>3, IgnoredInv DEF Drop
<1>4. QED
  BY <1>1, <1>2, <1>3
---------------------------------------------------------------------------
\* An intent carried out in the present state, whoever asks for it.
LEMMA ActNow ==
  ASSUME Inv, NEW m, Fit(m), m.hand.id = hand.id, NEW s,
         NEW intent \in [kind : ActionKinds, amount : Int], Accepts(m.hand, s, intent)
  PROVE  Fit(Chain(Act(m, s, intent))) /\ Chain(Act(m, s, intent)).hand.id = hand.id
<1>1. Onward(m, Act(m, s, intent))
  BY ActFit
<1>2. Onward(m, Chain(Act(m, s, intent)))
  BY <1>1, ChainFit, OnwardTransitive DEF Onward
<1>3. QED
  BY <1>2 DEF Onward

LEMMA ActionInv ==
  ASSUME Inv, NEW u \in Users, NEW intent \in Intents, NEW used \in BankUses,
         Action(u, intent, used)
  PROVE  Inv' /\ hand'.id = hand.id
<1>1. PICK s \in Seats :
        /\ seats' = [seats EXCEPT ![s] =
            [ConsumeBank(@, IF TurnOpen(s) THEN used ELSE 0) EXCEPT !.timeouts = 0]]
        /\ IF Accepts(hand, s, intent)
           THEN Become(Chain(Act(Machine(hand, turn, due), s, intent)))
           ELSE UNCHANGED <<hand, turn, due>>
  BY DEF Action
<1> DEFINE time == IF TurnOpen(s) THEN used ELSE 0
<1>2. [ConsumeBank(seats[s], time) EXCEPT !.timeouts = 0] \in Players
  <2>1. time \in Nat /\ seats[s] \in Players
    BY TableAssumption DEF Inv, TypeOK
  <2> HIDE DEF time
  <2>2. ConsumeBank(seats[s], time) \in Players
    BY <2>1 DEF ConsumeBank, Players
  <2>3. QED
    BY <2>2 DEF Players
<1>3. seats' \in [Seats -> Players]
  BY <1>1, <1>2 DEF Inv, TypeOK
<1>4. /\ hand' \in Hands /\ hand'.id \in HandIds /\ Sound(hand')
      /\ turn' \in Turns /\ due' \in [Commands -> Nat] /\ hand'.id = hand.id
  <2>1. CASE Accepts(hand, s, intent)
    <3> DEFINE m == Machine(hand, turn, due)
    <3>1. Fit(m) /\ m.hand = hand
      BY MachineFit DEF Inv, TypeOK
    <3>2. intent \in [kind : ActionKinds, amount : Int]
      BY TableAssumption
    <3> HIDE DEF m
    <3>3. Fit(Chain(Act(m, s, intent))) /\ Chain(Act(m, s, intent)).hand.id = hand.id
      BY <2>1, <3>1, <3>2, ActNow
    <3>4. Become(Chain(Act(m, s, intent)))
      BY <1>1, <2>1 DEF m
    <3>5. QED
      BY <3>3, <3>4, BecomeInv DEF Become
  <2>2. CASE ~Accepts(hand, s, intent)
    BY <1>1, <2>2 DEF Inv, TypeOK
  <2>3. QED
    BY <2>1, <2>2
<1>5. button' = button /\ hands' = hands /\ seatedCount' = seatedCount
  BY DEF Action
<1>6. QED
  BY <1>3, <1>4, <1>5 DEF Inv, TypeOK

LEMMA PreActionInv ==
  ASSUME Inv, NEW u \in Users, NEW p \in PreActions, PreAction(u, p)
  PROVE  Inv' /\ hand'.id = hand.id
<1>1. PICK s \in Seats :
        /\ CanArm(hand, s, p)
        /\ LET m == Machine(SetPending(hand, s, p), turn, due)
           IN  Become(IF s # hand.toAct THEN m
                      ELSE IF Fires(m) THEN Chain(Act(m, s, Resolved(m)))
                      ELSE DropStale(m))
  BY DEF PreAction
<1> DEFINE armed == SetPending(hand, s, p)
           m == Machine(armed, turn, due)
<1>2. Kept(hand, armed) /\ armed.toAct = hand.toAct
  <2>1. p \in Pendings
    BY TableAssumption
  <2>2. QED
    BY <2>1, PendingSound DEF SetPending, Inv, TypeOK, Hands
<1> HIDE DEF armed
<1>3. Fit(m) /\ m.hand = armed /\ m.hand.id = hand.id
  BY <1>2, MachineFit DEF Inv, TypeOK, Kept
<1> HIDE DEF m
<1>4. \E n : Become(n) /\ Fit(n) /\ n.hand.id = hand.id
  <2>1. CASE s # hand.toAct
    BY <1>1, <1>3, <2>1 DEF m, armed
  <2>2. CASE s = hand.toAct /\ Fires(m)
    <3>1. Accepts(m.hand, s, Resolved(m))
      BY <1>2, <1>3, <2>2 DEF Fires
    <3>2. Resolved(m) \in [kind : ActionKinds, amount : Int]
      BY <1>2, <1>3, <2>2, <3>1, FitFacts, ResolvedIntent DEF Resolved
    <3>3. /\ Fit(Chain(Act(m, s, Resolved(m))))
          /\ Chain(Act(m, s, Resolved(m))).hand.id = hand.id
      BY <1>3, <3>1, <3>2, ActNow
    <3>4. Become(Chain(Act(m, s, Resolved(m))))
      BY <1>1, <2>2 DEF m, armed
    <3>5. QED
      BY <3>3, <3>4
  <2>3. CASE s = hand.toAct /\ ~Fires(m)
    <3>1. m.hand.toAct # NoSeat
      BY <1>2, <1>3, <2>3, SeatsFacts
    <3>2. Onward(m, DropStale(m))
      BY <1>3, <3>1, DropStaleFit
    <3>3. Become(DropStale(m))
      BY <1>1, <2>3 DEF m, armed
    <3>4. QED
      BY <1>3, <3>2, <3>3 DEF Onward
  <2>4. QED
    BY <2>1, <2>2, <2>3
<1>5. /\ hand' \in Hands /\ hand'.id \in HandIds /\ Sound(hand')
      /\ turn' \in Turns /\ due' \in [Commands -> Nat] /\ hand'.id = hand.id
  BY <1>4, BecomeInv DEF Become
<1>6. seats' = seats /\ button' = button /\ hands' = hands /\ seatedCount' = seatedCount
  BY DEF PreAction
<1>7. QED
  BY <1>5, <1>6 DEF Inv, TypeOK

LEMMA TurnTimerFiresInv ==
  ASSUME Inv, TurnTimerFires
  PROVE  Inv' /\ hand'.id = hand.id
<1>1. turn' \in Turns
  BY DEF TurnTimerFires, Inv, TypeOK, Turns
<1>2. turn.hand \in HandIds /\ turn.seat \in SeatOrNone
  BY DEF Inv, TypeOK, Turns
<1>3. due' \in [Commands -> Nat]
  BY <1>2, CommandFacts, DueFacts DEF TurnTimerFires, Inv, TypeOK
<1>4. QED
  BY <1>1, <1>3 DEF TurnTimerFires, Inv, TypeOK

LEMMA TimedOutType ==
  ASSUME NEW p \in Players
  PROVE  /\ TimedOut(p) \in Players
         /\ TimedOut(p).bank = 0 /\ TimedOut(p).missed = p.missed
         /\ p.out => TimedOut(p).out
         /\ TimedOut(p).timeouts >= MaxConsecutiveTimeouts => TimedOut(p).out
<1> DEFINE out == p.out \/ p.timeouts + 1 >= MaxConsecutiveTimeouts
           n == p.timeouts + 1
           q == [p EXCEPT !.bank = 0, !.timeouts = n, !.out = out]
<1>1. out \in BOOLEAN /\ n \in Nat
  BY DEF Players
<1>2. TimedOut(p) = q
  BY DEF TimedOut
<1>3. (p.out => out) /\ (n >= MaxConsecutiveTimeouts => out)
  OBVIOUS
<1> HIDE DEF out, n
<1>4. q \in Players /\ q.bank = 0 /\ q.missed = p.missed /\ q.out = out /\ q.timeouts = n
  BY <1>1 DEF Players
<1> HIDE DEF q
<1>5. QED
  BY <1>2, <1>3, <1>4

LEMMA TurnTimeoutInv ==
  ASSUME Inv, TurnTimeout
  PROVE  Inv' /\ hand'.id = hand.id
<1> DEFINE s == hand.toAct
           auto == AutoIntent(hand, s)
           d == Consume(due, TimeoutCmd(hand.id, s))
           m == Machine(hand, turn, d)
<1>1. s \in Seats /\ s \in SeatOrNone
  BY DEF TurnTimeout, TimeoutReady, Inv, Sound, Accounted, Hands, SeatOrNone
<1>2. d \in [Commands -> Nat]
  BY <1>1, CommandFacts, DueFacts DEF TurnTimeout, TimeoutReady, Inv, TypeOK
<1>3. seats' \in [Seats -> Players]
  <2>1. TimedOut(seats[s]) \in Players
    BY <1>1, TimedOutType DEF Inv, TypeOK
  <2>2. [seats EXCEPT ![s] = TimedOut(@)] \in [Seats -> Players]
    BY <2>1 DEF Inv, TypeOK
  <2>3. QED
    BY <2>2 DEF TurnTimeout, Inv, TypeOK
<1>4. Become(IF Accepts(hand, s, auto) THEN Chain(Act(m, s, auto)) ELSE m)
  BY DEF TurnTimeout
<1>5. Fit(m) /\ m.hand = hand
  BY <1>2, MachineFit DEF Inv, TypeOK
<1>6. auto \in [kind : ActionKinds, amount : Int]
  BY DEF AutoIntent, ActionKinds
<1> HIDE DEF m, auto
<1>7. \E n : Become(n) /\ Fit(n) /\ n.hand.id = hand.id
  <2>1. CASE Accepts(hand, s, auto)
    BY <1>4, <1>5, <1>6, <2>1, ActNow
  <2>2. CASE ~Accepts(hand, s, auto)
    BY <1>4, <1>5, <2>2
  <2>3. QED
    BY <2>1, <2>2
<1>8. /\ hand' \in Hands /\ hand'.id \in HandIds /\ Sound(hand')
      /\ turn' \in Turns /\ due' \in [Commands -> Nat] /\ hand'.id = hand.id
  BY <1>7, BecomeInv DEF Become
<1>9. button' = button /\ hands' = hands /\ seatedCount' = seatedCount
  BY DEF TurnTimeout
<1>10. QED
  BY <1>3, <1>8, <1>9 DEF Inv, TypeOK
---------------------------------------------------------------------------
\* The only steps that end or begin a hand are EndHand and StartHand.
LEMMA NextInv ==
  ASSUME Inv, [Next]_vars
  PROVE  Inv'
<1>1. CASE \E u \in Users, chips \in BuyIns : Sit(u, chips)
  BY <1>1, SitInv
<1>2. CASE \E u \in Users : Leave(u)
  BY <1>2, LeaveInv
<1>3. CASE \E u \in Users : SitOut(u)
  BY <1>3, SitOutInInv
<1>4. CASE \E u \in Users : SitIn(u)
  BY <1>4, SitOutInInv
<1>5. CASE StartInVain
  BY <1>5, StartInVainInv
<1>6. CASE StartHand
  BY <1>6, StartHandInv
<1>7. CASE AdvanceStreet
  BY <1>7, AdvanceStreetInv
<1>8. CASE EndHand
  BY <1>8, EndHandInv
<1>9. CASE StaleCommand \/ StaleTimeout \/ Drop
  BY <1>9, StaleInv
<1>10. CASE \E u \in Users, intent \in Intents, used \in BankUses : Action(u, intent, used)
  BY <1>10, ActionInv
<1>11. CASE \E u \in Users, p \in PreActions : PreAction(u, p)
  BY <1>11, PreActionInv
<1>12. CASE TurnTimerFires
  BY <1>12, TurnTimerFiresInv
<1>13. CASE TurnTimeout
  BY <1>13, TurnTimeoutInv
<1>14. CASE UNCHANGED vars
  BY <1>14 DEF vars, Inv, TypeOK
<1>15. QED
  BY <1>1, <1>2, <1>3, <1>4, <1>5, <1>6, <1>7, <1>8, <1>9, <1>10, <1>11, <1>12,
     <1>13, <1>14
  DEF Next

THEOREM Invariance == ASSUME ProperBlinds PROVE Spec => []Inv
<1>1. Init => Inv
  BY InitInv
<1>2. Inv /\ [Next]_vars => Inv'
  BY NextInv
<1>3. QED
  BY <1>1, <1>2, PTL DEF Spec

\* Type correctness at a table with blinds in order: in particular no seat's stack, bet or
\* share of a pot is ever negative, and every command the table schedules is one it knows
\* (hand.go:268-498).  A negative blind would be posted as a negative bet.
THEOREM TypeCorrect == ASSUME ProperBlinds PROVE Spec => []TypeOK
<1>1. Inv => TypeOK
  BY DEF Inv
<1>2. QED
  BY <1>1, Invariance, PTL

\* With blinds in order, bets stay within the level and the seats that act are seats that
\* were dealt in, also when players leave in the middle of a hand (hand.go:351-498).  A small
\* blind above the big one would be a bet above the level from the start.
THEOREM HandStaysInOrder == ASSUME ProperBlinds PROVE Spec => []HandInOrder
<1>1. Inv => HandInOrder
  BY DEF Inv, Sound, Accounted, Covered, HandInOrder
<1>2. QED
  BY <1>1, Invariance, PTL

\* With blinds in order, no seat's chips are lost or made between its arrival in a hand and
\* its end, other than by what it commits and is paid (hand.go:268-498, 576-655 and 783-806).
THEOREM ChipsAccountedFor == ASSUME ProperBlinds PROVE Spec => []Ledger
<1>1. Inv => Ledger
  BY DEF Inv, Sound, Accounted, Ledger
<1>2. QED
  BY <1>1, Invariance, PTL
---------------------------------------------------------------------------
(* The chairs.  Every step changes one chair, or removes players at the end  *)
(* of a hand; what Standing says of a player is true of an empty chair too.  *)
StandingOf(p) == /\ p.missed < MaxSittingOutHands
                 /\ p.missed > 0 => p.out
                 /\ p.timeouts >= MaxConsecutiveTimeouts => p.out
                 /\ p.bank <= TimeBankCap
AllStand == \A s \in Seats : StandingOf(seats[s])

LEMMA NoPlayerStands == StandingOf(NoPlayer)
BY TableAssumption DEF StandingOf, NoPlayer

\* The steps that change one chair leave a player of good standing in it.
LEMMA OneChairStands ==
  ASSUME Inv, AllStand, NEW s \in Seats, NEW p, StandingOf(p),
         seats' = [seats EXCEPT ![s] = p]
  PROVE  AllStand'
BY DEF AllStand, Inv, TypeOK

LEMMA AfterHandStands ==
  ASSUME Inv, AllStand, NEW s \in Seats
  PROVE  StandingOf(AfterHand(s))
<1> DEFINE p == seats[s]
           chips == IF s \in hand.dealt THEN hand.stack[s] ELSE p.stack
           bank == Lower(p.bank + TimeBankPerHand, TimeBankCap)
           absent == [p EXCEPT !.stack = chips, !.missed = p.missed + 1]
           present == [p EXCEPT !.stack = chips, !.missed = 0, !.bank = bank]
<1>1. p \in Players /\ StandingOf(p)
  BY DEF Inv, TypeOK, AllStand
<1>2. bank <= TimeBankCap
  <2>1. p.bank + TimeBankPerHand \in Nat /\ TimeBankCap \in Nat
    BY <1>1, TableAssumption DEF Players
  <2>2. QED
    BY <2>1, LowerFacts
<1> HIDE DEF p, chips, bank
<1>3. p.out => absent.missed >= MaxSittingOutHands \/ StandingOf(absent)
  BY <1>1, TableAssumption DEF StandingOf, Players
<1>4. ~p.out => StandingOf(present)
  BY <1>1, <1>2, TableAssumption DEF StandingOf, Players
<1> HIDE DEF absent, present
<1>5. \/ AfterHand(s) = NoPlayer
      \/ p.out /\ AfterHand(s) = absent /\ ~(absent.missed >= MaxSittingOutHands)
      \/ ~p.out /\ AfterHand(s) = present
  BY Zenon DEF AfterHand, Evicted, absent, present, p, chips, bank
<1>6. QED
  BY <1>3, <1>4, <1>5, NoPlayerStands

LEMMA StandsNext ==
  ASSUME Inv, AllStand, [Next]_vars
  PROVE  AllStand'
<1>1. ASSUME NEW u \in Users, NEW chips \in BuyIns, Sit(u, chips) PROVE AllStand'
  <2> DEFINE p(owes) == [NoPlayer EXCEPT !.user = u, !.stack = chips, !.bank = TimeBankInit,
                                         !.owes = owes]
  <2>1. PICK s \in Seats : seats' = [seats EXCEPT ![s] = p(HandOn \/ button >= 0)]
    BY <1>1 DEF Sit
  <2>2. \A owes : StandingOf(p(owes))
    BY TableAssumption DEF StandingOf, NoPlayer
  <2> HIDE DEF p
  <2>3. QED
    BY <2>1, <2>2, OneChairStands
<1>2. ASSUME NEW u \in Users, Leave(u) PROVE AllStand'
  BY <1>2, NoPlayerStands, OneChairStands DEF Leave
<1>3. ASSUME NEW u \in Users, SitOut(u) PROVE AllStand'
  <2>1. PICK s \in Seats : seats' = [seats EXCEPT ![s].out = TRUE]
    BY <1>3 DEF SitOut
  <2>2. StandingOf([seats[s] EXCEPT !.out = TRUE])
    BY DEF StandingOf, AllStand, Inv, TypeOK, Players
  <2>3. QED
    BY <2>1, <2>2, OneChairStands
<1>4. ASSUME NEW u \in Users, SitIn(u) PROVE AllStand'
  <2> DEFINE p(s) == [seats[s] EXCEPT !.out = FALSE, !.missed = 0, !.owes = TRUE, !.timeouts = 0]
  <2>1. PICK s \in Seats : seats' = [seats EXCEPT ![s] = p(s)]
    BY <1>4 DEF SitIn
  <2>2. StandingOf(p(s))
    BY TableAssumption DEF StandingOf, AllStand, Inv, TypeOK, Players
  <2> HIDE DEF p
  <2>3. QED
    BY <2>1, <2>2, OneChairStands
<1>5. ASSUME StartHand PROVE AllStand'
  <2>1. \A s \in Seats : StandingOf([seats[s] EXCEPT !.owes = FALSE])
    BY DEF StandingOf, AllStand, Inv, TypeOK, Players
  <2>2. \A s \in Seats : seats'[s] = [seats[s] EXCEPT !.owes = FALSE] \/ seats'[s] = seats[s]
    BY <1>5 DEF StartHand
  <2>3. QED
    BY <2>1, <2>2 DEF AllStand
<1>6. ASSUME EndHand PROVE AllStand'
  BY <1>6, AfterHandStands DEF EndHand, AllStand
<1>7. ASSUME NEW u \in Users, NEW intent \in Intents, NEW used \in BankUses,
             Action(u, intent, used)
      PROVE  AllStand'
  <2> DEFINE p(s, time) == [ConsumeBank(seats[s], time) EXCEPT !.timeouts = 0]
  <2>1. PICK s \in Seats : seats' = [seats EXCEPT ![s] = p(s, IF TurnOpen(s) THEN used ELSE 0)]
    BY <1>7 DEF Action
  <2>2. \A time \in Nat : StandingOf(p(s, time))
    BY TableAssumption DEF ConsumeBank, StandingOf, AllStand, Inv, TypeOK, Players
  <2>3. (IF TurnOpen(s) THEN used ELSE 0) \in Nat
    BY TableAssumption
  <2> HIDE DEF p
  <2>4. QED
    BY <2>1, <2>2, <2>3, OneChairStands
<1>8. ASSUME TurnTimeout PROVE AllStand'
  <2> DEFINE s == hand.toAct
  <2>1. CASE seats' = seats
    BY <2>1 DEF AllStand
  <2>2. CASE s \in Taken /\ seats' = [seats EXCEPT ![s] = TimedOut(seats[s])]
    <3>1. s \in Seats /\ seats[s] \in Players /\ StandingOf(seats[s])
      BY <2>2 DEF Taken, AllStand, Inv, TypeOK
    <3>2. \A p \in Players : StandingOf(p) => StandingOf(TimedOut(p))
      BY TimedOutType, TableAssumption DEF StandingOf
    <3>3. QED
      BY <2>2, <3>1, <3>2, OneChairStands
  <2>3. QED
    BY <1>8, <2>1, <2>2 DEF TurnTimeout
<1>9. CASE UNCHANGED seats
  BY <1>9 DEF AllStand
<1>10. QED
  BY <1>1, <1>2, <1>3, <1>4, <1>5, <1>6, <1>7, <1>8, <1>9
  DEF Next, StartInVain, AdvanceStreet, StaleCommand, PreAction, TurnTimerFires,
      StaleTimeout, Drop, vars

\* Nobody keeps a chair without playing or a turn without answering longer than the
\* limits allow, and no time bank outgrows its cap (table.go:516-558 and 709-720).
THEOREM PlayersStand == ASSUME ProperBlinds PROVE Spec => []Standing
<1>1. Init => AllStand
  BY NoPlayerStands DEF Init, AllStand
<1>2. Inv /\ AllStand /\ [Next]_vars => AllStand'
  BY StandsNext
<1>3. AllStand => Standing
  BY DEF AllStand, StandingOf, Standing, Taken
<1>4. QED
  BY <1>1, <1>2, <1>3, Invariance, PTL DEF Spec
---------------------------------------------------------------------------
(* The counter the manager reads.  Seats are freed and taken by their own    *)
(* user only, so one step changes Taken by one seat, or by those removed.    *)

LEMMA SameTaken ==
  ASSUME SeatedCount, UNCHANGED seatedCount, \A s \in Seats : seats'[s].user = seats[s].user
  PROVE  SeatedCount'
<1>1. Taken' = Taken
  BY DEF Taken
<1>2. QED
  BY <1>1 DEF SeatedCount

LEMMA CountedNext ==
  ASSUME Inv, SeatedCount, [Next]_vars
  PROVE  SeatedCount'
<1>0. seats \in [Seats -> Players] /\ Nobody \notin Users /\ NoPlayer.user = Nobody
  BY TableAssumption DEF Inv, TypeOK, NoPlayer
<1>1. ASSUME NEW u \in Users, NEW chips \in BuyIns, Sit(u, chips) PROVE SeatedCount'
  <2>1. PICK s \in Seats : seats[s].user = Nobody /\ seats'[s].user = u
                            /\ \A o \in Seats \ {s} : seats'[o] = seats[o]
    <3> DEFINE p(owes) == [NoPlayer EXCEPT !.user = u, !.stack = chips, !.bank = TimeBankInit,
                                           !.owes = owes]
    <3>1. PICK s \in Seats : FirstFree(s) /\ seats' = [seats EXCEPT ![s] = p(HandOn \/ button >= 0)]
      BY <1>1 DEF Sit
    <3>2. \A owes : p(owes).user = u
      BY DEF NoPlayer
    <3> HIDE DEF p
    <3>3. QED
      BY <1>0, <3>1, <3>2 DEF FirstFree
  <2>2. s \notin Taken /\ Taken' = Taken \cup {s}
    BY <1>0, <2>1 DEF Taken
  <2>3. Cardinality(Taken \cup {s}) = Cardinality(Taken) + 1
    BY <2>2, TakenFinite, FS_AddElement
  <2>4. QED
    BY <1>1, <2>2, <2>3 DEF Sit, SeatedCount
<1>2. ASSUME NEW u \in Users, Leave(u) PROVE SeatedCount'
  <2>1. PICK s \in Seats : seats[s].user = u /\ seats' = [seats EXCEPT ![s] = NoPlayer]
    BY <1>2 DEF Leave, ChairOf
  <2>2. s \in Taken /\ Taken' = Taken \ {s}
    BY <1>0, <2>1 DEF Taken
  <2>3. Cardinality(Taken \ {s}) = Cardinality(Taken) - 1
    BY <2>2, TakenFinite, FS_RemoveElement
  <2>4. QED
    BY <1>2, <2>2, <2>3 DEF Leave, SeatedCount
<1>3. ASSUME NEW u \in Users, SitOut(u) \/ SitIn(u) PROVE SeatedCount'
  <2> DEFINE sitsOut(p) == [p EXCEPT !.out = TRUE]
             sitsIn(p) == [p EXCEPT !.out = FALSE, !.missed = 0, !.owes = TRUE, !.timeouts = 0]
  <2>1. PICK s \in Seats : \/ seats' = [seats EXCEPT ![s] = sitsOut(seats[s])]
                           \/ seats' = [seats EXCEPT ![s] = sitsIn(seats[s])]
    BY <1>3 DEF SitOut, SitIn
  <2>2. \A p \in Players : sitsOut(p).user = p.user /\ sitsIn(p).user = p.user
    BY DEF Players
  <2> HIDE DEF sitsOut, sitsIn
  <2>3. \A o \in Seats : seats'[o].user = seats[o].user
    BY <1>0, <2>1, <2>2
  <2>4. QED
    BY <1>3, <2>3, SameTaken DEF SitOut, SitIn
<1>4. ASSUME StartHand PROVE SeatedCount'
  <2>1. \A s \in Seats : seats'[s] = [seats[s] EXCEPT !.owes = FALSE] \/ seats'[s] = seats[s]
    BY <1>4 DEF StartHand
  <2>2. \A s \in Seats : seats'[s].user = seats[s].user
    BY <1>0, <2>1 DEF Players
  <2>3. QED
    BY <1>4, <2>2, SameTaken DEF StartHand
<1>5. ASSUME EndHand PROVE SeatedCount'
  <2>1. \A s \in Seats : AfterHand(s) = NoPlayer \/ AfterHand(s).user = seats[s].user
    <3> TAKE s \in Seats
    <3> DEFINE p == seats[s]
               chips == IF s \in hand.dealt THEN hand.stack[s] ELSE p.stack
               bank == Lower(p.bank + TimeBankPerHand, TimeBankCap)
               absent == [p EXCEPT !.stack = chips, !.missed = p.missed + 1]
               present == [p EXCEPT !.stack = chips, !.missed = 0, !.bank = bank]
    <3>1. p \in Players
      BY <1>0
    <3>2. AfterHand(s) = NoPlayer \/ AfterHand(s) = absent \/ AfterHand(s) = present
      BY Zenon DEF AfterHand
    <3> HIDE DEF p, chips, bank
    <3>3. absent.user = p.user /\ present.user = p.user
      BY <3>1 DEF Players
    <3>4. QED
      BY <3>2, <3>3 DEF p
  <2>2. Taken' = Taken \ Removed
    BY <1>0, <1>5, <2>1 DEF EndHand, Taken, Removed
  <2>3. Removed \subseteq Taken
    BY DEF Removed
  <2>4. Cardinality(Taken \ Removed) = Cardinality(Taken) - Cardinality(Removed)
    <3>1. Taken \cap Removed = Removed
      BY <2>3
    <3>2. QED
      BY <3>1, TakenFinite, FS_Difference
  <2>5. QED
    BY <1>5, <2>2, <2>4 DEF EndHand, SeatedCount
<1>6. ASSUME NEW u \in Users, NEW intent \in Intents, NEW used \in BankUses,
             Action(u, intent, used)
      PROVE  SeatedCount'
  <2> DEFINE p(s, time) == [ConsumeBank(seats[s], time) EXCEPT !.timeouts = 0]
  <2>1. PICK s \in Seats : seats' = [seats EXCEPT ![s] = p(s, IF TurnOpen(s) THEN used ELSE 0)]
    BY <1>6 DEF Action
  <2>2. \A time : p(s, time).user = seats[s].user
    BY <1>0 DEF ConsumeBank, Players
  <2> HIDE DEF p
  <2>3. \A o \in Seats : seats'[o].user = seats[o].user
    BY <1>0, <2>1, <2>2
  <2>4. QED
    BY <1>6, <2>3, SameTaken DEF Action
<1>7. ASSUME TurnTimeout PROVE SeatedCount'
  <2>1. \A p \in Players : TimedOut(p).user = p.user
    BY DEF TimedOut, Players
  <2>2. \A s \in Seats : seats'[s].user = seats[s].user
    BY <1>0, <1>7, <2>1 DEF TurnTimeout
  <2>3. QED
    BY <1>7, <2>2, SameTaken DEF TurnTimeout
<1>8. CASE UNCHANGED <<seats, seatedCount>>
  BY <1>8, SameTaken
<1>9. QED
  BY <1>1, <1>2, <1>3, <1>4, <1>5, <1>6, <1>7, <1>8
  DEF Next, StartInVain, AdvanceStreet, StaleCommand, PreAction, TurnTimerFires,
      StaleTimeout, Drop, vars

\* The manager's count is the number of players seated, however they came or went,
\* also when one user takes two chairs (table.go:171-199, 302 and 534-558).
THEOREM SeatsCounted == ASSUME ProperBlinds PROVE Spec => []SeatedCount
<1>1. Init => SeatedCount
  <2> SUFFICES ASSUME Init PROVE SeatedCount
    OBVIOUS
  <2>1. Taken = {}
    BY DEF Init, Taken, NoPlayer
  <2>2. QED
    BY <2>1, FS_EmptySet DEF Init, SeatedCount
<1>2. Inv /\ SeatedCount /\ [Next]_vars => SeatedCount'
  BY CountedNext
<1>3. QED
  BY <1>1, <1>2, Invariance, PTL DEF Spec
---------------------------------------------------------------------------
(* What no step of a table may do to a hand: a seat out of the betting stays *)
(* out and pays no more, a showdown pays only seats that nobody beats,       *)
(* within what they have matched, and an entry blind is paid once.           *)

\* g is h later in the same hand: seats only leave the betting, and only those that
\* are in it have put in more.
Later(h, g) ==
  /\ g.id = h.id /\ g.dealt = h.dealt /\ g.score = h.score /\ g.stackIn = h.stackIn
  /\ h.folded \subseteq g.folded /\ h.allIn \subseteq g.allIn
  /\ \A s \in Seats : h.committed[s] <= g.committed[s]
  /\ \A s \in Seats : s \in h.folded \cup h.allIn \/ s \notin h.dealt
                        => g.committed[s] = h.committed[s]

\* ... and on the same street, with nothing paid.
Betting(h, g) == /\ Later(h, g)
                 /\ g.stage = h.stage /\ g.won = h.won /\ g.finals = h.finals

LEMMA LaterTransitive ==
  ASSUME NEW h, NEW g, NEW f, Accounted(h), Accounted(g), Accounted(f), Later(h, g), Later(g, f)
  PROVE  Later(h, f)
<1>1. \A s \in Seats : /\ h.committed[s] \in Nat /\ g.committed[s] \in Nat
                       /\ f.committed[s] \in Nat
  BY DEF Accounted, Hands
<1>2. \A s \in Seats : h.committed[s] <= f.committed[s]
  BY <1>1 DEF Later
<1>3. QED
  BY <1>2 DEF Later

LEMMA BettingTransitive ==
  ASSUME NEW h, NEW g, NEW f, Accounted(h), Accounted(g), Accounted(f),
         Betting(h, g), Betting(g, f)
  PROVE  Betting(h, f)
BY LaterTransitive DEF Betting

\* A hand that differs in nothing a payment changes.
LEMMA SamePayments ==
  ASSUME NEW h, NEW g, Accounted(h),
         g.id = h.id, g.dealt = h.dealt, g.score = h.score, g.stackIn = h.stackIn,
         h.folded \subseteq g.folded, g.allIn = h.allIn, g.committed = h.committed
  PROVE  Later(h, g)
<1>1. \A s \in Seats : h.committed[s] \in Nat
  BY DEF Accounted, Hands
<1>2. QED
  BY <1>1 DEF Later

LEMMA BettingReflexive ==
  ASSUME NEW h, Accounted(h)
  PROVE  Betting(h, h)
BY SamePayments DEF Betting
---------------------------------------------------------------------------
\* The methods of a hand that pay nobody.
LEMMA PutInBetting ==
  ASSUME NEW h, Accounted(h), NEW s \in h.dealt \ (h.folded \cup h.allIn), NEW pay \in Nat,
         pay <= h.stack[s]
  PROVE  Accounted(PutIn(h, s, pay)) /\ Betting(h, PutIn(h, s, pay))
<1> DEFINE g == PutIn(h, s, pay)
<1>1. Accounted(g)
  BY PutInSound
<1>2. /\ g.committed = [h.committed EXCEPT ![s] = h.committed[s] + pay]
      /\ g.folded = h.folded /\ g.dealt = h.dealt /\ h.allIn \subseteq g.allIn
      /\ g.id = h.id /\ g.score = h.score /\ g.stackIn = h.stackIn /\ g.stage = h.stage
      /\ g.won = h.won /\ g.finals = h.finals
  BY DEF PutIn, Hands, Accounted
<1>3. /\ h.committed \in [Seats -> Nat] /\ s \in Seats
      /\ \A o \in Seats : h.committed[o] \in Nat
  BY DEF Accounted, Hands
<1> HIDE DEF g
<1>4. \A o \in Seats : /\ h.committed[o] <= g.committed[o]
                       /\ o # s => g.committed[o] = h.committed[o]
  BY <1>2, <1>3
<1>5. Betting(h, g)
  BY <1>2, <1>4 DEF Betting, Later
<1>6. QED
  BY <1>1, <1>5 DEF g

\* What the bookkeeping methods leave alone.
LEMMA QuietMethods ==
  ASSUME NEW h, Accounted(h), NEW s \in Seats
  PROVE  /\ Betting(h, Fold(h, s)) /\ Betting(h, Check(h, s)) /\ Betting(h, Reopen(h, s))
         /\ \A p : Betting(h, SetPending(h, s, p))
         /\ Betting(h, Advance(h))
         /\ Betting(h, ResetForNextStreet(h))
         /\ \A level : Betting(h, [h EXCEPT !.currentBet = level])
         /\ \A raise : Betting(h, [h EXCEPT !.minRaise = raise])
<1>1. ASSUME NEW g, g.id = h.id, g.dealt = h.dealt, g.score = h.score, g.stackIn = h.stackIn,
             h.folded \subseteq g.folded, g.allIn = h.allIn, g.committed = h.committed,
             g.stage = h.stage, g.won = h.won, g.finals = h.finals
      PROVE  Betting(h, g)
  BY <1>1, SamePayments DEF Betting
<1>2. Betting(h, Fold(h, s)) /\ Betting(h, Check(h, s)) /\ Betting(h, Reopen(h, s))
  <2>1. Betting(h, Fold(h, s))
    <3> DEFINE g == Fold(h, s)
    <3>1. /\ g.id = h.id /\ g.dealt = h.dealt /\ g.score = h.score /\ g.stackIn = h.stackIn
          /\ h.folded \subseteq g.folded /\ g.allIn = h.allIn /\ g.committed = h.committed
          /\ g.stage = h.stage /\ g.won = h.won /\ g.finals = h.finals
      BY DEF Fold, Accounted, Hands
    <3> HIDE DEF g
    <3>2. QED
      BY <1>1, <3>1 DEF g
  <2>2. Betting(h, Check(h, s))
    BY <1>1 DEF Check, Accounted, Hands
  <2>3. Betting(h, Reopen(h, s))
    BY <1>1 DEF Reopen, Accounted, Hands
  <2>4. QED
    BY <2>1, <2>2, <2>3
<1>3. \A p : Betting(h, SetPending(h, s, p))
  BY <1>1 DEF SetPending, Accounted, Hands
<1>4. Betting(h, Advance(h)) /\ Betting(h, ResetForNextStreet(h))
  <2>1. Betting(h, Advance(h))
    BY <1>1 DEF Advance, Accounted, Hands
  <2>2. Betting(h, ResetForNextStreet(h))
    <3> DEFINE g == ResetForNextStreet(h)
    <3>1. /\ g.id = h.id /\ g.dealt = h.dealt /\ g.score = h.score /\ g.stackIn = h.stackIn
          /\ g.folded = h.folded /\ g.allIn = h.allIn /\ g.committed = h.committed
          /\ g.stage = h.stage /\ g.won = h.won /\ g.finals = h.finals
      BY DEF ResetForNextStreet, Accounted, Hands
    <3> HIDE DEF g
    <3>2. QED
      BY <1>1, <3>1 DEF g
  <2>3. QED
    BY <2>1, <2>2
<1>5. /\ \A level : Betting(h, [h EXCEPT !.currentBet = level])
      /\ \A raise : Betting(h, [h EXCEPT !.minRaise = raise])
  BY <1>1 DEF Accounted, Hands
<1>6. QED
  BY <1>2, <1>3, <1>4, <1>5

LEMMA CallBetting ==
  ASSUME NEW h, Sound(h), NEW s \in h.dealt \ (h.folded \cup h.allIn), ToCall(h, s) > 0
  PROVE  Betting(h, Call(h, s))
<1>1. h.bet[s] \in Nat /\ h.currentBet \in Nat /\ h.stack[s] \in Nat
  BY DEF Sound, Accounted, Hands
<1>2. ToCall(h, s) \in Nat
  BY <1>1 DEF ToCall
<1>3. /\ Lower(ToCall(h, s), h.stack[s]) \in Nat
      /\ Lower(ToCall(h, s), h.stack[s]) <= h.stack[s]
  BY <1>1, <1>2, LowerFacts
<1>4. QED
  BY <1>3, PutInBetting DEF Call, Sound

\* A payment that makes a new current bet, and perhaps a new minimum raise.
LEMMA PayOverBetting ==
  ASSUME NEW h, Sound(h), NEW s \in h.dealt \ (h.folded \cup h.allIn), NEW pay \in Nat,
         NEW level \in Nat, NEW raise \in Nat, pay <= h.stack[s]
  PROVE  LET g == [PutIn(h, s, pay) EXCEPT !.currentBet = level]
         IN  Betting(h, g) /\ Betting(h, Reopen([g EXCEPT !.minRaise = raise], s))
<1> DEFINE p == PutIn(h, s, pay)
           g == [p EXCEPT !.currentBet = level]
           q == [g EXCEPT !.minRaise = raise]
           r == Reopen(q, s)
<1>1. s \in Seats /\ s \in h.dealt
  BY DEF Sound, Accounted, Hands
<1>2. Accounted(h) /\ Accounted(p) /\ Betting(h, p)
  BY PutInBetting DEF Sound
<1>3. s \in p.dealt
  BY <1>1, <1>2 DEF Betting, Later
<1> HIDE DEF p
<1>4. Accounted(g) /\ Betting(p, g) /\ s \in g.dealt
  <2>1. Accounted(g) /\ g.dealt = p.dealt
    BY <1>2 DEF Accounted, Hands
  <2>2. Betting(p, g)
    BY <1>1, <1>2, QuietMethods
  <2>3. QED
    BY <1>3, <2>1, <2>2
<1> HIDE DEF g
<1>5. Accounted(q) /\ Betting(g, q) /\ s \in q.dealt
  <2>1. Accounted(q) /\ q.dealt = g.dealt
    BY <1>4 DEF Accounted, Hands
  <2>2. Betting(g, q)
    BY <1>1, <1>4, QuietMethods
  <2>3. QED
    BY <1>4, <2>1, <2>2
<1> HIDE DEF q
<1>6. Accounted(r) /\ Betting(q, r)
  BY <1>1, <1>5, QuietMethods, ReopenSound
<1> HIDE DEF r
<1>7. Betting(h, g)
  BY <1>2, <1>4, BettingTransitive
<1>8. Betting(h, q)
  BY <1>2, <1>4, <1>5, <1>7, BettingTransitive
<1>9. Betting(h, r)
  BY <1>2, <1>5, <1>6, <1>8, BettingTransitive
<1>10. QED
  BY <1>7, <1>9 DEF r, q, g, p

LEMMA BetBetting ==
  ASSUME NEW h, Sound(h), NEW s \in h.dealt \ (h.folded \cup h.allIn), NEW amount \in Int,
         CanBet(h, s, amount)
  PROVE  Betting(h, Bet(h, s, amount))
<1>1. /\ h.bet[s] \in Nat /\ amount \in Nat /\ h.bet[s] + amount \in Nat
      /\ amount <= h.stack[s]
  BY DEF Sound, Accounted, Hands, CanBet, ProperBlinds
<1> DEFINE paid == [PutIn(h, s, amount) EXCEPT !.currentBet = h.bet[s] + amount]
<1>2. Betting(h, Reopen([paid EXCEPT !.minRaise = amount], s))
  BY <1>1, PayOverBetting
<1>3. [PutIn(h, s, amount) EXCEPT !.currentBet = h.bet[s] + amount, !.minRaise = amount]
        = [paid EXCEPT !.minRaise = amount]
  BY DEF PutIn
<1> HIDE DEF paid
<1>4. QED
  BY <1>2, <1>3 DEF Bet

LEMMA RaiseBetting ==
  ASSUME NEW h, Sound(h), NEW s \in h.dealt \ (h.folded \cup h.allIn), NEW level \in Int,
         CanRaiseTo(h, s, level)
  PROVE  Betting(h, RaiseTo(h, s, level))
<1> DEFINE pay == level - h.bet[s]
           raise == level - h.currentBet
<1>1. /\ h.bet[s] \in Nat /\ h.currentBet \in Nat /\ h.stack[s] \in Nat
      /\ h.bet[s] <= h.currentBet
  BY DEF Sound, Accounted, Hands, Covered
<1>2. pay \in Nat /\ raise \in Nat /\ pay <= h.stack[s] /\ level \in Nat
  BY <1>1 DEF CanRaiseTo
<1>3. /\ Betting(h, [PutIn(h, s, pay) EXCEPT !.currentBet = level])
      /\ Betting(h, Reopen([[PutIn(h, s, pay) EXCEPT !.currentBet = level]
                              EXCEPT !.minRaise = raise], s))
  BY <1>2, PayOverBetting
<1>4. QED
  BY <1>3 DEF RaiseTo

LEMMA AllInBetting ==
  ASSUME NEW h, Sound(h), NEW s \in h.dealt \ (h.folded \cup h.allIn)
  PROVE  Betting(h, AllIn(h, s))
<1> DEFINE level == AllInLevel(h, s)
<1>1. /\ h.bet[s] \in Nat /\ h.currentBet \in Nat /\ h.stack[s] \in Nat
      /\ h.minRaise \in Nat /\ h.bet[s] <= h.currentBet
  BY DEF Sound, Accounted, Hands, Covered
<1>2. level \in Nat /\ level = h.bet[s] + h.stack[s]
  BY <1>1 DEF AllInLevel
<1>3. CASE level <= h.currentBet
  BY <1>1, <1>3, PutInBetting DEF AllIn, Sound
<1>4. CASE ~(level <= h.currentBet)
  <2>1. CanRaiseTo(h, s, level)
    BY <1>1, <1>2, <1>4 DEF CanRaiseTo, ShortAllIn
  <2>2. QED
    BY <1>2, <1>4, <2>1, RaiseBetting DEF AllIn
<1>5. QED
  BY <1>3, <1>4

LEMMA ApplyBetting ==
  ASSUME NEW h, Sound(h), NEW s, NEW intent \in [kind : ActionKinds, amount : Int],
         Accepts(h, s, intent)
  PROVE  Betting(h, Apply(h, s, intent))
<1>1. /\ s \in h.dealt \ (h.folded \cup h.allIn) /\ s \in Seats /\ Accounted(h)
      /\ intent.kind \in ActionKinds /\ intent.amount \in Int
  BY DEF Accepts, MayAct, Sound, Accounted, Hands
<1>2. CASE intent.kind = "fold"
  BY <1>1, <1>2, QuietMethods DEF Apply
<1>3. CASE intent.kind = "check"
  BY <1>1, <1>3, QuietMethods DEF Apply
<1>4. CASE intent.kind = "call"
  BY <1>1, <1>4, CallBetting DEF Apply, Accepts
<1>5. CASE intent.kind = "bet"
  BY <1>1, <1>5, BetBetting DEF Apply, Accepts
<1>6. CASE intent.kind = "raise"
  BY <1>1, <1>6, RaiseBetting DEF Apply, Accepts
<1>7. CASE intent.kind = "allin"
  BY <1>1, <1>7, AllInBetting DEF Apply
<1>8. QED
  BY <1>1, <1>2, <1>3, <1>4, <1>5, <1>6, <1>7 DEF ActionKinds

\* The methods that change the stage or pay.
LEMMA StreetLater ==
  ASSUME NEW h, Accounted(h)
  PROVE  LET g == DealStreet(h)
         IN  /\ Later(h, g) /\ g.won = h.won /\ g.finals = h.finals
             /\ g.committed = h.committed /\ g.folded = h.folded /\ g.allIn = h.allIn
             /\ g.stage = "showdown" => h.stage = "showdown"
<1> DEFINE g == DealStreet(h)
<1>1. /\ g.id = h.id /\ g.dealt = h.dealt /\ g.score = h.score /\ g.stackIn = h.stackIn
      /\ g.folded = h.folded
      /\ g.allIn = h.allIn /\ g.committed = h.committed
      /\ g.won = h.won /\ g.finals = h.finals
  BY DEF DealStreet, Accounted, Hands
<1>2. g.stage = "showdown" => h.stage = "showdown"
  BY DEF DealStreet, NextStage, Accounted, Hands
<1> HIDE DEF g
<1>3. Later(h, g)
  BY <1>1, SamePayments
<1>4. QED
  BY <1>1, <1>2, <1>3 DEF g

LEMMA CreditLater ==
  ASSUME NEW h, Sound(h), NEW prize \in [Seats -> Nat]
  PROVE  LET g == Credit(h, prize)
         IN  /\ Later(h, g) /\ g.stage = h.stage
             /\ g.committed = h.committed /\ g.folded = h.folded /\ g.allIn = h.allIn
             /\ g.finals = h.finals + 1
             /\ \A s \in Seats : g.won[s] = h.won[s] + prize[s]
<1> DEFINE g == Credit(h, prize)
           won == [s \in Seats |-> h.won[s] + prize[s]]
<1>1. /\ g.id = h.id /\ g.dealt = h.dealt /\ g.score = h.score /\ g.stackIn = h.stackIn
      /\ g.folded = h.folded
      /\ g.allIn = h.allIn /\ g.committed = h.committed /\ g.stage = h.stage
      /\ g.finals = h.finals + 1
  BY DEF Credit, Sound, Accounted, Hands
<1>2. g.won = won
  BY DEF Credit, Sound, Accounted, Hands
<1>3. \A s \in Seats : won[s] = h.won[s] + prize[s]
  OBVIOUS
<1> HIDE DEF g, won
<1>4. Later(h, g)
  BY <1>1, SamePayments DEF Sound
<1>5. QED
  BY <1>1, <1>2, <1>3, <1>4 DEF g

\* What the last seat left is paid.
PotFor(h) == [s \in Seats |-> IF s \in NotFolded(h) /\ (\A o \in NotFolded(h) : o <= s)
                              THEN Pot(h) ELSE 0]

LEMMA AwardLater ==
  ASSUME NEW h, Sound(h)
  PROVE  LET g == AwardSinglePot(h)
         IN  /\ Later(h, g) /\ g.stage = h.stage
             /\ g.committed = h.committed /\ g.folded = h.folded /\ g.allIn = h.allIn
             /\ g.finals = h.finals + 1
             /\ PotFor(h) \in [Seats -> Nat]
             /\ \A s \in Seats : g.won[s] = h.won[s] + PotFor(h)[s]
<1>1. Pot(h) \in Nat
  BY TotalNat DEF Pot, Sound, Accounted, Hands
<1>2. PotFor(h) \in [Seats -> Nat]
  BY <1>1 DEF PotFor
<1>3. AwardSinglePot(h) = Credit(h, PotFor(h))
  BY DEF AwardSinglePot, PotFor
<1>4. QED
  BY <1>2, <1>3, CreditLater

LEMMA SettleLater ==
  ASSUME NEW h, Sound(h)
  PROVE  LET g == Settle(h)
         IN  /\ Later(h, g) /\ g.stage = "showdown"
             /\ g.committed = h.committed /\ g.folded = h.folded /\ g.allIn = h.allIn
             /\ g.finals = h.finals + 1
             /\ \A s \in Seats : g.won[s] = h.won[s] + PrizeOf(h)[s]
<1> DEFINE f == Credit(h, PrizeOf(h))
           g == [f EXCEPT !.stage = "showdown"]
<1>1. PrizeOf(h) \in [Seats -> Nat] /\ Settle(h) = g
  BY PrizeFacts
<1>2. Sound(f)
  BY <1>1, CreditSound DEF Kept
<1>3. /\ Later(h, f) /\ f.committed = h.committed /\ f.folded = h.folded /\ f.allIn = h.allIn
      /\ f.finals = h.finals + 1 /\ \A s \in Seats : f.won[s] = h.won[s] + PrizeOf(h)[s]
  BY <1>1, CreditLater
<1> HIDE DEF f
<1>4. /\ g.id = f.id /\ g.dealt = f.dealt /\ g.score = f.score /\ g.stackIn = f.stackIn
      /\ g.committed = f.committed
      /\ g.folded = f.folded /\ g.allIn = f.allIn /\ g.finals = f.finals /\ g.won = f.won
      /\ g.stage = "showdown"
  BY <1>2 DEF Sound, Accounted, Hands
<1> HIDE DEF g
<1>5. Later(h, g)
  BY <1>3, <1>4 DEF Later
<1>6. QED
  BY <1>1, <1>3, <1>4, <1>5
---------------------------------------------------------------------------
\* What the actor does while it handles one command, on one street.
Moves(m, n) == Fit(n) /\ Later(m.hand, n.hand) /\ n.hand.stage = m.hand.stage

LEMMA MovesTransitive ==
  ASSUME NEW m, Fit(m), NEW n, NEW o, Moves(m, n), Moves(n, o)
  PROVE  Moves(m, o)
<1>1. Accounted(m.hand) /\ Accounted(n.hand) /\ Accounted(o.hand)
  BY DEF Moves, Fit, Sound
<1>2. QED
  BY <1>1, LaterTransitive DEF Moves

\* A machine with this hand in it is fit, and moves if the hand does.
LEMMA MovesTo ==
  ASSUME NEW m, Fit(m), NEW n, Fit(n), Betting(m.hand, n.hand)
  PROVE  Moves(m, n)
BY DEF Moves, Betting

LEMMA MaybeFinishMoves ==
  ASSUME NEW m, Fit(m)
  PROVE  Moves(m, MaybeFinishStreetOrHand(m))
<1> DEFINE n == MaybeFinishStreetOrHand(m)
<1>1. Fit(n)
  BY MaybeFinishFit DEF Onward
<1>2. n.hand = AwardSinglePot(m.hand) \/ n.hand = Advance(m.hand) \/ n.hand = m.hand
  <2> DEFINE moved == [m EXCEPT !.hand = Advance(m.hand), !.ask = TRUE]
             closing == [m EXCEPT !.due = Schedule(m.due, AdvanceCmd(m.hand.id))]
  <2>1. EndByFoldOut(m).hand = AwardSinglePot(m.hand)
    BY DEF EndByFoldOut, Fit, Machines
  <2>2. moved.hand = Advance(m.hand) /\ closing.hand = m.hand
    BY DEF Fit, Machines
  <2>3. n = EndByFoldOut(m) \/ n = moved \/ n = closing
    BY Zenon DEF MaybeFinishStreetOrHand
  <2> HIDE DEF n, moved, closing
  <2>4. QED
    BY <2>1, <2>2, <2>3
<1>3. Sound(m.hand) /\ Accounted(m.hand) /\ 0 \in Seats
  BY MaxSeatsAssumption DEF Fit, Sound, Seats
<1> HIDE DEF n
<1>4. Later(m.hand, n.hand) /\ n.hand.stage = m.hand.stage
  BY <1>2, <1>3, AwardLater, QuietMethods, BettingReflexive DEF Betting
<1>5. QED
  BY <1>1, <1>4 DEF Moves, n

LEMMA ActMoves ==
  ASSUME NEW m, Fit(m), NEW s, NEW intent \in [kind : ActionKinds, amount : Int],
         Accepts(m.hand, s, intent)
  PROVE  Moves(m, Act(m, s, intent))
<1> DEFINE g == Apply(m.hand, s, intent)
           h == ClearPending(g, s)
           m1 == [m EXCEPT !.hand = h]
           m2 == [m1 EXCEPT !.turn = NoTurn]
           m3 == [m2 EXCEPT !.ask = FALSE]
<1>1. Kept(m.hand, g) /\ s \in Seats
  BY FitFacts, ApplySound DEF Sound, Accounted, Hands
<1>2. Betting(m.hand, g)
  BY FitFacts, ApplyBetting
<1> HIDE DEF g
<1>3. Kept(g, h) /\ Betting(g, h)
  <2>1. NoPending \in Pendings
    BY DEF NoPending, Pendings, PendingKinds
  <2>2. Sound(g) /\ Accounted(g)
    BY <1>1 DEF Kept, Sound
  <2>3. QED
    BY <1>1, <2>1, <2>2, PendingSound, QuietMethods DEF ClearPending
<1>4. Kept(m.hand, h) /\ Betting(m.hand, h)
  <2>1. Accounted(m.hand) /\ Accounted(g) /\ Accounted(h)
    BY <1>1, <1>3 DEF Fit, Kept, Sound
  <2>2. QED
    BY <1>1, <1>2, <1>3, <2>1, BettingTransitive DEF Kept
<1> HIDE DEF h
<1>5. Fit(m1) /\ m1.hand = h
  BY <1>4, Replace DEF Onward, Fit, Machines
<1> HIDE DEF m1
<1>6. Fit(m2) /\ m2.hand = h
  BY <1>5, Replace, NoTurnFacts DEF Onward, Fit, Machines
<1> HIDE DEF m2
<1>7. Fit(m3) /\ m3.hand = h
  BY <1>6, Replace DEF Onward, Fit, Machines
<1> HIDE DEF m3
<1>8. Moves(m, m3)
  BY <1>4, <1>7, MovesTo
<1>9. Moves(m, MaybeFinishStreetOrHand(m3))
  BY <1>7, <1>8, MaybeFinishMoves, MovesTransitive
<1>10. m3 = [m EXCEPT !.hand = ClearPending(Apply(m.hand, s, intent), s),
                      !.turn = NoTurn, !.ask = FALSE]
  BY DEF m3, m2, m1, h, g
<1>11. QED
  BY <1>9, <1>10 DEF Act

LEMMA AskMoves ==
  ASSUME NEW m, Fit(m)
  PROVE  Moves(m, Ask(m))
<1>1. Moves(m, m)
  BY BettingReflexive DEF Moves, Betting, Fit, Sound
<1>2. ASSUME NEW n, Fit(n), n.hand.toAct # NoSeat PROVE Moves(n, DropStale(n))
  <2> DEFINE s == n.hand.toAct
             h == ClearPending(n.hand, s)
  <2>1. s \in Seats /\ Accounted(n.hand)
    BY <1>2, FitFacts DEF SeatOrNone, Sound
  <2>2. Betting(n.hand, h)
    BY <2>1, QuietMethods DEF ClearPending
  <2>3. Fit(DropStale(n))
    BY <1>2, DropStaleFit DEF Onward
  <2>4. DropStale(n).hand = h \/ DropStale(n).hand = n.hand
    <3> HIDE DEF h
    <3>1. [n EXCEPT !.hand = h].hand = h
      BY <1>2 DEF Fit, Machines
    <3>2. DropStale(n) = [n EXCEPT !.hand = h] \/ DropStale(n) = n
      BY Zenon DEF DropStale, h
    <3>3. QED
      BY <3>1, <3>2
  <2>5. QED
    BY <1>2, <2>1, <2>2, <2>3, <2>4, BettingReflexive, MovesTo
<1>3. ASSUME NEW n, Fit(n) PROVE Moves(n, [ArmTurnTimer(n) EXCEPT !.ask = FALSE])
  <2> DEFINE o == ArmTurnTimer(n)
             p == [o EXCEPT !.ask = FALSE]
  <2>1. Fit(o) /\ o.hand = n.hand
    BY <1>3, ArmFit DEF ArmTurnTimer, Onward, Fit, Machines
  <2> HIDE DEF o
  <2>2. Fit(p) /\ p.hand = n.hand
    BY <2>1, Replace DEF Onward, Fit, Machines
  <2> HIDE DEF p
  <2>3. Moves(n, p)
    BY <1>3, <2>2, BettingReflexive, MovesTo DEF Fit, Sound
  <2>4. QED
    BY <2>3 DEF p, o
<1>4. ASSUME m.hand.toAct = NoSeat PROVE Moves(m, BroadcastToAct(m))
  <2>1. Moves(m, [m EXCEPT !.ask = FALSE])
    <3> DEFINE p == [m EXCEPT !.ask = FALSE]
    <3>1. Fit(p) /\ p.hand = m.hand
      BY Replace DEF Onward, Fit, Machines
    <3> HIDE DEF p
    <3>2. Moves(m, p)
      BY <3>1, BettingReflexive, MovesTo DEF Fit, Sound
    <3>3. QED
      BY <3>2 DEF p
  <2>2. QED
    BY <1>4, <2>1 DEF BroadcastToAct
<1>5. ASSUME m.hand.toAct # NoSeat, Fires(m) PROVE Moves(m, BroadcastToAct(m))
  <2>1. Accepts(m.hand, m.hand.toAct, Resolved(m))
    BY <1>5 DEF Fires
  <2>2. Resolved(m) \in [kind : ActionKinds, amount : Int]
    BY <2>1, FitFacts, ResolvedIntent DEF Resolved
  <2>3. Moves(m, Act(m, m.hand.toAct, Resolved(m)))
    BY <2>1, <2>2, ActMoves
  <2>4. QED
    BY <1>5, <2>3 DEF BroadcastToAct
<1>6. ASSUME m.hand.toAct # NoSeat, ~Fires(m) PROVE Moves(m, BroadcastToAct(m))
  <2> DEFINE n == DropStale(m)
             p == [ArmTurnTimer(n) EXCEPT !.ask = FALSE]
  <2>1. Moves(m, n)
    BY <1>2, <1>6
  <2> HIDE DEF n
  <2>2. Moves(n, p)
    BY <1>3, <2>1 DEF Moves
  <2> HIDE DEF p
  <2>3. Moves(m, p)
    BY <2>1, <2>2, MovesTransitive
  <2>4. BroadcastToAct(m) = p
    BY <1>6 DEF BroadcastToAct, p, n
  <2>5. QED
    BY <2>3, <2>4
<1>7. Ask(m) = BroadcastToAct(m) \/ Ask(m) = m
  BY Zenon DEF Ask
<1>8. QED
  BY <1>1, <1>4, <1>5, <1>6, <1>7

LEMMA ChainMoves ==
  ASSUME NEW m, Fit(m)
  PROVE  Moves(m, Chain(m))
<1>1. \A n : Moves(m, n) => Moves(m, Ask(n))
  BY AskMoves, MovesTransitive DEF Moves
<1>2. Moves(m, Ask(m))
  BY AskMoves
<1>3. Moves(m, Ask(Ask(Ask(Ask(m)))))
  BY <1>1, <1>2
<1>4. Moves(m, Ask(Ask(Ask(Ask(Ask(Ask(Ask(m))))))))
  BY <1>1, <1>3
<1>5. QED
  BY <1>4 DEF Chain

\* A showdown is a settlement of the bets as they stand; otherwise the street moves
\* on, and nobody pays for a street.
Shown(h, g) ==
  \E f : /\ Sound(f) /\ g = Settle(f)
         /\ f.committed = h.committed /\ f.folded = h.folded /\ f.dealt = h.dealt
         /\ f.score = h.score /\ f.won = h.won

LEMMA NextStreetMoves ==
  ASSUME NEW m, Fit(m)
  PROVE  LET g == NextStreet(m).hand
         IN  /\ Later(m.hand, g)
             /\ g.stage = "showdown" /\ m.hand.stage # "showdown" => Shown(m.hand, g)
<1>1. Sound(m.hand) /\ Accounted(m.hand) /\ 0 \in Seats
  BY MaxSeatsAssumption DEF Fit, Sound, Seats
<1>2. \A n \in Machines : SettleAndBroadcast(n).hand = Settle(n.hand)
  BY DEF SettleAndBroadcast, Machines
<1>3. CASE m.hand.stage = "river"
  <2>1. NextStreet(m) = SettleAndBroadcast(m)
    BY <1>3 DEF NextStreet
  <2>2. NextStreet(m).hand = Settle(m.hand)
    BY <1>2, <2>1 DEF Fit
  <2>3. Shown(m.hand, Settle(m.hand))
    BY <1>1 DEF Shown
  <2>4. QED
    BY <1>1, <2>2, <2>3, SettleLater
<1>4. CASE m.hand.stage # "river"
  <2> DEFINE dealt == DealStreet(m.hand)
             h == ResetForNextStreet(dealt)
             n == [m EXCEPT !.hand = h]
             asking == [n EXCEPT !.ask = TRUE]
             closing == [n EXCEPT !.due = Schedule(@, AdvanceCmd(m.hand.id))]
  <2>1. /\ Sound(dealt) /\ Accounted(dealt) /\ Kept(m.hand, dealt) /\ Later(m.hand, dealt)
        /\ dealt.won = m.hand.won /\ dealt.committed = m.hand.committed
        /\ dealt.folded = m.hand.folded
        /\ dealt.stage = "showdown" => m.hand.stage = "showdown"
    BY <1>1, PointsSound, StreetLater DEF Kept, Sound
  <2> HIDE DEF dealt
  <2>2. /\ Kept(dealt, h) /\ Betting(dealt, h)
        /\ h.committed = dealt.committed /\ h.folded = dealt.folded
    BY <1>1, <2>1, PointsSound, QuietMethods DEF ResetForNextStreet, Accounted, Hands
  <2>3. Sound(h) /\ Accounted(h) /\ Kept(m.hand, h)
    BY <2>1, <2>2 DEF Kept, Sound
  <2> HIDE DEF h
  <2>4. Later(m.hand, h)
    BY <1>1, <2>1, <2>2, <2>3, LaterTransitive DEF Betting
  <2>5. Fit(n) /\ n.hand = h
    BY <2>3, Replace DEF Onward, Fit, Machines
  <2>6. Shown(m.hand, Settle(h)) /\ Later(m.hand, Settle(h))
    <3>1. /\ h.dealt = m.hand.dealt /\ h.score = m.hand.score /\ h.won = m.hand.won
          /\ h.committed = m.hand.committed /\ h.folded = m.hand.folded
      BY <2>1, <2>2 DEF Betting, Later
    <3>2. Accounted(Settle(h)) /\ Later(h, Settle(h))
      BY <2>3, SettleSound, SettleLater DEF Kept, Sound
    <3>3. Later(m.hand, Settle(h))
      BY <1>1, <2>3, <2>4, <3>2, LaterTransitive
    <3>4. QED
      BY <2>3, <3>1, <3>3 DEF Shown
  <2> HIDE DEF n
  <2>7. Fit(asking) /\ asking.hand = h /\ closing.hand = h
    BY <2>5, Replace DEF Onward, Fit, Machines
  <2>8. SettleAndBroadcast(n).hand = Settle(h)
    BY <1>2, <2>5 DEF Fit
  <2>9. /\ Later(m.hand, Chain(asking).hand)
        /\ Chain(asking).hand.stage = h.stage
    <3> HIDE DEF asking
    <3>1. Moves(asking, Chain(asking))
      BY <2>7, ChainMoves
    <3>2. Accounted(Chain(asking).hand)
      BY <3>1 DEF Moves, Fit, Sound
    <3>3. QED
      BY <1>1, <2>3, <2>4, <2>7, <3>1, <3>2, LaterTransitive DEF Moves
  <2>10. h.stage = "showdown" => m.hand.stage = "showdown"
    BY <2>1, <2>2 DEF Betting
  <2>11. \/ NextStreet(m) = Chain(asking)
         \/ NextStreet(m) = SettleAndBroadcast(n)
         \/ NextStreet(m) = closing
    BY <1>4, Zenon DEF NextStreet, n, h, dealt, asking, closing
  <2> HIDE DEF asking, closing
  <2>12. QED
    BY <2>4, <2>6, <2>7, <2>8, <2>9, <2>10, <2>11
<1>5. QED
  BY <1>3, <1>4

LEMMA LeaveHandMoves ==
  ASSUME TypeOK, Sound(hand), NEW s \in NotFolded(hand)
  PROVE  Later(hand, LeaveHand(s).hand) /\ LeaveHand(s).hand.stage = hand.stage
<1> DEFINE folded == Fold(hand, s)
           gone == FoldLeaver(hand, s)
           m == IF hand.toAct = s THEN Machine(Advance(gone), NoTurn, due)
                ELSE Machine(gone, turn, due)
<1>1. s \in hand.dealt /\ s \in Seats /\ Accounted(hand)
  BY DEF NotFolded, Sound, Accounted, Hands
<1>2. Kept(hand, folded) /\ Betting(hand, folded)
  BY <1>1, FoldSound, QuietMethods
<1> HIDE DEF folded
<1>3. Kept(hand, gone) /\ Betting(folded, gone)
  <2>1. NoPending \in Pendings
    BY DEF NoPending, Pendings, PendingKinds
  <2>2. Kept(folded, ClearPending(folded, s))
    BY <1>1, <1>2, <2>1, PendingSound DEF Kept
  <2>3. Betting(folded, ClearPending(folded, s))
    BY <1>1, <1>2, QuietMethods DEF Kept, Sound, ClearPending
  <2>4. QED
    BY <1>2, <2>2, <2>3 DEF Kept, FoldLeaver, folded
<1> HIDE DEF gone
<1>4. Accounted(folded) /\ Accounted(gone)
  BY <1>2, <1>3 DEF Kept, Sound
<1>5. Kept(hand, Advance(gone)) /\ Betting(gone, Advance(gone))
  BY <1>1, <1>3, <1>4, PointsSound, QuietMethods DEF Kept
<1>6. Betting(hand, gone)
  BY <1>1, <1>2, <1>3, <1>4, BettingTransitive
<1>7. Betting(hand, Advance(gone))
  BY <1>1, <1>4, <1>5, <1>6, BettingTransitive DEF Kept, Sound
<1>8. Fit(m) /\ Betting(hand, m.hand)
  <2>1. hand.id \in HandIds /\ turn \in Turns /\ due \in [Commands -> Nat]
    BY DEF TypeOK
  <2>2. Fit(Machine(gone, turn, due)) /\ Machine(gone, turn, due).hand = gone
    BY <1>3, <2>1, MachineFit DEF Kept
  <2>3. /\ Fit(Machine(Advance(gone), NoTurn, due))
        /\ Machine(Advance(gone), NoTurn, due).hand = Advance(gone)
    BY <1>5, <2>1, MachineFit, NoTurnFacts DEF Kept
  <2>4. QED
    BY <1>6, <1>7, <2>2, <2>3
<1> HIDE DEF m
<1> DEFINE n == MaybeFinishStreetOrHand(m)
<1>9. Moves(m, n) /\ Fit(n)
  BY <1>8, MaybeFinishMoves DEF Moves
<1> HIDE DEF n
<1>10. Moves(m, Chain(n))
  BY <1>8, <1>9, ChainMoves, MovesTransitive
<1>11. LeaveHand(s) = Chain(n)
  BY DEF LeaveHand, m, gone, n
<1>12. QED
  BY <1>1, <1>8, <1>10, <1>11, LaterTransitive DEF Moves, Betting, Fit, Sound
---------------------------------------------------------------------------
\* Seats that were not dealt in put nothing into the pot.
OnlyDealtPay(h) == \A s \in Seats \ h.dealt : h.committed[s] = 0

LEMMA LaterOnlyDealt ==
  ASSUME NEW h, NEW g, Later(h, g), OnlyDealtPay(h)
  PROVE  OnlyDealtPay(g)
BY DEF Later, OnlyDealtPay

\* A hand before anybody has acted in it.
Untouched(h) == /\ h.folded = {} /\ h.won = Nothing /\ h.finals = 0
                /\ \A s \in Seats : h.pending[s] = NoPending

LEMMA BlindPays ==
  ASSUME NEW h, Accounted(h), NEW s \in h.dealt, NEW amount \in Nat, Untouched(h)
  PROVE  LET g == PostBlind(h, s, amount)
         IN  /\ Accounted(g) /\ Untouched(g)
             /\ g.dealt = h.dealt /\ g.button = h.button /\ g.stackIn = h.stackIn
             /\ g.committed[s] = h.committed[s] + Lower(amount, h.stack[s])
             /\ \A o \in Seats \ {s} : /\ g.committed[o] = h.committed[o]
                                       /\ g.stack[o] = h.stack[o]
<1> DEFINE g == PostBlind(h, s, amount)
           pay == Lower(amount, h.stack[s])
<1>1. /\ s \in Seats /\ h.committed \in [Seats -> Nat] /\ h.stack \in [Seats -> Nat]
      /\ h.pending \in [Seats -> Pendings]
  BY DEF Accounted, Hands
<1>2. /\ g.dealt = h.dealt /\ g.button = h.button /\ g.stackIn = h.stackIn
      /\ g.folded = h.folded /\ g.won = h.won /\ g.finals = h.finals /\ g.pending = h.pending
      /\ g.committed = [h.committed EXCEPT ![s] = h.committed[s] + pay]
      /\ g.stack = [h.stack EXCEPT ![s] = h.stack[s] - pay]
  BY DEF PostBlind, Accounted, Hands
<1>3. Accounted(g)
  BY PostBlindSound
<1> HIDE DEF g, pay
<1>4. /\ g.committed[s] = h.committed[s] + pay
      /\ \A o \in Seats \ {s} : g.committed[o] = h.committed[o] /\ g.stack[o] = h.stack[o]
  BY <1>1, <1>2
<1>5. QED
  BY <1>2, <1>3, <1>4 DEF Untouched, g, pay

LEMMA DeadBlindsPay ==
  ASSUME NEW h, Accounted(h), NEW D \in SUBSET h.dealt, Untouched(h)
  PROVE  LET g == PostDeadBlinds(h, D)
         IN  /\ Accounted(g) /\ Untouched(g)
             /\ g.dealt = h.dealt /\ g.button = h.button /\ g.stackIn = h.stackIn
             /\ \A o \in D : g.committed[o] = h.committed[o] + Lower(BigBlind, h.stack[o])
             /\ \A o \in Seats \ D : /\ g.committed[o] = h.committed[o]
                                     /\ g.stack[o] = h.stack[o]
<1> DEFINE g == PostDeadBlinds(h, D)
           Pay(s) == IF s \in D THEN Lower(BigBlind, h.stack[s]) ELSE 0
<1>1. /\ D \subseteq Seats /\ h.committed \in [Seats -> Nat] /\ h.stack \in [Seats -> Nat]
      /\ h.pending \in [Seats -> Pendings]
  BY DEF Accounted, Hands
<1>2. /\ g.dealt = h.dealt /\ g.button = h.button /\ g.stackIn = h.stackIn
      /\ g.folded = h.folded /\ g.won = h.won /\ g.finals = h.finals /\ g.pending = h.pending
      /\ g.committed = [s \in Seats |-> h.committed[s] + Pay(s)]
      /\ g.stack = [s \in Seats |-> h.stack[s] - Pay(s)]
  BY DEF PostDeadBlinds, Accounted, Hands
<1>3. Accounted(g)
  BY PostDeadBlindsSound
<1>4. /\ \A s \in Seats \ D : Pay(s) = 0
      /\ \A s \in D : Pay(s) = Lower(BigBlind, h.stack[s])
  OBVIOUS
<1> HIDE DEF g, Pay
<1>5. /\ \A s \in Seats : /\ g.committed[s] = h.committed[s] + Pay(s)
                          /\ g.stack[s] = h.stack[s] - Pay(s)
      /\ \A s \in Seats : h.committed[s] \in Nat /\ h.stack[s] \in Nat
  BY <1>1, <1>2
<1>6. /\ \A s \in D : g.committed[s] = h.committed[s] + Lower(BigBlind, h.stack[s])
      /\ \A s \in Seats \ D : g.committed[s] = h.committed[s] /\ g.stack[s] = h.stack[s]
  BY <1>1, <1>4, <1>5
<1>7. QED
  BY <1>2, <1>3, <1>6 DEF Untouched, g

\* h has just been dealt to the seats of `dealt', who brought `chips' and of whom those of
\* D owed a big blind: everybody has paid what the blinds ask, and nothing else.
DealtTo(h, dealt, chips, D) ==
  /\ h.dealt = dealt /\ h.stackIn = chips
  /\ Untouched(h)
  /\ \A s \in Seats \ dealt : h.committed[s] = 0
  /\ \A s \in dealt :
       LET owed == Lower(BigBlind, chips[s])
       IN  IF s = BigBlindSeat(h) THEN h.committed[s] = owed
           ELSE /\ s \in D => h.committed[s] >= owed
                /\ h.committed[s] <= SmallBlind + IF s \in D THEN owed ELSE 0

LEMMA StartDeals ==
  ASSUME NEW id \in Nat, NEW place \in Seats, NEW dealt \in SUBSET Seats,
         NEW chips \in [Seats -> Nat], NEW score \in [Seats -> Nat],
         NEW D \in SUBSET dealt, NEW a \in dealt, NEW b \in dealt, a # b, place \in dealt,
         ProperBlinds
  PROVE  DealtTo(StartPreflop(NewHand(id, place, dealt, chips, score), D), dealt, chips, D)
<1> DEFINE h == NewHand(id, place, dealt, chips, score)
           sb == SmallBlindSeat(h)
           bb == BigBlindSeat(h)
           E == SkipNatural(D, bb)
           dead == PostDeadBlinds(h, E)
           small == PostBlind(dead, sb, SmallBlind)
           big == PostBlind(small, bb, BigBlind)
           actor == IF HeadsUp(h) THEN sb ELSE NextActorAfter(big, bb)
           g == [big EXCEPT !.currentBet = BigBlind, !.minRaise = BigBlind,
                            !.stage = "preflop", !.toAct = actor]
<1>1. /\ Nothing \in [Seats -> Nat] /\ \A s \in Seats : Nothing[s] = 0
      /\ [s \in Seats |-> NoPending] \in [Seats -> Pendings]
      /\ "waiting" \in Stages /\ NoSeat \in SeatOrNone
  BY DEF Nothing, NoPending, Pendings, PendingKinds, Stages, SeatOrNone
<1>2. h \in Hands /\ h.dealt = dealt /\ h.button = place /\ h.committed = Nothing
      /\ h.stackIn = chips /\ h.stack = chips
  BY <1>1 DEF NewHand, Hands
<1>3. Accounted(h) /\ Untouched(h)
  <2>1. Accounted(h)
    BY <1>1, <1>2 DEF NewHand, Accounted
  <2>2. /\ h.folded = {} /\ h.won = Nothing /\ h.finals = 0
        /\ h.pending = [s \in Seats |-> NoPending]
    BY DEF NewHand
  <2> HIDE DEF h
  <2>3. QED
    BY <2>1, <2>2 DEF Untouched
<1> HIDE DEF h
<1>4. sb \in dealt
  BY <1>2, NextInFacts DEF SmallBlindSeat, NextSeatedAfter, SeatOrNone
<1>5. bb \in dealt /\ bb # sb
  <2>1. PICK other \in dealt : other # sb
    OBVIOUS
  <2> HIDE DEF sb
  <2>2. NextIn(sb, dealt) \in dealt \ {sb}
    BY <1>4, <2>1, NextIsAnother
  <2>3. bb = NextIn(sb, dealt)
    BY <1>2 DEF BigBlindSeat, NextSeatedAfter, sb
  <2>4. QED
    BY <2>2, <2>3
<1>6. \A f : f.dealt = dealt /\ f.button = place => BigBlindSeat(f) = bb
  BY <1>2 DEF BigBlindSeat, SmallBlindSeat, NextSeatedAfter, HeadsUp
<1>7. E \in SUBSET dealt /\ E = D \ {bb}
  BY DEF SkipNatural
<1> HIDE DEF sb, bb, E
<1>8. /\ Accounted(dead) /\ Untouched(dead)
      /\ dead.dealt = dealt /\ dead.button = place /\ dead.stackIn = chips
      /\ \A s \in E : dead.committed[s] = h.committed[s] + Lower(BigBlind, h.stack[s])
      /\ \A s \in Seats \ E : dead.committed[s] = h.committed[s] /\ dead.stack[s] = h.stack[s]
  BY <1>2, <1>3, <1>7, DeadBlindsPay
<1> HIDE DEF dead
<1>9. /\ Accounted(small) /\ Untouched(small)
      /\ small.dealt = dealt /\ small.button = place /\ small.stackIn = chips
      /\ small.committed[sb] = dead.committed[sb] + Lower(SmallBlind, dead.stack[sb])
      /\ \A s \in Seats \ {sb} : /\ small.committed[s] = dead.committed[s]
                                 /\ small.stack[s] = dead.stack[s]
  BY <1>4, <1>8, BlindPays, ProperBlinds DEF ProperBlinds
<1> HIDE DEF small
<1>10. /\ Accounted(big) /\ Untouched(big)
       /\ big.dealt = dealt /\ big.button = place /\ big.stackIn = chips
       /\ big.committed[bb] = small.committed[bb] + Lower(BigBlind, small.stack[bb])
       /\ \A s \in Seats \ {bb} : big.committed[s] = small.committed[s]
  BY <1>5, <1>9, BlindPays, ProperBlinds DEF ProperBlinds
<1> HIDE DEF big, actor
<1>11. /\ g.dealt = big.dealt /\ g.committed = big.committed /\ g.button = big.button
       /\ g.stackIn = big.stackIn /\ g.folded = big.folded /\ g.won = big.won
       /\ g.finals = big.finals /\ g.pending = big.pending
  BY <1>10 DEF Accounted, Hands
<1> HIDE DEF g
<1>12. \A s \in Seats : chips[s] \in Nat /\ dead.stack[s] \in Nat
  BY <1>8 DEF Accounted, Hands
<1>13. /\ \A s \in E : dead.committed[s] = Lower(BigBlind, chips[s])
       /\ \A s \in Seats \ E : dead.committed[s] = 0 /\ dead.stack[s] = chips[s]
  <2>1. \A s \in Seats : h.committed[s] = 0 /\ h.stack[s] = chips[s]
    BY <1>1, <1>2
  <2>2. \A s \in Seats : Lower(BigBlind, chips[s]) \in Nat
    BY <1>12, ProperBlinds DEF ProperBlinds, Lower
  <2>3. QED
    BY <1>7, <1>8, <2>1, <2>2
<1>14. g.committed[bb] = Lower(BigBlind, chips[bb])
  <2>1. small.committed[bb] = 0 /\ small.stack[bb] = chips[bb]
    BY <1>5, <1>7, <1>9, <1>13
  <2>2. Lower(BigBlind, chips[bb]) \in Nat
    BY <1>5, <1>12, ProperBlinds DEF ProperBlinds, Lower
  <2>3. QED
    BY <1>10, <1>11, <2>1, <2>2
<1>15. ASSUME NEW s \in dealt, s # bb
       PROVE  /\ s \in D => g.committed[s] >= Lower(BigBlind, chips[s])
              /\ g.committed[s] <= SmallBlind + IF s \in D THEN Lower(BigBlind, chips[s]) ELSE 0
  <2> DEFINE owed == Lower(BigBlind, chips[s])
             extra == IF s = sb THEN Lower(SmallBlind, dead.stack[sb]) ELSE 0
  <2>1. owed \in Nat /\ extra \in Nat /\ extra <= SmallBlind /\ SmallBlind \in Nat
    BY <1>4, <1>12, <1>15, ProperBlinds DEF ProperBlinds, Lower
  <2>2. dead.committed[s] = IF s \in D THEN owed ELSE 0
    BY <1>7, <1>13, <1>15
  <2>3. g.committed[s] = small.committed[s]
    BY <1>10, <1>11, <1>15
  <2>4. CASE s = sb
    <3>1. g.committed[s] = dead.committed[s] + extra
      BY <1>9, <2>3, <2>4
    <3> HIDE DEF owed, extra
    <3>2. QED
      BY <2>1, <2>2, <3>1 DEF owed
  <2>5. CASE s # sb
    <3>1. g.committed[s] = dead.committed[s]
      BY <1>9, <1>15, <2>3, <2>5
    <3> HIDE DEF owed, extra
    <3>2. QED
      BY <2>1, <2>2, <3>1 DEF owed
  <2>6. QED
    BY <2>4, <2>5
<1>16. \A s \in Seats \ dealt : g.committed[s] = 0
  BY <1>4, <1>5, <1>7, <1>9, <1>10, <1>11, <1>13
<1>17. BigBlindSeat(g) = bb
  BY <1>6, <1>10, <1>11
<1>18. DealtTo(g, dealt, chips, D)
  BY <1>10, <1>11, <1>14, <1>15, <1>16, <1>17 DEF DealtTo, Untouched
<1>19. StartPreflop(NewHand(id, place, dealt, chips, score), D) = g
  BY DEF StartPreflop, g, big, small, dead, actor, E, sb, bb, h
<1>20. QED
  BY <1>18, <1>19

\* Nobody has armed a pre-action yet, so nobody acts before he is asked.
LEMMA FirstQuestion ==
  ASSUME NEW m, Fit(m), Untouched(m.hand),
         NEW dealt, NEW chips, NEW D, DealtTo(m.hand, dealt, chips, D)
  PROVE  DealtTo(Chain(m).hand, dealt, chips, D)
<1> DEFINE s == m.hand.toAct
           h == ClearPending(m.hand, s)
           cleared == [m EXCEPT !.hand = h]
           armed == ArmTurnTimer(cleared)
           asked == [armed EXCEPT !.ask = FALSE]
           quiet == [m EXCEPT !.ask = FALSE]
<1>1. \A n : n.ask = FALSE => Ask(n) = n
  BY DEF Ask
<1>2. m.ask = FALSE \/ Ask(m) = BroadcastToAct(m)
  BY DEF Ask
<1>3. quiet.hand = m.hand /\ quiet.ask = FALSE
  BY DEF Fit, Machines
<1>4. ASSUME s # NoSeat
      PROVE  /\ BroadcastToAct(m) = asked
             /\ asked.ask = FALSE /\ asked.hand = h
             /\ DealtTo(h, dealt, chips, D)
  <2>1. s \in Seats /\ Accounted(m.hand)
    BY <1>4, FitFacts DEF SeatOrNone, Sound
  <2>2. m.hand.pending[s].kind = "none"
    BY <2>1 DEF Untouched, NoPending
  <2>3. Resolved(m) = [kind |-> "none", amount |-> 0]
    BY <2>2 DEF Resolved, ResolvePending
  <2>4. ~Fires(m)
    BY <2>3 DEF Fires, Accepts
  <2>5. DropStale(m) = cleared
    BY <2>3 DEF DropStale
  <2>6. BroadcastToAct(m) = asked
    BY <1>4, <2>4, <2>5 DEF BroadcastToAct
  <2>7. cleared.hand = h /\ armed.hand = cleared.hand /\ armed.ask = m.ask
        /\ asked.hand = armed.hand /\ asked.ask = FALSE
    BY DEF ArmTurnTimer, Fit, Machines
  <2>8. /\ h.dealt = m.hand.dealt /\ h.button = m.hand.button /\ h.stackIn = m.hand.stackIn
        /\ h.folded = m.hand.folded /\ h.won = m.hand.won /\ h.finals = m.hand.finals
        /\ h.committed = m.hand.committed
        /\ h.pending = [m.hand.pending EXCEPT ![s] = NoPending]
    BY <2>1 DEF ClearPending, SetPending, Accounted, Hands
  <2> HIDE DEF h
  <2>9. Untouched(h)
    <3>1. m.hand.pending \in [Seats -> Pendings]
      BY <2>1 DEF Accounted, Hands
    <3>2. \A o \in Seats : h.pending[o] = NoPending
      BY <2>8, <3>1 DEF Untouched
    <3>3. QED
      BY <2>8, <3>2 DEF Untouched
  <2>10. BigBlindSeat(h) = BigBlindSeat(m.hand)
    BY <2>8 DEF BigBlindSeat, SmallBlindSeat, NextSeatedAfter, HeadsUp
  <2>11. DealtTo(h, dealt, chips, D)
    BY <2>8, <2>9, <2>10 DEF DealtTo
  <2>12. QED
    BY <2>6, <2>7, <2>11
<1>5. s = NoSeat => BroadcastToAct(m) = quiet
  BY DEF BroadcastToAct
<1> HIDE DEF s, h, cleared, armed, asked, quiet
<1>6. \E n : n.ask = FALSE /\ DealtTo(n.hand, dealt, chips, D) /\ Ask(m) = n
  <2>1. CASE m.ask = FALSE
    BY <1>1, <2>1
  <2>2. CASE m.ask # FALSE /\ s = NoSeat
    BY <1>2, <1>3, <1>5, <2>2
  <2>3. CASE m.ask # FALSE /\ s # NoSeat
    BY <1>2, <1>4, <2>3
  <2>4. QED
    BY <2>1, <2>2, <2>3
<1>7. PICK n : n.ask = FALSE /\ DealtTo(n.hand, dealt, chips, D) /\ Ask(m) = n
  BY <1>6
<1>8. Chain(m) = n
  BY <1>1, <1>7 DEF Chain
<1>9. QED
  BY <1>7, <1>8
---------------------------------------------------------------------------
(* The steps of the table. *)

\* Every step keeps the hand going on its street, or shows it down, or deals the next
\* street, or ends it, or begins one.
Onwards == /\ Later(hand, hand')
           /\ hand'.stage = "showdown" /\ hand.stage # "showdown" => Shown(hand, hand')
Begun ==
  /\ hand.id = 0 /\ hand'.id # 0
  /\ DealtTo(hand', Participants(seats),
             [s \in Seats |-> IF s \in Participants(seats) THEN seats[s].stack ELSE 0],
             {s \in Participants(seats) : seats[s].owes})

LEMMA SameStreet ==
  ASSUME Inv, NEW n, Later(hand, n.hand), n.hand.stage = hand.stage, Become(n)
  PROVE  Onwards
BY DEF Onwards, Become

LEMMA TwoSeats ==
  ASSUME NEW S, Cardinality(S) >= 2
  PROVE  \E a, b \in S : a # b
<1>1. Cardinality({}) = 0 /\ \A a : Cardinality({a}) = 1
  BY FS_EmptySet, FS_Singleton
<1>2. ~(Cardinality({}) >= 2) /\ \A a : ~(Cardinality({a}) >= 2)
  BY <1>1
<1>3. S # {} /\ \A a : S # {a}
  BY <1>2, Zenon
<1>4. QED
  BY <1>3

LEMMA StartHandStep ==
  ASSUME Inv, StartHand
  PROVE  Begun
<1> DEFINE in == Participants(seats)
           chips == [s \in Seats |-> IF s \in in THEN seats[s].stack ELSE 0]
           owing == {s \in in : seats[s].owes}
           start == Consume(due, StartCmd)
<1>1. hand.id = 0 /\ hand'.id = hands + 1 /\ hands + 1 \in Nat \ {0}
  <2>1. hands \in Nat
    BY TableAssumption DEF Inv, TypeOK, HandIds
  <2>2. hands + 1 \in Nat \ {0}
    BY <2>1
  <2>3. hand'.id = hands + 1
    BY StartHandInv
  <2>4. hand.id = 0
    BY Zenon DEF StartHand, StartReady, CanStart, HandOn
  <2>5. QED
    BY <2>2, <2>3, <2>4
<1>2. PICK score \in Deals :
        LET h == NewHand(hands + 1, button', in, chips, score)
            m == Machine(StartPreflop(h, owing), turn, start)
        IN  Become(Chain([m EXCEPT !.ask = TRUE]))
  BY DEF StartHand
<1>3. in \in SUBSET Seats /\ owing \in SUBSET in /\ chips \in [Seats -> Nat]
  BY DEF Participants, Inv, TypeOK, Players
<1>4. \E a, b \in in : a # b
  BY TwoSeats DEF StartHand, StartReady, CanStart, ActivePlayers
<1>5. button' \in in
  <2>1. button \in SeatOrNone /\ in # {}
    BY <1>4 DEF Inv, TypeOK
  <2>2. button' = NextIn(button, in)
    BY DEF StartHand
  <2>3. QED
    BY <1>3, <2>1, <2>2, NextInFacts
<1>6. start \in [Commands -> Nat]
  <2>1. StartCmd \in Commands
    BY CommandFacts, TableAssumption DEF HandIds
  <2>2. QED
    BY <2>1, DueFacts DEF StartHand, StartReady, Inv, TypeOK
<1>7. hands + 1 \in HandIds
  BY TableAssumption DEF StartHand, StartReady, HandIds, Inv, TypeOK
<1> HIDE DEF in, chips, owing, start
<1> DEFINE h == NewHand(hands + 1, button', in, chips, score)
           g == StartPreflop(h, owing)
           m == Machine(g, turn, start)
           asking == [m EXCEPT !.ask = TRUE]
<1>8. Sound(g) /\ g.id = hands + 1 /\ DealtTo(g, in, chips, owing)
  <2>1. score \in [Seats -> Nat] /\ button' \in Seats
    BY <1>3, <1>5, TableAssumption
  <2>2. PICK a, b \in in : a # b
    BY <1>4
  <2>3. ProperBlinds
    BY DEF Inv, Sound, Accounted
  <2>4. QED
    BY <1>1, <1>3, <1>5, <2>1, <2>2, <2>3, StartSound, StartDeals
<1> HIDE DEF g
<1>9. Fit(m) /\ m.hand = g
  BY <1>6, <1>7, <1>8, MachineFit DEF Inv, TypeOK
<1> HIDE DEF m
<1>10. Fit(asking) /\ asking.hand = g
  BY <1>9, Replace DEF Onward, Fit, Machines
<1> HIDE DEF asking
<1>11. DealtTo(Chain(asking).hand, in, chips, owing)
  BY <1>8, <1>10, FirstQuestion DEF DealtTo
<1>12. Become(Chain(asking))
  BY <1>2 DEF asking, m, g
<1>13. QED
  BY <1>1, <1>11, <1>12 DEF Become, Begun, in, chips, owing

LEMMA AdvanceStreetStep ==
  ASSUME Inv, AdvanceStreet
  PROVE  Onwards
<1> DEFINE d == Consume(due, AdvanceCmd(hand.id))
           m == Machine(hand, turn, d)
<1>1. d \in [Commands -> Nat]
  BY CommandFacts, DueFacts DEF AdvanceStreet, AdvanceReady, Inv, TypeOK
<1>2. Fit(m) /\ m.hand = hand
  BY <1>1, MachineFit DEF Inv, TypeOK
<1>3. Become(NextStreet(m))
  BY DEF AdvanceStreet
<1> HIDE DEF m
<1>4. QED
  BY <1>2, <1>3, NextStreetMoves DEF Become, Onwards

\* An intent carried out in the present state, whoever asks for it.
LEMMA ActStep ==
  ASSUME Inv, NEW m, Fit(m), Betting(hand, m.hand), NEW s,
         NEW intent \in [kind : ActionKinds, amount : Int], Accepts(m.hand, s, intent),
         Become(Chain(Act(m, s, intent)))
  PROVE  Onwards
<1> DEFINE n == Act(m, s, intent)
<1>1. Moves(m, n) /\ Fit(n)
  BY ActMoves DEF Moves
<1> HIDE DEF n
<1>2. Moves(m, Chain(n))
  BY <1>1, ChainMoves, MovesTransitive
<1> DEFINE o == Chain(n)
<1>3. Later(hand, o.hand) /\ o.hand.stage = hand.stage
  BY <1>2, LaterTransitive DEF Moves, Betting, Inv, Fit, Sound
<1>4. Become(o)
  BY DEF o, n
<1>5. QED
  BY <1>3, <1>4, SameStreet

LEMMA ActionStep ==
  ASSUME Inv, NEW u \in Users, NEW intent \in Intents, NEW used \in BankUses,
         Action(u, intent, used)
  PROVE  Onwards
<1>1. PICK s \in Seats :
        IF Accepts(hand, s, intent)
        THEN Become(Chain(Act(Machine(hand, turn, due), s, intent)))
        ELSE UNCHANGED <<hand, turn, due>>
  BY DEF Action
<1> DEFINE m == Machine(hand, turn, due)
<1>2. Fit(m) /\ m.hand = hand
  BY MachineFit DEF Inv, TypeOK
<1>3. intent \in [kind : ActionKinds, amount : Int]
  BY TableAssumption
<1>4. Betting(hand, hand)
  BY BettingReflexive DEF Inv, Sound
<1> HIDE DEF m
<1>5. CASE Accepts(hand, s, intent)
  BY <1>1, <1>2, <1>3, <1>4, <1>5, ActStep DEF m
<1>6. CASE ~Accepts(hand, s, intent)
  BY <1>1, <1>4, <1>6 DEF Onwards, Betting
<1>7. QED
  BY <1>5, <1>6

LEMMA TurnTimeoutStep ==
  ASSUME Inv, TurnTimeout
  PROVE  Onwards
<1> DEFINE s == hand.toAct
           auto == AutoIntent(hand, s)
           d == Consume(due, TimeoutCmd(hand.id, s))
           m == Machine(hand, turn, d)
<1>1. s \in SeatOrNone
  BY DEF Inv, Sound, Accounted, Hands
<1>2. d \in [Commands -> Nat]
  BY <1>1, CommandFacts, DueFacts DEF TurnTimeout, TimeoutReady, Inv, TypeOK
<1>3. Fit(m) /\ m.hand = hand
  BY <1>2, MachineFit DEF Inv, TypeOK
<1>4. Become(IF Accepts(hand, s, auto) THEN Chain(Act(m, s, auto)) ELSE m)
  BY DEF TurnTimeout
<1>5. auto \in [kind : ActionKinds, amount : Int]
  BY DEF AutoIntent, ActionKinds
<1>6. Betting(hand, hand)
  BY BettingReflexive DEF Inv, Sound
<1> HIDE DEF m, auto
<1>7. CASE Accepts(hand, s, auto)
  BY <1>3, <1>4, <1>5, <1>6, <1>7, ActStep
<1>8. CASE ~Accepts(hand, s, auto)
  BY <1>3, <1>4, <1>6, <1>8, SameStreet DEF Betting
<1>9. QED
  BY <1>7, <1>8

LEMMA PreActionStep ==
  ASSUME Inv, NEW u \in Users, NEW p \in PreActions, PreAction(u, p)
  PROVE  Onwards
<1>1. PICK s \in Seats :
        LET m == Machine(SetPending(hand, s, p), turn, due)
        IN  Become(IF s # hand.toAct THEN m
                   ELSE IF Fires(m) THEN Chain(Act(m, s, Resolved(m)))
                   ELSE DropStale(m))
  BY DEF PreAction
<1> DEFINE armed == SetPending(hand, s, p)
           m == Machine(armed, turn, due)
<1>2. Kept(hand, armed) /\ armed.toAct = hand.toAct
  <2>1. p \in Pendings
    BY TableAssumption
  <2>2. QED
    BY <2>1, PendingSound DEF SetPending, Inv, TypeOK, Hands
<1>3. Betting(hand, armed)
  BY QuietMethods DEF Inv, Sound
<1> HIDE DEF armed
<1>4. Fit(m) /\ m.hand = armed
  BY <1>2, MachineFit DEF Inv, TypeOK, Kept
<1>5. Become(IF s # hand.toAct THEN m
             ELSE IF Fires(m) THEN Chain(Act(m, s, Resolved(m)))
             ELSE DropStale(m))
  BY <1>1 DEF m, armed
<1> HIDE DEF m
<1>6. CASE s # hand.toAct
  BY <1>3, <1>4, <1>5, <1>6, SameStreet DEF Betting
<1>7. CASE s = hand.toAct /\ Fires(m)
  <2>1. Accepts(m.hand, s, Resolved(m))
    BY <1>2, <1>4, <1>7 DEF Fires
  <2>2. Resolved(m) \in [kind : ActionKinds, amount : Int]
    BY <1>2, <1>4, <1>7, <2>1, FitFacts, ResolvedIntent DEF Resolved
  <2>3. Become(Chain(Act(m, s, Resolved(m))))
    BY <1>5, <1>7
  <2>4. QED
    BY <1>3, <1>4, <2>1, <2>2, <2>3, ActStep
<1>8. CASE s = hand.toAct /\ ~Fires(m)
  <2> DEFINE n == DropStale(m)
             h == ClearPending(armed, s)
  <2>1. Become(n)
    BY <1>5, <1>8
  <2>2. n.hand = h \/ n.hand = armed
    <3> HIDE DEF h
    <3>1. [m EXCEPT !.hand = h].hand = h
      BY <1>4 DEF Fit, Machines
    <3>2. ClearPending(m.hand, m.hand.toAct) = h
      BY <1>2, <1>4, <1>8 DEF h
    <3>3. DropStale(m) = [m EXCEPT !.hand = h] \/ DropStale(m) = m
      BY <3>2, Zenon DEF DropStale
    <3>4. QED
      BY <1>4, <3>1, <3>3
  <2>3. Betting(armed, h) /\ Accounted(h)
    <3>1. NoPending \in Pendings
      BY DEF NoPending, Pendings, PendingKinds
    <3>2. QED
      BY <1>2, <3>1, PendingSound, QuietMethods DEF ClearPending, Kept, Sound
  <2>4. Betting(hand, h)
    BY <1>2, <1>3, <2>3, BettingTransitive DEF Inv, Kept, Sound
  <2> HIDE DEF n, h
  <2>5. QED
    BY <1>3, <2>1, <2>2, <2>4, SameStreet DEF Betting
<1>9. QED
  BY <1>6, <1>7, <1>8

LEMMA LeaveStep ==
  ASSUME Inv, NEW u \in Users, Leave(u)
  PROVE  Onwards
<1>1. PICK s \in Seats :
        IF s \in NotFolded(hand) THEN Become(LeaveHand(s)) ELSE UNCHANGED <<hand, turn, due>>
  BY DEF Leave
<1>2. CASE s \in NotFolded(hand)
  BY <1>1, <1>2, LeaveHandMoves, SameStreet DEF Inv
<1>3. CASE s \notin NotFolded(hand)
  BY <1>1, <1>3, BettingReflexive DEF Onwards, Betting, Inv, Sound
<1>4. QED
  BY <1>2, <1>3

\* What becomes of a hand in one step.
LEMMA HandStep ==
  ASSUME Inv, [Next]_vars
  PROVE  Onwards \/ Begun \/ (EndHand /\ hand.id # 0 /\ hand' = NoHand)
<1>1. ASSUME UNCHANGED hand PROVE Onwards
  BY <1>1, BettingReflexive DEF Onwards, Betting, Inv, Sound
<1>2. CASE \E u \in Users, chips \in BuyIns : Sit(u, chips)
  BY <1>1, <1>2 DEF Sit
<1>3. CASE \E u \in Users : Leave(u)
  BY <1>3, LeaveStep
<1>4. CASE \E u \in Users : SitOut(u) \/ SitIn(u)
  BY <1>1, <1>4 DEF SitOut, SitIn
<1>5. CASE StartInVain \/ StaleCommand \/ StaleTimeout \/ Drop \/ TurnTimerFires
  BY <1>1, <1>5 DEF StartInVain, StaleCommand, StaleTimeout, Drop, TurnTimerFires
<1>6. CASE StartHand
  BY <1>6, StartHandStep
<1>7. CASE AdvanceStreet
  BY <1>7, AdvanceStreetStep
<1>8. CASE EndHand
  BY <1>8 DEF EndHand, EndReady, HandOn
<1>9. CASE \E u \in Users, intent \in Intents, used \in BankUses : Action(u, intent, used)
  BY <1>9, ActionStep
<1>10. CASE \E u \in Users, p \in PreActions : PreAction(u, p)
  BY <1>10, PreActionStep
<1>11. CASE TurnTimeout
  BY <1>11, TurnTimeoutStep
<1>12. CASE UNCHANGED vars
  BY <1>1, <1>12 DEF vars
<1>13. QED
  BY <1>2, <1>3, <1>4, <1>5, <1>6, <1>7, <1>8, <1>9, <1>10, <1>11, <1>12 DEF Next

\* A seat that folded or is all-in stays so for the hand and pays no more into it,
\* also when others leave, race their timeouts or act late (hand.go:351-498).
THEOREM OutStaysOut == ASSUME ProperBlinds PROVE Spec => OutOfBetting
<1>1. ASSUME Inv, [Next]_vars, SameHand
      PROVE  /\ hand.folded \subseteq hand'.folded /\ hand.allIn \subseteq hand'.allIn
             /\ \A s \in hand.folded \cup hand.allIn : hand'.committed[s] = hand.committed[s]
  <2>1. Later(hand, hand')
    BY <1>1, HandStep, NoHandSound DEF SameHand, Onwards, Begun
  <2>2. hand.folded \cup hand.allIn \subseteq Seats
    BY <1>1 DEF Inv, Sound, Accounted, Hands
  <2>3. QED
    BY <2>1, <2>2 DEF Later
<1>2. Inv /\ [Next]_vars =>
        [ SameHand => /\ hand.folded \subseteq hand'.folded
                      /\ hand.allIn \subseteq hand'.allIn
                      /\ \A s \in hand.folded \cup hand.allIn :
                            hand'.committed[s] = hand.committed[s] ]_vars
  BY <1>1
<1>3. QED
  BY <1>2, Invariance, PTL DEF Spec, OutOfBetting

\* In every hand only the seats dealt in pay.
LEMMA DealtPay == ASSUME ProperBlinds PROVE Spec => []OnlyDealtPay(hand)
<1>1. OnlyDealtPay(NoHand)
  BY DEF OnlyDealtPay, NoHand, NewHand, Nothing
<1>2. Init => OnlyDealtPay(hand)
  BY <1>1 DEF Init
<1>3. Inv /\ OnlyDealtPay(hand) /\ [Next]_vars => OnlyDealtPay(hand)'
  <2> SUFFICES ASSUME Inv, OnlyDealtPay(hand), [Next]_vars PROVE OnlyDealtPay(hand')
    OBVIOUS
  <2>1. Begun => OnlyDealtPay(hand')
    BY DEF Begun, DealtTo, OnlyDealtPay
  <2>2. Onwards => OnlyDealtPay(hand')
    BY LaterOnlyDealt DEF Onwards
  <2>3. QED
    BY <1>1, <2>1, <2>2, HandStep
<1>4. QED
  BY <1>2, <1>3, Invariance, PTL DEF Spec

\* Who owes a big blind when dealt in pays it once, as far as the stack goes, and the
\* natural big blind never pays it twice, whoever it is and however the players have
\* come and gone between the hands (table.go:461-497 and hand.go:203-248).
THEOREM EntryIsPaid == ASSUME ProperBlinds PROVE Spec => EntryPaid
<1> DEFINE Paying ==
      hand'.id > hand.id =>
        \A s \in hand'.dealt :
          LET bb == BigBlindSeat(hand')
              owed == Lower(BigBlind, seats[s].stack)
          IN  /\ seats[s].owes \/ s = bb => hand'.committed[s] >= owed
              /\ s = bb => hand'.committed[s] = owed
              /\ s # bb => hand'.committed[s] <= SmallBlind + IF seats[s].owes THEN owed ELSE 0
           in == Participants(seats)
           chips == [s \in Seats |-> IF s \in in THEN seats[s].stack ELSE 0]
           owing == {s \in in : seats[s].owes}
<1>1. ASSUME Inv, [Next]_vars PROVE hand'.id > hand.id => Begun
  <2>1. hand.id \in Nat
    BY <1>1 DEF Inv, Sound, Accounted, Hands
  <2>2. Onwards => ~(hand'.id > hand.id)
    BY <2>1 DEF Onwards, Later
  <2>3. hand' = NoHand => ~(hand'.id > hand.id)
    BY <2>1 DEF NoHand, NewHand
  <2>4. QED
    BY <1>1, <2>2, <2>3, HandStep
<1>2. ASSUME Inv, Begun, NEW s \in hand'.dealt
      PROVE  LET bb == BigBlindSeat(hand')
                 owed == Lower(BigBlind, seats[s].stack)
             IN  /\ seats[s].owes \/ s = bb => hand'.committed[s] >= owed
                 /\ s = bb => hand'.committed[s] = owed
                 /\ s # bb => hand'.committed[s]
                                <= SmallBlind + IF seats[s].owes THEN owed ELSE 0
  <2> DEFINE owed == Lower(BigBlind, seats[s].stack)
  <2>1. DealtTo(hand', in, chips, owing)
    BY <1>2 DEF Begun
  <2>2. s \in in /\ s \in Seats /\ (s \in owing <=> seats[s].owes)
    BY <1>2, <2>1 DEF DealtTo, Participants
  <2>3. chips[s] = seats[s].stack
    BY <2>2
  <2>4. owed \in Nat
    BY <1>2, <2>2, ProperBlinds DEF ProperBlinds, Inv, TypeOK, Players, Lower
  <2> HIDE DEF in, chips, owing
  <2>5. IF s = BigBlindSeat(hand') THEN hand'.committed[s] = owed
        ELSE /\ s \in owing => hand'.committed[s] >= owed
             /\ hand'.committed[s] <= SmallBlind + IF s \in owing THEN owed ELSE 0
    BY <2>1, <2>2, <2>3 DEF DealtTo
  <2> HIDE DEF owed
  <2>6. QED
    BY <2>2, <2>4, <2>5 DEF owed
<1>3. Inv /\ [Next]_vars => [Paying]_vars
  BY <1>1, <1>2
<1>4. QED
  BY <1>3, Invariance, PTL DEF Spec, EntryPaid

\* A showdown pays no folded seat, nobody beaten by a seat that put in as much, and
\* nobody more than it has matched from every seat, whatever happened on the way there
\* (hand.go:576-655 and sidepot.go:28-98).
THEOREM ShowdownIsFair == ASSUME ProperBlinds PROVE Spec => FairShowdown
<1> DEFINE Fair ==
      SameHand /\ hand'.stage = "showdown" /\ hand.stage # "showdown" =>
        \A s \in Seats :
          LET c == hand.committed
              prize == hand'.won[s] - hand.won[s]
          IN  prize > 0 =>
                /\ s \in NotFolded(hand)
                /\ \A o \in NotFolded(hand) : c[o] >= c[s] => hand.score[o] <= hand.score[s]
                /\ (\E o \in NotFolded(hand) : c[o] > c[s]) =>
                     prize <= Total([o \in Seats |-> Lower(c[o], c[s])])
<1>1. ASSUME Inv, OnlyDealtPay(hand), [Next]_vars, SameHand,
             hand'.stage = "showdown", hand.stage # "showdown", NEW s \in Seats,
             hand'.won[s] - hand.won[s] > 0
      PROVE  /\ s \in NotFolded(hand)
             /\ \A o \in NotFolded(hand) : hand.committed[o] >= hand.committed[s]
                                             => hand.score[o] <= hand.score[s]
             /\ (\E o \in NotFolded(hand) : hand.committed[o] > hand.committed[s]) =>
                  hand'.won[s] - hand.won[s]
                    <= Total([o \in Seats |-> Lower(hand.committed[o], hand.committed[s])])
  <2> DEFINE c == hand.committed
             layers == Layers(c, hand.folded)
  <2>1. Shown(hand, hand')
    BY <1>1, HandStep, NoHandSound DEF SameHand, Onwards, Begun
  <2>2. PICK f : /\ Sound(f) /\ hand' = Settle(f)
                 /\ f.committed = hand.committed /\ f.folded = hand.folded
                 /\ f.dealt = hand.dealt /\ f.score = hand.score /\ f.won = hand.won
    BY <2>1 DEF Shown
  <2>3. /\ hand.won[s] \in Nat /\ PrizeOf(f)[s] \in Nat
        /\ hand'.won[s] = hand.won[s] + PrizeOf(f)[s]
    BY <1>1, <2>2, SettleLater, PrizeFacts DEF Inv, Sound, Accounted, Hands
  <2>4. PrizeOf(f)[s] > 0 /\ hand'.won[s] - hand.won[s] = PrizeOf(f)[s]
    BY <1>1, <2>3
  <2>5. PICK k \in layers : s \in Winners(f, k)
    BY <2>2, <2>4, PaidWon
  <2>6. /\ s \in Live(c, hand.folded) /\ c[k] <= c[s] /\ k \in Seats
        /\ \A o \in Live(c, hand.folded) : c[k] <= c[o] => hand.score[o] <= hand.score[s]
    BY <2>2, <2>5, WinnersFacts
  <2>7. c \in [Seats -> Nat] /\ NotFolded(hand) \subseteq Seats
    BY <1>1 DEF NotFolded, Inv, Sound, Accounted, Hands
  <2>8. /\ c[s] > 0 /\ s \notin hand.folded /\ c[k] \in Nat
        /\ \A o \in NotFolded(hand) : c[o] \in Nat /\ (c[o] > 0 => o \in Live(c, hand.folded))
    BY <1>1, <2>6, <2>7, LiveFacts DEF NotFolded
  <2>9. s \in NotFolded(hand)
    BY <1>1, <2>7, <2>8 DEF OnlyDealtPay, NotFolded
  <2>10. \A o \in NotFolded(hand) : c[o] >= c[s] => hand.score[o] <= hand.score[s]
    BY <2>6, <2>7, <2>8
  <2>11. ASSUME NEW o \in NotFolded(hand), c[o] > c[s]
         PROVE  PrizeOf(f)[s] <= Total([p \in Seats |-> Lower(c[p], c[s])])
    <3>1. PICK j \in layers : c[j] = c[s]
      BY <2>6, <2>7, HasLayer
    <3>2. PrizeOf(f)[s] <= Reach(c, hand.folded, j)
      BY <2>2, <2>6, <3>1, PaidWithin
    <3>3. o \in Live(c, hand.folded) /\ ~(c[o] <= c[j])
      BY <1>1, <2>7, <2>8, <2>11, <3>1
    <3>4. ~IsTop(c, hand.folded, j)
      BY <3>3 DEF IsTop
    <3>5. QED
      BY <3>1, <3>2, <3>4 DEF Reach, Capped
  <2>12. QED
    BY <2>4, <2>9, <2>10, <2>11
<1>2. Inv /\ OnlyDealtPay(hand) /\ [Next]_vars => [Fair]_vars
  BY <1>1
<1>3. QED
  BY <1>2, DealtPay, Invariance, PTL DEF Spec, FairShowdown
=========================================================================
