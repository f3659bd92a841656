------------------------- MODULE OrderlyProofs -------------------------
(* Orderly play: nobody leaves during a hand, acts out of turn or races a    *)
(* timeout, and no command is lost.  Then, with the blinds in order          *)
(* (ProperBlinds), exactly one thing drives a hand, it is paid once and in   *)
(* full, streets follow closed rounds, raises are full-sized, and no         *)
(* pre-action lingers, for any number of players up to six, any chips, deals *)
(* and pre-actions.                                                          *)
EXTENDS TableProofs

Orderly == Options \subseteq {"sit_out", "slow"}

\* With equal blinds a small blind that took a seat's last chip could be checked, and
\* the seat would keep later streets open as well.
Strict == SmallBlind < BigBlind
---------------------------------------------------------------------------
(* What a player's action does to the level of the bets. *)

\* The level rises by a full raise, or because somebody goes all-in.
Raises(h, g) ==
  /\ h.allIn \subseteq g.allIn
  /\ g.currentBet >= h.currentBet /\ g.minRaise >= h.minRaise
  /\ g.currentBet # h.currentBet => \/ g.currentBet - h.currentBet >= h.minRaise
                                    \/ \E o \in g.allIn : o \notin h.allIn

LEMMA RaisesReflexive ==
  ASSUME NEW h, Accounted(h), NEW g,
         g.allIn = h.allIn, g.currentBet = h.currentBet, g.minRaise = h.minRaise
  PROVE  Raises(h, g)
<1>1. h.currentBet \in Nat /\ h.minRaise \in Nat
  BY DEF Accounted, Hands
<1>2. QED
  BY <1>1 DEF Raises

LEMMA RaisesTransitive ==
  ASSUME NEW h, NEW g, NEW f, Accounted(h), Accounted(g), Accounted(f),
         Raises(h, g), Raises(g, f)
  PROVE  Raises(h, f)
<1>1. /\ h.currentBet \in Nat /\ h.minRaise \in Nat /\ g.currentBet \in Nat
      /\ g.minRaise \in Nat /\ f.currentBet \in Nat /\ f.minRaise \in Nat
  BY DEF Accounted, Hands
<1>2. /\ h.allIn \subseteq f.allIn
      /\ f.currentBet >= h.currentBet /\ f.minRaise >= h.minRaise
  BY <1>1 DEF Raises
<1>3. CASE g.currentBet # h.currentBet
  BY <1>1, <1>2, <1>3 DEF Raises
<1>4. CASE g.currentBet = h.currentBet
  BY <1>1, <1>2, <1>4 DEF Raises
<1>5. QED
  BY <1>3, <1>4

\* A minimum raise is there to be beaten once there is a bet.
MinimumOpen(h) == h.currentBet = 0 => h.minRaise <= BigBlind

\* What seat s may have changed by acting in h.
Effect(h, g, s) ==
  /\ g.stackIn = h.stackIn /\ g.pending = h.pending
  /\ g.folded \subseteq h.folded \cup {s}
  /\ g.allIn \subseteq h.allIn \cup {s}
  /\ g.acted \subseteq h.acted \cup {s}
  /\ \A o \in Seats \ {s} : g.stack[o] = h.stack[o]
  /\ s \in g.allIn => g.stack[s] = 0
  /\ h.stack[s] > 0 \/ ToCall(h, s) > 0 =>
       s \in g.folded \/ s \in g.allIn \/ g.stack[s] > 0
  /\ Raises(h, g) /\ MinimumOpen(g)

\* A payment of seat s: it is all-in exactly when its stack is empty.
LEMMA Payment ==
  ASSUME NEW h, Accounted(h), NEW s \in h.dealt \ (h.folded \cup h.allIn), NEW pay \in Nat,
         pay <= h.stack[s]
  PROVE  LET g == PutIn(h, s, pay)
         IN  /\ g.stackIn = h.stackIn /\ g.pending = h.pending /\ g.folded = h.folded
             /\ g.acted = h.acted \cup {s}
             /\ g.currentBet = h.currentBet /\ g.minRaise = h.minRaise
             /\ h.allIn \subseteq g.allIn /\ g.allIn \subseteq h.allIn \cup {s}
             /\ \A o \in Seats \ {s} : g.stack[o] = h.stack[o]
             /\ s \in g.allIn => g.stack[s] = 0
             /\ s \in g.allIn \/ g.stack[s] > 0
             /\ pay = h.stack[s] => s \in g.allIn /\ s \notin h.allIn
<1> DEFINE g == PutIn(h, s, pay)
<1>1. s \in Seats /\ h.stack \in [Seats -> Nat]
  BY DEF Accounted, Hands
<1>2. /\ g.stackIn = h.stackIn /\ g.pending = h.pending /\ g.folded = h.folded
      /\ g.acted = h.acted \cup {s}
      /\ g.currentBet = h.currentBet /\ g.minRaise = h.minRaise
      /\ g.stack = [h.stack EXCEPT ![s] = h.stack[s] - pay]
  BY DEF PutIn, Accounted, Hands
<1>3. /\ pay = h.stack[s] => g.allIn = h.allIn \cup {s}
      /\ pay # h.stack[s] => g.allIn = h.allIn
  BY DEF PutIn, Accounted, Hands
<1> HIDE DEF g
<1>4. /\ g.stack[s] = h.stack[s] - pay
      /\ \A o \in Seats \ {s} : g.stack[o] = h.stack[o]
  BY <1>1, <1>2
<1>5. h.stack[s] \in Nat /\ s \notin h.allIn
  BY <1>1
<1>6. /\ h.allIn \subseteq g.allIn /\ g.allIn \subseteq h.allIn \cup {s}
      /\ s \in g.allIn => g.stack[s] = 0
      /\ s \in g.allIn \/ g.stack[s] > 0
      /\ pay = h.stack[s] => s \in g.allIn /\ s \notin h.allIn
  BY <1>3, <1>4, <1>5
<1>7. QED
  BY <1>2, <1>4, <1>6 DEF g

LEMMA PutInEffect ==
  ASSUME NEW h, Sound(h), MinimumOpen(h), NEW s \in h.dealt \ (h.folded \cup h.allIn),
         NEW pay \in Nat, pay <= h.stack[s]
  PROVE  Effect(h, PutIn(h, s, pay), s)
<1> DEFINE g == PutIn(h, s, pay)
<1>1. Accounted(h) /\ h.currentBet \in Nat /\ h.minRaise \in Nat
  BY DEF Sound, Accounted, Hands
<1>2. /\ g.stackIn = h.stackIn /\ g.pending = h.pending /\ g.folded = h.folded
      /\ g.acted = h.acted \cup {s}
      /\ g.currentBet = h.currentBet /\ g.minRaise = h.minRaise
      /\ h.allIn \subseteq g.allIn /\ g.allIn \subseteq h.allIn \cup {s}
      /\ \A o \in Seats \ {s} : g.stack[o] = h.stack[o]
      /\ s \in g.allIn => g.stack[s] = 0
      /\ s \in g.allIn \/ g.stack[s] > 0
  BY <1>1, Payment
<1> HIDE DEF g
<1>4. Raises(h, g) /\ MinimumOpen(g)
  BY <1>1, <1>2 DEF Raises, MinimumOpen
<1>5. Effect(h, g, s)
  BY <1>2, <1>4 DEF Effect
<1>6. QED
  BY <1>5 DEF g

\* A payment that makes a new level, and perhaps a new minimum raise.
LEMMA LevelEffect ==
  ASSUME NEW h, Sound(h), NEW s \in h.dealt \ (h.folded \cup h.allIn), NEW pay \in Nat,
         NEW level \in Nat, NEW raise \in Nat, pay <= h.stack[s],
         level > h.currentBet
  PROVE  LET g == [PutIn(h, s, pay) EXCEPT !.currentBet = level]
         IN  /\ pay = h.stack[s] => Effect(h, g, s)
             /\ level - h.currentBet >= h.minRaise /\ raise >= h.minRaise =>
                  Effect(h, Reopen([g EXCEPT !.minRaise = raise], s), s)
<1> DEFINE p == PutIn(h, s, pay)
           g == [p EXCEPT !.currentBet = level]
           q == [g EXCEPT !.minRaise = raise]
           r == Reopen(q, s)
<1>1. Accounted(h) /\ Accounted(p) /\ h.currentBet \in Nat /\ h.minRaise \in Nat
  BY PutInBetting DEF Sound, Accounted, Hands
<1>2. /\ p.stackIn = h.stackIn /\ p.pending = h.pending /\ p.folded = h.folded
      /\ p.acted = h.acted \cup {s}
      /\ p.currentBet = h.currentBet /\ p.minRaise = h.minRaise
      /\ h.allIn \subseteq p.allIn /\ p.allIn \subseteq h.allIn \cup {s}
      /\ \A o \in Seats \ {s} : p.stack[o] = h.stack[o]
      /\ s \in p.allIn => p.stack[s] = 0
      /\ s \in p.allIn \/ p.stack[s] > 0
      /\ pay = h.stack[s] => s \in p.allIn /\ s \notin h.allIn
  BY <1>1, Payment
<1> HIDE DEF p
<1>3. p \in Hands
  BY <1>1 DEF Accounted
<1>4. /\ g.stackIn = p.stackIn /\ g.pending = p.pending /\ g.folded = p.folded
      /\ g.acted = p.acted /\ g.stack = p.stack /\ g.allIn = p.allIn
      /\ g.currentBet = level /\ g.minRaise = p.minRaise
      /\ g \in Hands
  BY <1>3 DEF Hands
<1> HIDE DEF g
<1>5. ASSUME pay = h.stack[s] PROVE Effect(h, g, s)
  <2>1. Raises(h, g)
    BY <1>1, <1>2, <1>4, <1>5 DEF Raises
  <2>2. MinimumOpen(g)
    BY <1>1, <1>4 DEF MinimumOpen
  <2>3. QED
    BY <1>2, <1>4, <2>1, <2>2 DEF Effect
<1>6. /\ q.stackIn = g.stackIn /\ q.pending = g.pending /\ q.folded = g.folded
      /\ q.acted = g.acted /\ q.stack = g.stack /\ q.allIn = g.allIn
      /\ q.currentBet = level /\ q.minRaise = raise
      /\ q \in Hands
  BY <1>4 DEF Hands
<1> HIDE DEF q
<1>7. /\ r.stackIn = q.stackIn /\ r.pending = q.pending /\ r.folded = q.folded
      /\ r.acted \subseteq q.acted \cup {s} /\ r.stack = q.stack /\ r.allIn = q.allIn
      /\ r.currentBet = level /\ r.minRaise = raise
  BY <1>6 DEF Hands, Reopen
<1> HIDE DEF r
<1>8. ASSUME level - h.currentBet >= h.minRaise, raise >= h.minRaise
      PROVE  Effect(h, r, s)
  <2>1. Raises(h, r)
    BY <1>1, <1>2, <1>4, <1>6, <1>7, <1>8 DEF Raises
  <2>2. MinimumOpen(r)
    BY <1>1, <1>7 DEF MinimumOpen
  <2>3. QED
    BY <1>2, <1>4, <1>6, <1>7, <2>1, <2>2 DEF Effect
<1>9. QED
  BY <1>5, <1>8 DEF r, q, g, p

LEMMA BetEffect ==
  ASSUME NEW h, Sound(h), MinimumOpen(h), NEW s \in h.dealt \ (h.folded \cup h.allIn),
         NEW amount \in Int, CanBet(h, s, amount)
  PROVE  Effect(h, Bet(h, s, amount), s)
<1> DEFINE level == h.bet[s] + amount
           paid == [PutIn(h, s, amount) EXCEPT !.currentBet = level]
<1>1. /\ h.bet[s] \in Nat /\ h.currentBet \in Nat /\ h.minRaise \in Nat
      /\ h.bet[s] <= h.currentBet
  BY DEF Sound, Accounted, Hands, Covered
<1>2. /\ h.currentBet = 0 /\ amount >= BigBlind /\ amount <= h.stack[s]
      /\ h.minRaise <= BigBlind /\ BigBlind \in Nat \ {0} /\ amount \in Nat
  BY <1>1 DEF CanBet, MinimumOpen, Sound, Accounted, ProperBlinds
<1>3. /\ level \in Nat /\ level > h.currentBet
      /\ level - h.currentBet >= h.minRaise /\ amount >= h.minRaise
  BY <1>1, <1>2
<1> HIDE DEF level
<1>4. Effect(h, Reopen([paid EXCEPT !.minRaise = amount], s), s)
  BY <1>2, <1>3, LevelEffect
<1>5. [PutIn(h, s, amount) EXCEPT !.currentBet = level, !.minRaise = amount]
        = [paid EXCEPT !.minRaise = amount]
  BY DEF PutIn
<1> HIDE DEF paid
<1>6. QED
  BY <1>4, <1>5 DEF Bet, level

LEMMA RaiseEffect ==
  ASSUME NEW h, Sound(h), NEW s \in h.dealt \ (h.folded \cup h.allIn), NEW level \in Int,
         CanRaiseTo(h, s, level)
  PROVE  Effect(h, RaiseTo(h, s, level), s)
<1> DEFINE pay == level - h.bet[s]
           raise == level - h.currentBet
           raised == [PutIn(h, s, pay) EXCEPT !.currentBet = level]
<1>1. /\ h.bet[s] \in Nat /\ h.currentBet \in Nat /\ h.stack[s] \in Nat
      /\ h.bet[s] <= h.currentBet /\ h.minRaise \in Nat
  BY DEF Sound, Accounted, Hands, Covered
<1>2. /\ pay \in Nat /\ raise \in Nat /\ pay <= h.stack[s] /\ level > h.currentBet
      /\ level \in Nat
  BY <1>1 DEF CanRaiseTo
<1>3. /\ ShortAllIn(h, s, level) => pay = h.stack[s]
      /\ ~ShortAllIn(h, s, level) => raise >= h.minRaise
  BY DEF ShortAllIn, CanRaiseTo
<1> HIDE DEF pay, raise
<1>4. /\ pay = h.stack[s] => Effect(h, raised, s)
      /\ level - h.currentBet >= h.minRaise /\ raise >= h.minRaise =>
           Effect(h, Reopen([raised EXCEPT !.minRaise = raise], s), s)
  BY <1>2, LevelEffect
<1>5. /\ ShortAllIn(h, s, level) => RaiseTo(h, s, level) = raised
      /\ ~ShortAllIn(h, s, level) =>
           RaiseTo(h, s, level) = Reopen([raised EXCEPT !.minRaise = raise], s)
  BY DEF RaiseTo, pay, raise
<1> HIDE DEF raised
<1>6. QED
  BY <1>3, <1>4, <1>5 DEF raise

LEMMA ApplyEffect ==
  ASSUME NEW h, Sound(h), MinimumOpen(h), NEW s,
         NEW intent \in [kind : ActionKinds, amount : Int], Accepts(h, s, intent)
  PROVE  Effect(h, Apply(h, s, intent), s)
<1>1. /\ s \in h.dealt \ (h.folded \cup h.allIn) /\ s \in Seats /\ Accounted(h)
      /\ intent.kind \in ActionKinds /\ intent.amount \in Int
      /\ h.bet[s] \in Nat /\ h.currentBet \in Nat /\ h.stack[s] \in Nat /\ h.minRaise \in Nat
      /\ h.bet[s] <= h.currentBet
  BY DEF Accepts, MayAct, Sound, Accounted, Covered, Hands
<1>2. ASSUME NEW g, g.stackIn = h.stackIn, g.pending = h.pending, g.stack = h.stack,
             g.allIn = h.allIn, g.currentBet = h.currentBet, g.minRaise = h.minRaise,
             g.acted = h.acted \cup {s}, g.folded \subseteq h.folded \cup {s},
             s \in g.folded \/ ToCall(h, s) <= 0
      PROVE  Effect(h, g, s)
  <2>1. Raises(h, g) /\ MinimumOpen(g)
    BY <1>1, <1>2, RaisesReflexive DEF MinimumOpen
  <2>2. s \notin g.allIn
    BY <1>1, <1>2
  <2>3. h.stack[s] > 0 \/ ToCall(h, s) > 0 => s \in g.folded \/ g.stack[s] > 0
    BY <1>1, <1>2 DEF ToCall
  <2>4. QED
    BY <1>2, <2>1, <2>2, <2>3 DEF Effect
<1>3. CASE intent.kind = "fold"
  <2> DEFINE g == Fold(h, s)
  <2>1. /\ g.stackIn = h.stackIn /\ g.pending = h.pending /\ g.stack = h.stack
        /\ g.allIn = h.allIn /\ g.currentBet = h.currentBet /\ g.minRaise = h.minRaise
        /\ g.acted = h.acted \cup {s} /\ g.folded = h.folded \cup {s}
    BY <1>1 DEF Fold, Accounted, Hands
  <2>2. Apply(h, s, intent) = g
    BY <1>3 DEF Apply
  <2> HIDE DEF g
  <2>3. QED
    BY <1>2, <2>1, <2>2
<1>4. CASE intent.kind = "check"
  <2> DEFINE g == Check(h, s)
  <2>1. /\ g.stackIn = h.stackIn /\ g.pending = h.pending /\ g.stack = h.stack
        /\ g.allIn = h.allIn /\ g.currentBet = h.currentBet /\ g.minRaise = h.minRaise
        /\ g.acted = h.acted \cup {s} /\ g.folded = h.folded
    BY <1>1 DEF Check, Accounted, Hands
  <2>2. Apply(h, s, intent) = g /\ ToCall(h, s) <= 0
    BY <1>4 DEF Apply, Accepts
  <2> HIDE DEF g
  <2>3. QED
    BY <1>2, <2>1, <2>2
<1>5. CASE intent.kind = "call"
  <2>1. ToCall(h, s) \in Nat
    BY <1>1, <1>5 DEF Accepts, ToCall
  <2>2. /\ Lower(ToCall(h, s), h.stack[s]) \in Nat
        /\ Lower(ToCall(h, s), h.stack[s]) <= h.stack[s]
    BY <1>1, <2>1, LowerFacts
  <2>3. QED
    BY <1>1, <1>5, <2>2, PutInEffect DEF Apply, Call
<1>6. CASE intent.kind = "bet"
  BY <1>1, <1>6, BetEffect DEF Apply, Accepts
<1>7. CASE intent.kind = "raise"
  BY <1>1, <1>7, RaiseEffect DEF Apply, Accepts
<1>8. CASE intent.kind = "allin"
  <2> DEFINE level == AllInLevel(h, s)
  <2>1. level \in Nat /\ level = h.bet[s] + h.stack[s]
    BY <1>1 DEF AllInLevel
  <2>2. Apply(h, s, intent) = AllIn(h, s)
    BY <1>8 DEF Apply
  <2>3. CASE level <= h.currentBet
    BY <1>1, <2>2, <2>3, PutInEffect DEF AllIn
  <2>4. CASE ~(level <= h.currentBet)
    <3>1. CanRaiseTo(h, s, level)
      BY <1>1, <2>1, <2>4 DEF CanRaiseTo, ShortAllIn
    <3>2. QED
      BY <1>1, <2>1, <2>2, <2>4, <3>1, RaiseEffect DEF AllIn
  <2>5. QED
    BY <2>3, <2>4
<1>9. QED
  BY <1>1, <1>3, <1>4, <1>5, <1>6, <1>7, <1>8 DEF ActionKinds
---------------------------------------------------------------------------
(* A hand in play: what is true of it between the actions of players. *)

Streets == {"preflop", "flop", "turn", "river"}

\* Whoever is in and has no chips left is marked all-in, or was put in by a blind and
\* has not acted.
NoneForgotten(h) ==
  \A s \in NotFolded(h) \ h.allIn :
    h.stack[s] > 0 \/ (h.stage = "preflop" /\ s \notin h.acted)

InPlay(h) ==
  /\ h.finals = 0 /\ h.won = Nothing
  /\ h.stage \in Streets
  /\ \A s \in h.dealt : h.stackIn[s] > 0
  /\ \A s \in Seats \ h.dealt : h.stackIn[s] = 0
  /\ \A s \in h.allIn : h.stack[s] = 0
  /\ h.stage = "preflop" => h.currentBet >= BigBlind
  /\ h.stage # "preflop" => \A s \in NotFolded(h) : h.committed[s] > 0
  /\ MinimumOpen(h)
  /\ Strict => NoneForgotten(h)

Contested(h) == \E a, b \in NotFolded(h) : a # b

\* A hand that differs at most in whose turn it is and in pre-actions.
SameBets(h, g) ==
  /\ g.id = h.id /\ g.stage = h.stage /\ g.dealt = h.dealt
  /\ g.stackIn = h.stackIn /\ g.stack = h.stack /\ g.bet = h.bet /\ g.committed = h.committed
  /\ g.folded = h.folded /\ g.allIn = h.allIn /\ g.acted = h.acted
  /\ g.currentBet = h.currentBet /\ g.minRaise = h.minRaise
  /\ g.won = h.won /\ g.finals = h.finals

LEMMA TurnMethods ==
  ASSUME NEW h, Accounted(h), NEW s \in Seats
  PROVE  /\ SameBets(h, Advance(h)) /\ Advance(h).pending = h.pending
         /\ \A p : SameBets(h, SetPending(h, s, p)) /\ SetPending(h, s, p).toAct = h.toAct
<1>1. SameBets(h, Advance(h)) /\ Advance(h).pending = h.pending
  BY DEF SameBets, Advance, Accounted, Hands
<1>2. ASSUME NEW p
      PROVE  SameBets(h, SetPending(h, s, p)) /\ SetPending(h, s, p).toAct = h.toAct
  BY DEF SameBets, SetPending, Accounted, Hands
<1>3. QED
  BY <1>1, <1>2

LEMMA SameBetsFacts ==
  ASSUME NEW h, NEW g, SameBets(h, g)
  PROVE  /\ InPlay(h) => InPlay(g)
         /\ Contested(h) => Contested(g)
         /\ NotFolded(g) = NotFolded(h) /\ CanAct(g) = CanAct(h)
         /\ \A s : ToCall(g, s) = ToCall(h, s)
         /\ RoundClosed(h) => RoundClosed(g)
         /\ BettingPossible(g) <=> BettingPossible(h)
         /\ Pot(g) = Pot(h)
<1>1. NotFolded(g) = NotFolded(h) /\ CanAct(g) = CanAct(h)
  BY DEF SameBets, NotFolded, CanAct
<1>2. \A s : ToCall(g, s) = ToCall(h, s)
  BY DEF SameBets, ToCall
<1>3. (RoundClosed(h) => RoundClosed(g)) /\ Pot(g) = Pot(h)
  BY <1>2 DEF SameBets, RoundClosed, Pot
<1>4. BettingPossible(g) <=> BettingPossible(h)
  BY <1>1 DEF BettingPossible
<1>5. Contested(h) => Contested(g)
  BY <1>1 DEF Contested
<1>6. InPlay(h) => InPlay(g)
  BY <1>1 DEF SameBets, InPlay, NoneForgotten, MinimumOpen
<1>7. QED
  BY <1>1, <1>2, <1>3, <1>4, <1>5, <1>6

\* The hand stays in play when a player acts who has chips, or a bet to answer.
LEMMA ActedInPlay ==
  ASSUME NEW h, Sound(h), InPlay(h), Contested(h), NEW s \in h.dealt,
         NEW g, Accounted(g), Betting(h, g), Effect(h, g, s),
         Strict => h.stack[s] > 0 \/ ToCall(h, s) > 0
  PROVE  InPlay(g) /\ NotFolded(g) # {}
<1>1. /\ g.stage = h.stage /\ g.won = h.won /\ g.finals = h.finals /\ g.dealt = h.dealt
      /\ h.folded \subseteq g.folded /\ g.stackIn = h.stackIn
      /\ g.folded \subseteq h.folded \cup {s} /\ g.allIn \subseteq h.allIn \cup {s}
      /\ g.acted \subseteq h.acted \cup {s} /\ h.allIn \subseteq g.allIn
      /\ \A o \in Seats \ {s} : g.stack[o] = h.stack[o]
      /\ s \in g.allIn => g.stack[s] = 0
      /\ \A o \in Seats : h.committed[o] <= g.committed[o]
      /\ g.currentBet >= h.currentBet /\ MinimumOpen(g)
  BY DEF Betting, Later, Effect, Raises
<1>2. /\ h.dealt \subseteq Seats /\ h.allIn \subseteq Seats /\ g.allIn \subseteq Seats
      /\ h.currentBet \in Nat /\ g.currentBet \in Nat
      /\ \A o \in Seats : h.committed[o] \in Nat /\ g.committed[o] \in Nat
  BY DEF Sound, Accounted, Hands
<1>3. NotFolded(g) # {} /\ NotFolded(g) \subseteq NotFolded(h) /\ NotFolded(h) \subseteq Seats
  BY <1>1, <1>2 DEF Contested, NotFolded
<1>4. \A o \in g.allIn : g.stack[o] = 0
  BY <1>1, <1>2 DEF InPlay
<1>5. g.stage = "preflop" => g.currentBet >= BigBlind
  BY <1>1, <1>2 DEF InPlay, Accounted, ProperBlinds
<1>6. g.stage # "preflop" => \A o \in NotFolded(g) : g.committed[o] > 0
  BY <1>1, <1>2, <1>3 DEF InPlay
<1>7. Strict => NoneForgotten(g)
  <2> SUFFICES ASSUME Strict, NEW o \in NotFolded(g) \ g.allIn
               PROVE  g.stack[o] > 0 \/ (g.stage = "preflop" /\ o \notin g.acted)
    BY DEF NoneForgotten
  <2>1. CASE o = s
    BY <2>1 DEF Effect, NotFolded
  <2>2. CASE o # s
    <3>1. o \in NotFolded(h) \ h.allIn /\ o \in Seats
      BY <1>1, <1>2, <1>3
    <3>2. h.stack[o] > 0 \/ (h.stage = "preflop" /\ o \notin h.acted)
      BY <3>1 DEF InPlay, NoneForgotten
    <3>3. QED
      BY <1>1, <2>2, <3>1, <3>2
  <2>3. QED
    BY <2>1, <2>2
<1>8. QED
  BY <1>1, <1>3, <1>4, <1>5, <1>6, <1>7 DEF InPlay
---------------------------------------------------------------------------
(* The end of a hand pays it in full. *)

LEMMA SeatSets ==
  ASSUME NEW S \in SUBSET Seats
  PROVE  /\ IsFiniteSet(S) /\ Cardinality(S) \in Nat /\ Cardinality(S) <= 6
         /\ \A a, b \in S : a # b => Cardinality(S) >= 2
<1>1. IsFiniteSet(Seats) /\ Cardinality(Seats) <= 6
  BY MaxSeatsAssumption, FS_Interval DEF Seats
<1>2. IsFiniteSet(S) /\ Cardinality(S) <= Cardinality(Seats)
  BY <1>1, FS_Subset
<1>3. Cardinality(S) \in Nat /\ Cardinality(Seats) \in Nat
  BY <1>1, <1>2, FS_CardinalityType
<1>4. ASSUME NEW a \in S, NEW b \in S, a # b PROVE Cardinality(S) >= 2
  <2>1. IsFiniteSet({a}) /\ Cardinality({a}) = 1
    BY FS_Singleton
  <2>2. Cardinality({a} \cup {b}) = 2
    BY <1>4, <2>1, FS_AddElement
  <2>3. {a} \cup {b} \in SUBSET S
    OBVIOUS
  <2>4. Cardinality({a} \cup {b}) <= Cardinality(S)
    BY <1>2, <2>3, FS_Subset
  <2>5. QED
    BY <1>3, <2>2, <2>4
<1>5. QED
  BY <1>1, <1>2, <1>3, <1>4

\* The most a seat may win: everything, unless somebody still in has put in more; then,
\* from every seat, as much as it has put in itself.
Within(h, s) ==
  IF \A o \in NotFolded(h) : h.committed[o] <= h.committed[s] THEN Pot(h)
  ELSE Total([o \in Seats |-> Lower(h.committed[o], h.committed[s])])

\* The pot has gone, once and in full, to seats that have not folded.
Paid(h) ==
  /\ h.finals = 1 /\ Total(h.won) = Pot(h)
  /\ NotFolded(h) # {}
  /\ \A s \in NotFolded(h) : h.won[s] <= Within(h, s)
  /\ \A s \in Seats \ NotFolded(h) : h.won[s] = 0
  /\ \A s \in Seats : h.committed[s] <= h.stackIn[s]
  /\ \A s \in Seats \ h.dealt : h.stackIn[s] = 0

LEMMA SamePaid ==
  ASSUME NEW h, NEW g, SameBets(h, g), Paid(h)
  PROVE  Paid(g)
<1>1. /\ g.won = h.won /\ g.finals = h.finals /\ g.committed = h.committed
      /\ g.stackIn = h.stackIn /\ g.dealt = h.dealt /\ NotFolded(g) = NotFolded(h)
  BY DEF SameBets, NotFolded
<1>2. Pot(g) = Pot(h) /\ \A s : Within(g, s) = Within(h, s)
  BY <1>1 DEF Pot, Within
<1>3. QED
  BY <1>1, <1>2 DEF Paid

\* Before the pot is paid nobody has put in more than he brought.
LEMMA BroughtIn ==
  ASSUME NEW h, Sound(h), InPlay(h)
  PROVE  \A s \in Seats : /\ h.committed[s] <= h.stackIn[s]
                          /\ s \notin h.dealt => h.committed[s] = 0
<1> TAKE s \in Seats
<1>1. /\ h.stack[s] \in Nat /\ h.committed[s] \in Nat /\ h.stackIn[s] \in Nat
      /\ h.stack[s] + h.committed[s] = h.stackIn[s] + h.won[s]
  BY DEF Sound, Accounted, Hands
<1>2. h.won[s] = 0
  BY DEF InPlay, Nothing
<1>3. s \notin h.dealt => h.stackIn[s] = 0
  BY DEF InPlay
<1>4. h.stack[s] + h.committed[s] = h.stackIn[s]
  BY <1>1, <1>2
<1>5. h.committed[s] <= h.stackIn[s] /\ (h.stackIn[s] = 0 => h.committed[s] = 0)
  BY <1>1, <1>4
<1>6. QED
  BY <1>3, <1>5

LEMMA AwardedInFull ==
  ASSUME NEW h, Sound(h), InPlay(h), NotFolded(h) # {}, Cardinality(NotFolded(h)) <= 1
  PROVE  Paid(AwardSinglePot(h))
<1> DEFINE g == AwardSinglePot(h)
<1>1. NotFolded(h) \in SUBSET Seats
  BY DEF NotFolded, Sound, Accounted, Hands
<1>2. \A a, b \in NotFolded(h) : a = b
  <2>1. /\ \A a, b \in NotFolded(h) : a # b => Cardinality(NotFolded(h)) >= 2
        /\ Cardinality(NotFolded(h)) \in Nat
    BY <1>1, SeatSets
  <2>2. QED
    BY <2>1
<1>3. PICK a \in NotFolded(h) : TRUE
  OBVIOUS
<1>4. /\ PotFor(h) \in [Seats -> Nat] /\ g.finals = h.finals + 1
      /\ g.committed = h.committed
      /\ \A s \in Seats : g.won[s] = h.won[s] + PotFor(h)[s]
  BY AwardLater
<1>5. Accounted(g) /\ Pot(h) \in Nat
  BY AwardSound, TotalNat DEF Kept, Sound, Pot, Accounted, Hands
<1> HIDE DEF g
<1>6. /\ a \in Seats /\ \A s \in Seats : s \in NotFolded(h) => s = a
      /\ \A o \in NotFolded(h) : o <= a
  <2>1. a \in Seats /\ \A s \in NotFolded(h) : s = a
    BY <1>1, <1>2
  <2>2. a \in Nat
    BY <2>1, SeatsFacts
  <2>3. a <= a
    BY <2>2
  <2>4. QED
    BY <2>1, <2>3
<1>7. PotFor(h)[a] = Pot(h) /\ \A s \in Seats \ {a} : PotFor(h)[s] = 0
  BY <1>6 DEF PotFor
<1>8. \A s \in Seats : h.won[s] = 0
  BY DEF InPlay, Nothing
<1>9. g.won \in [Seats -> Int] /\ g.won[a] = Pot(h) /\ \A s \in Seats \ {a} : g.won[s] = 0
  <2>1. g.won \in [Seats -> Int]
    BY <1>5 DEF Accounted, Hands
  <2>2. QED
    BY <1>4, <1>5, <1>6, <1>7, <1>8, <2>1
<1>10. Total(g.won) = Pot(h)
  BY <1>5, <1>6, <1>9, TotalSingle
<1>11. /\ g.stackIn = h.stackIn /\ g.dealt = h.dealt /\ NotFolded(g) = NotFolded(h)
       /\ Pot(g) = Pot(h)
  <2>1. g.stackIn = h.stackIn /\ g.dealt = h.dealt /\ g.folded = h.folded
    BY AwardLater DEF Later, g
  <2>2. QED
    BY <1>4, <2>1 DEF NotFolded, Pot
<1>12. Within(g, a) = Pot(h)
  <2>1. g.committed[a] \in Nat
    BY <1>5, <1>6 DEF Accounted, Hands
  <2>2. \A o \in NotFolded(g) : g.committed[o] <= g.committed[a]
    BY <1>1, <1>6, <1>11, <2>1
  <2>3. QED
    BY <1>11, <2>2 DEF Within
<1>13. /\ \A s \in NotFolded(g) : g.won[s] <= Within(g, s)
       /\ \A s \in Seats \ NotFolded(g) : g.won[s] = 0
  BY <1>1, <1>5, <1>6, <1>9, <1>11, <1>12
<1>14. /\ \A s \in Seats : g.committed[s] <= g.stackIn[s]
       /\ \A s \in Seats \ g.dealt : g.stackIn[s] = 0
       /\ g.finals = 0 + 1
  <2>1. \A s \in Seats : h.committed[s] <= h.stackIn[s]
    BY BroughtIn
  <2>2. h.finals = 0 /\ \A s \in Seats \ h.dealt : h.stackIn[s] = 0
    BY DEF InPlay
  <2>3. QED
    BY <1>4, <1>11, <2>1, <2>2
<1>15. QED
  BY <1>10, <1>11, <1>13, <1>14 DEF Paid, g

LEMMA SettledInFull ==
  ASSUME NEW h, Sound(h), InPlay(h), h.stage # "preflop", NotFolded(h) # {}
  PROVE  Paid(Settle(h))
<1> DEFINE g == Settle(h)
<1>1. PICK a \in NotFolded(h) : h.committed[a] > 0
  BY DEF InPlay
<1>2. a \in Live(h.committed, h.folded)
  <2>1. a \in Seats /\ a \notin h.folded
    BY DEF NotFolded, Sound, Accounted, Hands
  <2>2. QED
    BY <1>1, <2>1 DEF Live
<1>3. Total(PrizeOf(h)) = Pot(h)
  BY <1>2, SettlePaysThePot
<1>4. /\ PrizeOf(h) \in [Seats -> Nat] /\ g.finals = h.finals + 1
      /\ g.committed = h.committed
      /\ \A s \in Seats : g.won[s] = h.won[s] + PrizeOf(h)[s]
  BY SettleLater, PrizeFacts
<1>5. Accounted(g)
  BY SettleSound DEF Kept, Sound
<1> HIDE DEF g
<1>6. \A s \in Seats : h.won[s] = 0
  BY DEF InPlay, Nothing
<1>7. g.won = PrizeOf(h)
  <2>1. g.won \in [Seats -> Nat]
    BY <1>5 DEF Accounted, Hands
  <2>2. \A s \in Seats : PrizeOf(h)[s] \in Nat /\ g.won[s] = 0 + PrizeOf(h)[s]
    BY <1>4, <1>6
  <2>3. \A s \in Seats : g.won[s] = PrizeOf(h)[s]
    BY <2>2
  <2>4. QED
    BY <1>4, <2>1, <2>3
<1>8. /\ g.stackIn = h.stackIn /\ g.dealt = h.dealt /\ NotFolded(g) = NotFolded(h)
      /\ Pot(g) = Pot(h)
  <2>1. g.stackIn = h.stackIn /\ g.dealt = h.dealt /\ g.folded = h.folded
    BY SettleLater DEF Later, g
  <2>2. QED
    BY <1>4, <2>1 DEF NotFolded, Pot
<1>9. /\ h.committed \in [Seats -> Nat] /\ NotFolded(h) \subseteq Seats
      /\ \A s \in NotFolded(h) : h.committed[s] > 0 /\ s \in Live(h.committed, h.folded)
  <2>1. h.committed \in [Seats -> Nat] /\ NotFolded(h) \subseteq Seats
    BY DEF NotFolded, Sound, Accounted, Hands
  <2>2. \A s \in NotFolded(h) : h.committed[s] > 0 /\ s \notin h.folded
    BY DEF InPlay, NotFolded
  <2>3. QED
    BY <2>1, <2>2, LiveFacts
<1>0. \A s \in Seats : h.committed[s] > 0 /\ s \notin h.folded => s \in NotFolded(h)
  <2>1. \A s \in Seats : s \notin h.dealt => h.committed[s] = 0
    BY BroughtIn
  <2>2. QED
    BY <2>1 DEF NotFolded
<1>10. ASSUME NEW s \in NotFolded(h) PROVE g.won[s] <= Within(g, s)
  <2>1. PICK j \in Layers(h.committed, h.folded) : h.committed[j] = h.committed[s]
    BY <1>9, HasLayer
  <2>2. g.won[s] <= Reach(h.committed, h.folded, j)
    BY <1>7, <1>9, <2>1, PaidWithin
  <2>3. CASE \A o \in NotFolded(g) : g.committed[o] <= g.committed[s]
    <3>1. \A o \in Live(h.committed, h.folded) :
            o \in NotFolded(h) /\ h.committed[o] <= h.committed[j]
      <4>1. \A o \in Live(h.committed, h.folded) :
              o \in Seats /\ h.committed[o] > 0 /\ o \notin h.folded
        BY <1>9, LiveFacts
      <4>2. \A o \in Live(h.committed, h.folded) : o \in NotFolded(h)
        BY <1>0, <4>1
      <4>3. QED
        BY <1>4, <1>8, <2>1, <2>3, <4>2
    <3>2. IsTop(h.committed, h.folded, j)
      BY <3>1 DEF IsTop
    <3>3. Within(g, s) = Total(h.committed)
      BY <1>4, <2>3 DEF Within, Pot
    <3>4. QED
      BY <2>2, <3>2, <3>3 DEF Reach
  <2>4. CASE ~\A o \in NotFolded(g) : g.committed[o] <= g.committed[s]
    <3>1. PICK r \in NotFolded(h) : ~(h.committed[r] <= h.committed[j])
      BY <1>4, <1>8, <2>1, <2>4
    <3>2. ~IsTop(h.committed, h.folded, j)
      BY <1>9, <3>1 DEF IsTop
    <3>3. Within(g, s) = Total([o \in Seats |-> Lower(h.committed[o], h.committed[s])])
      BY <1>4, <2>4 DEF Within
    <3>4. QED
      BY <2>1, <2>2, <3>2, <3>3 DEF Reach, Capped
  <2>5. QED
    BY <2>3, <2>4
<1>11. ASSUME NEW s \in Seats \ NotFolded(h) PROVE g.won[s] = 0
  <2>1. PrizeOf(h)[s] \in Nat
    BY <1>4
  <2>2. CASE PrizeOf(h)[s] > 0
    <3>1. PICK k \in Layers(h.committed, h.folded) : s \in Winners(h, k)
      BY <2>2, PaidWon
    <3>2. s \in Live(h.committed, h.folded)
      BY <3>1, WinnersFacts
    <3>3. h.committed[s] > 0 /\ s \notin h.folded
      BY <1>9, <3>2, LiveFacts
    <3>4. QED
      BY <1>0, <1>11, <3>3
  <2>3. QED
    BY <1>7, <2>1, <2>2
<1>12. /\ \A s \in Seats : g.committed[s] <= g.stackIn[s]
       /\ \A s \in Seats \ g.dealt : g.stackIn[s] = 0
       /\ g.finals = 0 + 1
  <2>1. \A s \in Seats : h.committed[s] <= h.stackIn[s]
    BY BroughtIn
  <2>2. h.finals = 0 /\ \A s \in Seats \ h.dealt : h.stackIn[s] = 0
    BY DEF InPlay
  <2>3. QED
    BY <1>4, <1>8, <2>1, <2>2
<1>13. QED
  BY <1>3, <1>7, <1>8, <1>10, <1>11, <1>12 DEF Paid, g
---------------------------------------------------------------------------
(* What will happen next: commands under way, and the states of a hand that   *)
(* waits.                                                                     *)

\* The commands under way are those of C, once each; the start of a hand aside.
Expecting(d, C) == \A c \in Commands \ {StartCmd} : d[c] = IF c \in C THEN 1 ELSE 0

LEMMA ExpectingMore ==
  ASSUME NEW d \in [Commands -> Nat], Expecting(d, {}), NEW c \in Commands \ {StartCmd}
  PROVE  Expecting(Schedule(d, c), {c})
BY DEF Expecting, Schedule

LEMMA ExpectingLess ==
  ASSUME NEW d \in [Commands -> Nat], NEW c \in Commands \ {StartCmd}, Expecting(d, {c})
  PROVE  Expecting(Consume(d, c), {})
BY DEF Expecting, Consume

LEMMA StartAside ==
  ASSUME NEW d \in [Commands -> Nat], NEW C, Expecting(d, C)
  PROVE  Expecting(Schedule(d, StartCmd), C) /\ Expecting(Consume(d, StartCmd), C)
BY DEF Expecting, Schedule, Consume

LEMMA OwnCommands ==
  ASSUME NEW id \in HandIds
  PROVE  /\ AdvanceCmd(id) \in Commands \ {StartCmd} /\ EndCmd(id) \in Commands \ {StartCmd}
         /\ \A s \in SeatOrNone : TimeoutCmd(id, s) \in Commands \ {StartCmd}
<1>1. \A c : c = StartCmd => c.kind = "start"
  BY DEF StartCmd, Command
<1>2. /\ AdvanceCmd(id).kind = "advance" /\ EndCmd(id).kind = "end"
      /\ \A s \in SeatOrNone : TimeoutCmd(id, s).kind = "timeout"
  BY DEF AdvanceCmd, EndCmd, TimeoutCmd, Command
<1>3. QED
  BY <1>1, <1>2, CommandFacts

\* A player who is asked can act: it has chips, or is a small blind that took them all.
Blocked(h) ==
  /\ h.stage = "preflop" /\ h.toAct \in NotFolded(h) \ h.acted /\ h.stack[h.toAct] = 0
  /\ h.pending[h.toAct].kind = "none"
  /\ Strict => ToCall(h, h.toAct) > 0
AskedWell(h) == h.toAct \in CanAct(h) \/ Blocked(h)

\* Nobody can close the round.
StuckIn(h) == Strict => /\ h.stage = "preflop"
                        /\ \E s \in NotFolded(h) \ h.acted : h.stack[s] = 0

Closed(h) == /\ \A s \in CanAct(h) : /\ ToCall(h, s) <= 0
                                     /\ BettingPossible(h) => s \in h.acted
             /\ h.stage = "preflop" => RoundClosed(h)

Open(h, t, d) ==
  /\ InPlay(h) /\ Contested(h) /\ AskedWell(h) /\ h.pending[h.toAct].kind = "none"
  /\ t.hand = h.id /\ t.seat = h.toAct
  /\ t.live => Expecting(d, {})
  /\ ~t.live => Expecting(d, {TimeoutCmd(h.id, h.toAct)})

Pausing(h, t, d) ==
  /\ InPlay(h) /\ Contested(h) /\ Closed(h)
  /\ t = NoTurn /\ Expecting(d, {AdvanceCmd(h.id)})

Ending(h, t, d) == Paid(h) /\ t = NoTurn /\ Expecting(d, {EndCmd(h.id)})

Halted(h, t, d) ==
  /\ InPlay(h) /\ Contested(h) /\ StuckIn(h) /\ Expecting(d, {})
  /\ \/ h.toAct = NoSeat /\ t = NoTurn
     \/ /\ h.toAct \in h.allIn /\ h.pending[h.toAct].kind = "none"
        /\ t.hand = h.id /\ t.seat = h.toAct /\ ~t.live

Rested(h, t, d) == Open(h, t, d) \/ Pausing(h, t, d) \/ Ending(h, t, d) \/ Halted(h, t, d)
---------------------------------------------------------------------------
(* The actor asks until it has to wait. *)

Armed(h) == {s \in Seats : h.pending[s].kind # "none"}

\* Nothing is under way, and at most k pre-actions may fire before a player is asked.
Asking(m, k) ==
  /\ m.ask = TRUE /\ m.turn = NoTurn /\ Expecting(m.due, {})
  /\ InPlay(m.hand) /\ Contested(m.hand)
  /\ AskedWell(m.hand) \/ (m.hand.toAct = NoSeat /\ StuckIn(m.hand))
  /\ Cardinality(Armed(m.hand)) <= k

AtRest(m) == m.ask = FALSE /\ Rested(m.hand, m.turn, m.due)

\* From m to n: the same hand and street, bets only raised.
Presses(m, n) == Moves(m, n) /\ Raises(m.hand, n.hand)

LEMMA PressesTransitive ==
  ASSUME NEW m, Fit(m), NEW n, NEW o, Presses(m, n), Presses(n, o)
  PROVE  Presses(m, o)
<1>1. Accounted(m.hand) /\ Accounted(n.hand) /\ Accounted(o.hand)
  BY DEF Presses, Moves, Fit, Sound
<1>2. QED
  BY <1>1, MovesTransitive, RaisesTransitive DEF Presses

\* Advancing finds somebody with chips, or nobody has any.
LEMMA AdvanceAsks ==
  ASSUME NEW h, Sound(h), InPlay(h), NotFolded(h) # {}, ~RoundClosed(h)
  PROVE  AskedWell(Advance(h)) \/ (Advance(h).toAct = NoSeat /\ StuckIn(Advance(h)))
<1> DEFINE g == Advance(h)
<1>1. SameBets(h, g) /\ g.toAct = NextActorAfter(h, h.toAct)
  <2>1. Accounted(h) /\ 0 \in Seats
    BY MaxSeatsAssumption DEF Sound, Seats
  <2>2. g.toAct = NextActorAfter(h, h.toAct)
    BY <2>1 DEF Advance, Accounted, Hands
  <2>3. QED
    BY <2>1, <2>2, TurnMethods
<1>2. CanAct(h) \in SUBSET Seats /\ h.toAct \in SeatOrNone
  BY DEF CanAct, Sound, Accounted, Hands
<1> HIDE DEF g
<1>3. /\ g.toAct \in CanAct(h) \cup {NoSeat}
      /\ CanAct(h) # {} => g.toAct \in CanAct(h)
  BY <1>1, <1>2, NextInFacts DEF NextActorAfter
<1>4. CanAct(g) = CanAct(h) /\ NotFolded(g) = NotFolded(h)
  BY <1>1, SameBetsFacts
<1>5. ASSUME Strict, CanAct(h) = {}
      PROVE  h.stage = "preflop" /\ \E s \in NotFolded(h) \ h.acted : h.stack[s] = 0
  <2>1. PICK s \in h.dealt \ (h.folded \cup h.allIn) : ~(s \in h.acted /\ ToCall(h, s) <= 0)
    BY DEF RoundClosed
  <2>2. s \in NotFolded(h) \ h.allIn /\ s \in Seats /\ h.stack[s] \in Nat
    BY <2>1 DEF NotFolded, Sound, Accounted, Hands
  <2>3. h.stack[s] = 0
    BY <1>5, <2>1, <2>2 DEF CanAct
  <2>4. h.stage = "preflop" /\ s \notin h.acted
    BY <1>5, <2>2, <2>3 DEF InPlay, NoneForgotten
  <2>5. QED
    BY <2>2, <2>3, <2>4
<1>6. CanAct(h) = {} => g.toAct = NoSeat
  BY <1>3
<1>7. CanAct(h) = {} => StuckIn(g)
  BY <1>1, <1>4, <1>5 DEF StuckIn, SameBets
<1>8. QED
  BY <1>3, <1>4, <1>6, <1>7 DEF AskedWell, g

\* After an action the round goes on, or pauses for the next street, or the hand is won.
LEMMA MaybeFinishRests ==
  ASSUME NEW m, Fit(m), m.hand.id # 0, m.ask = FALSE, m.turn = NoTurn, Expecting(m.due, {}),
         InPlay(m.hand), NotFolded(m.hand) # {},
         NEW k \in Nat, Cardinality(Armed(m.hand)) <= k
  PROVE  LET n == MaybeFinishStreetOrHand(m)
         IN  /\ Fit(n) /\ n.hand.id = m.hand.id /\ Raises(m.hand, n.hand)
             /\ Asking(n, k) \/ AtRest(n)
<1> DEFINE h == m.hand
           n == MaybeFinishStreetOrHand(m)
           moved == [m EXCEPT !.hand = Advance(m.hand), !.ask = TRUE]
           closing == [m EXCEPT !.due = Schedule(m.due, AdvanceCmd(m.hand.id))]
<1>1. /\ Sound(h) /\ Accounted(h) /\ m.due \in [Commands -> Nat] /\ h.id \in HandIds
      /\ 0 \in Seats /\ NotFolded(h) \in SUBSET Seats
  <2>1. 0 \in Seats
    BY MaxSeatsAssumption DEF Seats
  <2>2. Sound(h) /\ Accounted(h) /\ m.due \in [Commands -> Nat] /\ h.id \in HandIds
    BY FitFacts DEF Sound
  <2>3. NotFolded(h) \in SUBSET Seats
    BY <2>2 DEF NotFolded, Accounted, Hands
  <2>4. QED
    BY <2>1, <2>2, <2>3
<1>2. Fit(n) /\ n.hand.id = h.id
  BY MaybeFinishFit DEF Onward
<1>3. CASE Cardinality(NotFolded(h)) <= 1
  <2>1. n = EndByFoldOut(m)
    BY <1>3 DEF MaybeFinishStreetOrHand
  <2>2. /\ n.hand = AwardSinglePot(h) /\ n.due = Schedule(m.due, EndCmd(h.id))
        /\ n.turn = m.turn /\ n.ask = m.ask
    BY <2>1 DEF EndByFoldOut, Fit, Machines
  <2>3. Expecting(n.due, {EndCmd(h.id)})
    BY <1>1, <2>2, OwnCommands, ExpectingMore
  <2>4. Paid(n.hand)
    BY <1>1, <1>3, <2>2, AwardedInFull
  <2>5. Raises(h, n.hand)
    <3>1. /\ n.hand.allIn = h.allIn /\ n.hand.currentBet = h.currentBet
          /\ n.hand.minRaise = h.minRaise
      BY <1>1, <2>2 DEF AwardSinglePot, Credit, Accounted, Hands
    <3>2. QED
      BY <1>1, <3>1, RaisesReflexive
  <2> HIDE DEF n
  <2>6. AtRest(n)
    BY <1>2, <2>2, <2>3, <2>4 DEF AtRest, Rested, Ending
  <2>7. QED
    BY <1>2, <2>5, <2>6 DEF n
<1>4. ASSUME ~(Cardinality(NotFolded(h)) <= 1) PROVE Contested(h)
  <2>1. Cardinality(NotFolded(h)) >= 2
    BY <1>1, <1>4, SeatSets
  <2>2. QED
    BY <2>1, TwoSeats DEF Contested
<1>5. CASE ~(Cardinality(NotFolded(h)) <= 1) /\ ~RoundClosed(h)
  <2>1. n = moved
    BY <1>5 DEF MaybeFinishStreetOrHand
  <2>2. /\ n.hand = Advance(h) /\ n.ask = TRUE /\ n.turn = m.turn /\ n.due = m.due
    BY <2>1 DEF Fit, Machines
  <2>3. SameBets(h, Advance(h)) /\ Advance(h).pending = h.pending
    BY <1>1, TurnMethods
  <2>4. InPlay(Advance(h)) /\ Contested(Advance(h))
    BY <1>4, <1>5, <2>3, SameBetsFacts
  <2>5. Armed(Advance(h)) = Armed(h)
    BY <2>3 DEF Armed
  <2>6. AskedWell(Advance(h)) \/ (Advance(h).toAct = NoSeat /\ StuckIn(Advance(h)))
    BY <1>1, <1>5, AdvanceAsks
  <2>7. Raises(h, Advance(h))
    BY <1>1, <2>3, RaisesReflexive DEF SameBets
  <2> HIDE DEF n
  <2>8. Asking(n, k)
    BY <2>2, <2>4, <2>5, <2>6 DEF Asking
  <2>9. QED
    BY <1>2, <2>2, <2>7, <2>8 DEF n
<1>6. CASE ~(Cardinality(NotFolded(h)) <= 1) /\ RoundClosed(h)
  <2>1. n = closing
    BY <1>6 DEF MaybeFinishStreetOrHand
  <2>2. /\ n.hand = h /\ n.ask = m.ask /\ n.turn = m.turn
        /\ n.due = Schedule(m.due, AdvanceCmd(h.id))
    BY <2>1 DEF Fit, Machines
  <2>3. Expecting(n.due, {AdvanceCmd(h.id)})
    BY <1>1, <2>2, OwnCommands, ExpectingMore
  <2>4. Closed(h)
    BY <1>6 DEF Closed, RoundClosed, CanAct
  <2>5. Raises(h, h)
    BY <1>1, RaisesReflexive
  <2> HIDE DEF n
  <2>6. AtRest(n)
    BY <1>4, <1>6, <2>2, <2>3, <2>4 DEF AtRest, Rested, Pausing
  <2>7. QED
    BY <1>2, <2>2, <2>5, <2>6 DEF n
<1>7. QED
  BY <1>3, <1>5, <1>6

\* Seat s has chips, or a bet to answer.
Answerable(h, s) == Strict => h.stack[s] > 0 \/ ToCall(h, s) > 0

\* Seat s acts, at most k other pre-actions being armed.
LEMMA ActRests ==
  ASSUME NEW m, Fit(m), m.hand.id # 0, Expecting(m.due, {}),
         InPlay(m.hand), Contested(m.hand), NEW s, Answerable(m.hand, s),
         NEW intent \in [kind : ActionKinds, amount : Int], Accepts(m.hand, s, intent),
         NEW k \in Nat, Cardinality(Armed(m.hand) \ {s}) <= k
  PROVE  LET n == Act(m, s, intent)
         IN  Presses(m, n) /\ (Asking(n, k) \/ AtRest(n))
<1> DEFINE h == m.hand
           g == Apply(h, s, intent)
           f == ClearPending(g, s)
           m1 == [m EXCEPT !.hand = f]
           m2 == [m1 EXCEPT !.turn = NoTurn]
           m3 == [m2 EXCEPT !.ask = FALSE]
<1>1. Sound(h) /\ Accounted(h) /\ Kept(h, g) /\ Accounted(g) /\ s \in Seats /\ s \in h.dealt
  <2>1. Sound(h) /\ Accounted(h)
    BY FitFacts DEF Sound
  <2>2. Kept(h, g) /\ s \in h.dealt
    BY <2>1, ApplySound
  <2>3. s \in Seats
    BY <2>1, <2>2 DEF Accounted, Hands
  <2>4. QED
    BY <2>1, <2>2, <2>3 DEF Kept, Sound
<1>2. Betting(h, g) /\ Effect(h, g, s)
  BY <1>1, ApplyBetting, ApplyEffect DEF InPlay
<1>3. Strict => h.stack[s] > 0 \/ ToCall(h, s) > 0
  BY DEF Answerable
<1> HIDE DEF g
<1>4. InPlay(g) /\ NotFolded(g) # {}
  BY <1>1, <1>2, <1>3, ActedInPlay
<1>5. Kept(g, f) /\ SameBets(g, f) /\ f.pending = [g.pending EXCEPT ![s] = NoPending]
  <2>1. Kept(g, f)
    <3>1. NoPending \in Pendings
      BY DEF NoPending, Pendings, PendingKinds
    <3>2. QED
      BY <1>1, <3>1, PendingSound DEF Kept
  <2>2. SameBets(g, f)
    BY <1>1, TurnMethods DEF ClearPending
  <2>3. f.pending = [g.pending EXCEPT ![s] = NoPending]
    BY <1>1 DEF ClearPending, SetPending, Accounted, Hands
  <2>4. QED
    BY <2>1, <2>2, <2>3
<1>6. Armed(f) = Armed(h) \ {s}
  <2>1. g.pending = h.pending /\ h.pending \in [Seats -> Pendings]
    BY <1>1, <1>2 DEF Effect, Accounted, Hands
  <2>2. NoPending.kind = "none"
    BY DEF NoPending
  <2> HIDE DEF f
  <2>3. \A o \in Seats : f.pending[o] = IF o = s THEN NoPending ELSE h.pending[o]
    BY <1>5, <2>1
  <2>4. \A o : o \in Armed(f) <=> o \in Armed(h) \ {s}
    BY <1>1, <2>2, <2>3 DEF Armed
  <2>5. QED
    BY <2>4, Zenon
<1> HIDE DEF f
<1>7. InPlay(f) /\ NotFolded(f) # {}
  BY <1>4, <1>5, SameBetsFacts
<1>8. Raises(h, f)
  <2>1. Raises(g, f)
    BY <1>1, <1>5, RaisesReflexive DEF SameBets
  <2>2. Raises(h, g) /\ Accounted(f)
    BY <1>2, <1>5 DEF Effect, Kept, Sound
  <2>3. QED
    BY <1>1, <2>1, <2>2, RaisesTransitive
<1>9. Fit(m1) /\ m1.hand = f /\ m1.due = m.due
  BY <1>1, <1>5, Replace DEF Onward, Fit, Machines, Kept
<1> HIDE DEF m1
<1>10. Fit(m2) /\ m2.hand = f /\ m2.due = m.due /\ m2.turn = NoTurn
  BY <1>9, Replace, NoTurnFacts DEF Onward, Fit, Machines
<1> HIDE DEF m2
<1>11. Fit(m3) /\ m3.hand = f /\ m3.due = m.due /\ m3.turn = NoTurn /\ m3.ask = FALSE
  BY <1>10, Replace DEF Onward, Fit, Machines
<1>12. m3 = [m EXCEPT !.hand = ClearPending(Apply(m.hand, s, intent), s),
                      !.turn = NoTurn, !.ask = FALSE]
  BY DEF m3, m2, m1, f, g
<1> HIDE DEF m3
<1> DEFINE n == MaybeFinishStreetOrHand(m3)
<1>13. /\ Fit(n) /\ Raises(f, n.hand) /\ (Asking(n, k) \/ AtRest(n))
  <2>1. m3.hand.id # 0 /\ Cardinality(Armed(m3.hand)) <= k
    BY <1>1, <1>5, <1>6, <1>11 DEF Kept
  <2>2. QED
    BY <1>7, <1>11, <2>1, MaybeFinishRests
<1>14. n = Act(m, s, intent)
  BY <1>12 DEF Act
<1> HIDE DEF n
<1>15. Moves(m, n)
  BY <1>14, ActMoves
<1>16. Raises(h, n.hand)
  BY <1>1, <1>5, <1>8, <1>13, RaisesTransitive DEF Fit, Kept, Sound
<1>17. QED
  BY <1>13, <1>14, <1>15, <1>16 DEF Presses
---------------------------------------------------------------------------
\* A pre-action of a seat that may act fits, or resolves to nothing.
LEMMA FitsOrGone ==
  ASSUME NEW h, Sound(h), NEW s \in Seats, MayAct(h, s)
  PROVE  \/ Accepts(h, s, ResolvePending(h, s))
         \/ ResolvePending(h, s).kind = "none"
<1> DEFINE p == h.pending[s]
           intent == ResolvePending(h, s)
<1>1. h.currentBet \in Nat /\ h.bet[s] \in Nat
  BY DEF Sound, Accounted, Hands
<1>2. CASE p.kind = "check_fold"
  <2>1. intent.kind = (IF ToCall(h, s) > 0 THEN "fold" ELSE "check")
    BY <1>2 DEF ResolvePending
  <2>2. QED
    BY <1>1, <2>1 DEF Accepts, ToCall
<1>3. CASE p.kind = "call_any"
  <2>1. intent.kind = (IF ToCall(h, s) > 0 THEN "call" ELSE "check")
    BY <1>3 DEF ResolvePending
  <2>2. QED
    BY <1>1, <2>1 DEF Accepts, ToCall
<1>4. CASE p.kind = "raise_to"
  <2>1. CASE p.amount > h.bet[s] /\ CanRaiseTo(h, s, p.amount)
    <3>1. intent.kind = "raise" /\ intent.amount = p.amount
      BY <1>4, <2>1 DEF ResolvePending
    <3>2. QED
      BY <2>1, <3>1 DEF Accepts
  <2>2. CASE ~(p.amount > h.bet[s] /\ CanRaiseTo(h, s, p.amount))
    BY <1>4, <2>2 DEF ResolvePending
  <2>3. QED
    BY <2>1, <2>2
<1>5. CASE p.kind \notin {"check_fold", "call_any", "raise_to"}
  BY <1>5 DEF ResolvePending
<1>6. QED
  BY <1>2, <1>3, <1>4, <1>5

\* Without a pre-action nothing fires.
LEMMA NothingArmed ==
  ASSUME NEW h, NEW s, h.pending[s].kind = "none"
  PROVE  ResolvePending(h, s).kind = "none" /\ ~Accepts(h, s, ResolvePending(h, s))
<1>1. ResolvePending(h, s).kind = "none"
  BY DEF ResolvePending
<1>2. QED
  BY <1>1 DEF Accepts

\* Asked for an action, a table waits for it, or fires one armed pre-action less.
LEMMA AskRests ==
  ASSUME NEW m, Fit(m), m.hand.id # 0, NEW k \in Nat, Asking(m, k)
  PROVE  LET n == Ask(m)
         IN  Presses(m, n) /\ (AtRest(n) \/ (k > 0 /\ Asking(n, k - 1)))
<1> DEFINE h == m.hand
           s == h.toAct
<1>1. /\ Sound(h) /\ Accounted(h) /\ s \in SeatOrNone /\ NotFolded(h) \in SUBSET Seats
      /\ m.due \in [Commands -> Nat]
  BY FitFacts DEF Sound, Accounted, Hands, NotFolded
<1>2. Moves(m, Ask(m)) /\ Ask(m) = BroadcastToAct(m)
  BY AskMoves DEF Asking, Ask
<1>3. /\ InPlay(h) /\ Contested(h) /\ m.turn = NoTurn /\ Expecting(m.due, {})
      /\ AskedWell(h) \/ (s = NoSeat /\ StuckIn(h))
      /\ AskedWell(h) => s \in Seats
      /\ Cardinality(Armed(h)) <= k
  <2>1. AskedWell(h) => s \in NotFolded(h)
    BY DEF AskedWell, Blocked, CanAct, NotFolded
  <2>2. QED
    BY <1>1, <2>1 DEF Asking
<1>4. CASE s = NoSeat
  <2> DEFINE n == [m EXCEPT !.ask = FALSE]
  <2>1. n.hand = h /\ n.turn = NoTurn /\ n.due = m.due /\ n.ask = FALSE
    BY <1>3 DEF Fit, Machines
  <2>2. Ask(m) = n
    BY <1>2, <1>4 DEF BroadcastToAct
  <2> HIDE DEF n
  <2>3. StuckIn(h)
    BY <1>3, <1>4, SeatsFacts
  <2>4. AtRest(n)
    BY <1>3, <1>4, <2>1, <2>3 DEF AtRest, Rested, Halted
  <2>5. Raises(h, n.hand)
    BY <1>1, <2>1, RaisesReflexive
  <2>6. QED
    BY <1>2, <2>2, <2>4, <2>5 DEF Presses
<1>5. CASE s # NoSeat /\ Fires(m)
  <2> DEFINE intent == Resolved(m)
  <2>1. AskedWell(h) /\ s \in Seats
    BY <1>3, <1>5
  <2>2. Accepts(h, s, intent)
    BY <1>5 DEF Fires
  <2>3. intent \in [kind : ActionKinds, amount : Int]
    BY <1>1, <2>2, ResolvedIntent DEF Resolved
  <2>4. s \in Armed(h)
    BY <2>1, <2>2, NothingArmed DEF Resolved, Armed
  <2>5. k > 0 /\ Cardinality(Armed(h) \ {s}) <= k - 1
    <3>1. Armed(h) \in SUBSET Seats
      BY DEF Armed
    <3>2. IsFiniteSet(Armed(h)) /\ Cardinality(Armed(h)) \in Nat
      BY <3>1, SeatSets
    <3>3. Cardinality(Armed(h) \ {s}) = Cardinality(Armed(h)) - 1
      BY <2>4, <3>2, FS_RemoveElement
    <3>4. Cardinality(Armed(h) \ {s}) \in Nat
      BY <3>2, FS_RemoveElement, FS_CardinalityType
    <3>5. QED
      BY <1>3, <3>2, <3>3, <3>4
  <2>6. k - 1 \in Nat
    BY <2>5
  <2>7. Ask(m) = Act(m, s, intent)
    BY <1>2, <1>5 DEF BroadcastToAct
  <2> HIDE DEF intent
  <2>8. Answerable(h, s)
    BY <2>1 DEF Answerable, AskedWell, CanAct, Blocked
  <2>9. QED
    BY <1>3, <2>2, <2>3, <2>5, <2>6, <2>7, <2>8, ActRests
<1>6. CASE s # NoSeat /\ ~Fires(m)
  <2> DEFINE f == ClearPending(h, s)
             d == [m EXCEPT !.hand = f]
             o == ArmTurnTimer(d)
             p == [o EXCEPT !.ask = FALSE]
  <2>1. AskedWell(h) /\ s \in Seats
    BY <1>3, <1>6
  <2>2. Resolved(m).kind = "none"
    <3>1. CASE s \in CanAct(h)
      <4>1. MayAct(h, s)
        BY <3>1 DEF MayAct, CanAct
      <4>2. QED
        BY <1>1, <1>6, <2>1, <4>1, FitsOrGone DEF Fires, Resolved
    <3>2. CASE Blocked(h)
      BY <3>2, NothingArmed DEF Blocked, Resolved
    <3>3. QED
      BY <2>1, <3>1, <3>2 DEF AskedWell
  <2>3. SameBets(h, f) /\ f.toAct = s /\ f.pending[s].kind = "none" /\ f \in Hands
    <3>1. SameBets(h, f) /\ f.toAct = s
      BY <1>1, <2>1, TurnMethods DEF ClearPending
    <3>2. NoPending \in Pendings /\ NoPending.kind = "none"
      BY DEF NoPending, Pendings, PendingKinds
    <3>3. f.pending[s] = NoPending
      BY <1>1, <2>1 DEF ClearPending, SetPending, Accounted, Hands
    <3>4. f \in Hands
      BY <1>1, <2>1, <3>2, PendingSound DEF Kept, Sound, Accounted
    <3>5. QED
      BY <3>1, <3>2, <3>3, <3>4
  <2>4. Ask(m) = p
    BY <1>2, <1>6, <2>2 DEF BroadcastToAct, DropStale
  <2> HIDE DEF f
  <2>5. d.hand = f /\ d.due = m.due /\ d.turn = m.turn /\ d \in Machines
    BY <2>3 DEF Fit, Machines
  <2> HIDE DEF d
  <2>6. /\ o.hand = f /\ o.due = m.due
        /\ o.turn = [hand |-> f.id, seat |-> f.toAct, live |-> TRUE]
        /\ DOMAIN o = {"hand", "turn", "due", "ask"}
    BY <2>5 DEF ArmTurnTimer, Machines
  <2> HIDE DEF o
  <2>7. /\ p.hand = f /\ p.due = m.due /\ p.ask = FALSE
        /\ p.turn.hand = f.id /\ p.turn.seat = f.toAct /\ p.turn.live = TRUE
    BY <2>6
  <2> HIDE DEF p
  <2>8. InPlay(f) /\ Contested(f) /\ CanAct(f) = CanAct(h) /\ NotFolded(f) = NotFolded(h)
        /\ ToCall(f, s) = ToCall(h, s)
    BY <1>3, <2>3, SameBetsFacts
  <2>9. AskedWell(f)
    <3>1. Blocked(h) => Blocked(f)
      BY <2>3, <2>8 DEF Blocked, SameBets
    <3>2. QED
      BY <2>1, <2>3, <2>8, <3>1 DEF AskedWell
  <2>10. Open(f, p.turn, p.due)
    BY <1>3, <2>3, <2>7, <2>8, <2>9 DEF Open
  <2>11. AtRest(p)
    BY <2>7, <2>10 DEF AtRest, Rested
  <2>12. Raises(h, f)
    BY <1>1, <2>3, RaisesReflexive DEF SameBets
  <2>13. QED
    BY <1>2, <2>4, <2>7, <2>11, <2>12 DEF Presses
<1>7. QED
  BY <1>4, <1>5, <1>6

LEMMA RestStays ==
  ASSUME NEW m, AtRest(m)
  PROVE  Ask(m) = m /\ Chain(m) = m
<1>1. Ask(m) = m
  BY DEF AtRest, Ask
<1>2. QED
  BY <1>1 DEF Chain

\* Six pre-actions are the most that can be armed: the seventh question is the last.
LEMMA ChainRests ==
  ASSUME NEW m, Fit(m), m.hand.id # 0, Asking(m, 6) \/ AtRest(m)
  PROVE  Presses(m, Chain(m)) /\ AtRest(Chain(m))
<1> DEFINE Asked(n, k) == Presses(m, n) /\ (AtRest(n) \/ Asking(n, k))
<1>1. ASSUME NEW n, Presses(m, n) PROVE Fit(n) /\ n.hand.id # 0
  BY <1>1 DEF Presses, Moves, Later
<1>2. ASSUME NEW n, NEW k \in Nat, Asked(n, k)
      PROVE  Presses(m, Ask(n)) /\ (AtRest(Ask(n)) \/ (k > 0 /\ Asking(Ask(n), k - 1)))
  <2>1. CASE AtRest(n)
    BY <1>2, <2>1, RestStays
  <2>2. CASE Asking(n, k)
    <3>1. Presses(n, Ask(n)) /\ (AtRest(Ask(n)) \/ (k > 0 /\ Asking(Ask(n), k - 1)))
      BY <1>1, <1>2, <2>2, AskRests
    <3>2. QED
      BY <1>2, <3>1, PressesTransitive
  <2>3. QED
    BY <1>2, <2>1, <2>2
<1>3. Asked(m, 6)
  <2>1. Raises(m.hand, m.hand) /\ Moves(m, m)
    BY RaisesReflexive, BettingReflexive DEF Moves, Betting, Fit, Sound
  <2>2. QED
    BY <2>1 DEF Presses
<1> HIDE DEF Asked
<1>4. \A n : \A k \in Nat : Asked(n, k) => Asked(Ask(n), k - 1) \/ (k = 0 /\ Asked(Ask(n), 0))
  BY <1>2 DEF Asked
<1>5. /\ \A n : Asked(n, 6) => Asked(Ask(n), 5)
      /\ \A n : Asked(n, 5) => Asked(Ask(n), 4)
      /\ \A n : Asked(n, 4) => Asked(Ask(n), 3)
      /\ \A n : Asked(n, 3) => Asked(Ask(n), 2)
      /\ \A n : Asked(n, 2) => Asked(Ask(n), 1)
      /\ \A n : Asked(n, 1) => Asked(Ask(n), 0)
  <2>1. \A n : \A k \in {1, 2, 3, 4, 5, 6} : Asked(n, k) => Asked(Ask(n), k - 1)
    BY <1>4
  <2>2. 6 - 1 = 5 /\ 5 - 1 = 4 /\ 4 - 1 = 3 /\ 3 - 1 = 2 /\ 2 - 1 = 1 /\ 1 - 1 = 0
    OBVIOUS
  <2>3. QED
    BY <2>1, <2>2
<1>6. \A n : Asked(n, 0) => Presses(m, Ask(n)) /\ AtRest(Ask(n))
  BY <1>2
<1>7. Asked(Ask(Ask(Ask(m))), 3)
  BY <1>3, <1>5
<1>8. Asked(Ask(Ask(Ask(Ask(Ask(Ask(m)))))), 0)
  BY <1>5, <1>7
<1>9. Presses(m, Ask(Ask(Ask(Ask(Ask(Ask(Ask(m)))))))) /\ AtRest(Ask(Ask(Ask(Ask(Ask(Ask(Ask(m))))))))
  BY <1>6, <1>8
<1>10. QED
  BY <1>9 DEF Chain

LEMMA ArmedAtMostSix == \A h : Cardinality(Armed(h)) \in Nat /\ Cardinality(Armed(h)) <= 6
<1>1. \A h : Armed(h) \in SUBSET Seats
  BY DEF Armed
<1>2. QED
  BY <1>1, SeatSets

\* Seat s acts, and whoever armed a pre-action after it.
LEMMA ActChainRests ==
  ASSUME NEW m, Fit(m), m.hand.id # 0, Expecting(m.due, {}),
         InPlay(m.hand), Contested(m.hand), NEW s, Answerable(m.hand, s),
         NEW intent \in [kind : ActionKinds, amount : Int], Accepts(m.hand, s, intent)
  PROVE  LET n == Chain(Act(m, s, intent))
         IN  Presses(m, n) /\ AtRest(n)
<1> DEFINE n == Act(m, s, intent)
<1>1. Cardinality(Armed(m.hand) \ {s}) <= 6
  <2>1. Armed(m.hand) \ {s} \in SUBSET Seats
    BY DEF Armed
  <2>2. QED
    BY <2>1, SeatSets
<1>2. Presses(m, n) /\ (Asking(n, 6) \/ AtRest(n))
  BY <1>1, ActRests
<1> HIDE DEF n
<1>3. Fit(n) /\ n.hand.id # 0
  BY <1>2 DEF Presses, Moves, Later
<1>4. Presses(n, Chain(n)) /\ AtRest(Chain(n))
  BY <1>2, <1>3, ChainRests
<1>5. QED
  BY <1>2, <1>4, PressesTransitive DEF n
---------------------------------------------------------------------------
(* The next street, and the end of the hand. *)

\* A street dealt after a closed round: everybody in has put something in.
LEMMA StreetInPlay ==
  ASSUME NEW h, Sound(h), InPlay(h), Contested(h), Closed(h), h.stage # "river"
  PROVE  LET g == ResetForNextStreet(DealStreet(h))
         IN  /\ Sound(g) /\ g.id = h.id /\ g.stage = DealStreet(h).stage
             /\ g.stage # h.stage /\ g.stage # "preflop"
             /\ InPlay(g) /\ Contested(g)
             /\ BettingPossible(g) => AskedWell(g)
             /\ ~BettingPossible(g) => Closed(g)
<1> DEFINE d == DealStreet(h)
           g == ResetForNextStreet(d)
<1>1. Accounted(h) /\ h.stage \in {"preflop", "flop", "turn"}
  BY DEF Sound, InPlay, Streets
<1>2. /\ d.stage \in Streets \ {"preflop"} /\ d.stage # h.stage
      /\ d \in Hands /\ Kept(h, d) /\ SameBets([h EXCEPT !.stage = d.stage], d)
      /\ d.pending = h.pending /\ d.button = h.button
  <2>1. d = [h EXCEPT !.stage = NextStage[h.stage]]
    BY <1>1 DEF DealStreet, NextStage
  <2>2. NextStage[h.stage] \in Streets \ {"preflop"} /\ NextStage[h.stage] # h.stage
    BY <1>1 DEF NextStage, Streets
  <2>3. Kept(h, d)
    BY PointsSound
  <2> HIDE DEF d
  <2>4. /\ d.stage = NextStage[h.stage] /\ d.pending = h.pending /\ d.button = h.button
    BY <1>1, <2>1 DEF Accounted, Hands
  <2>5. SameBets([h EXCEPT !.stage = d.stage], d)
    BY <1>1, <2>1, <2>4 DEF SameBets, Accounted, Hands
  <2>6. QED
    BY <2>2, <2>3, <2>4, <2>5 DEF Kept, Sound, Accounted
<1>3. /\ d.dealt = h.dealt /\ d.stackIn = h.stackIn /\ d.stack = h.stack
      /\ d.committed = h.committed /\ d.folded = h.folded /\ d.allIn = h.allIn
      /\ d.won = h.won /\ d.finals = h.finals
  BY <1>1, <1>2 DEF SameBets, Accounted, Hands
<1> HIDE DEF d
<1>4. Kept(d, g)
  BY <1>2, PointsSound DEF Kept
<1>5. /\ g.id = h.id /\ g.stage = d.stage /\ g.dealt = h.dealt /\ g.stackIn = h.stackIn
      /\ g.stack = h.stack /\ g.committed = h.committed /\ g.folded = h.folded
      /\ g.allIn = h.allIn /\ g.won = h.won /\ g.finals = h.finals
      /\ g.bet = Nothing /\ g.currentBet = 0 /\ g.minRaise = BigBlind
      /\ g.toAct = NextActorAfter(d, d.button)
  BY <1>2, <1>3 DEF ResetForNextStreet, Kept, Hands
<1> HIDE DEF g
<1>6. CanAct(g) = CanAct(h) /\ CanAct(d) = CanAct(h) /\ NotFolded(g) = NotFolded(h)
  BY <1>3, <1>5 DEF CanAct, NotFolded
<1>7. NotFolded(h) \subseteq Seats /\ CanAct(h) \in SUBSET Seats
  BY <1>1 DEF NotFolded, CanAct, Accounted, Hands
<1>8. \A s \in NotFolded(h) : h.committed[s] > 0
  <2>1. CASE h.stage # "preflop"
    BY <2>1 DEF InPlay
  <2>2. CASE h.stage = "preflop"
    <3> TAKE s \in NotFolded(h)
    <3>1. /\ s \in Seats /\ h.bet[s] \in Nat /\ h.committed[s] \in Nat /\ h.stackIn[s] \in Nat
          /\ h.stack[s] \in Nat /\ h.currentBet \in Nat
          /\ h.bet[s] <= h.committed[s] /\ h.stack[s] + h.committed[s] = h.stackIn[s] + h.won[s]
      BY <1>1, <1>7 DEF Accounted, Hands
    <3>2. h.won[s] = 0 /\ h.stackIn[s] > 0
      BY <3>1 DEF InPlay, Nothing, NotFolded
    <3>3. CASE s \in h.allIn
      <4>1. h.stack[s] = 0
        BY <3>3 DEF InPlay
      <4>2. QED
        BY <3>1, <3>2, <4>1
    <3>4. CASE s \notin h.allIn
      <4>1. ToCall(h, s) <= 0
        BY <2>2, <3>4 DEF Closed, RoundClosed, NotFolded
      <4>2. h.currentBet >= BigBlind
        BY <2>2 DEF InPlay
      <4>3. QED
        BY <1>1, <3>1, <4>1, <4>2 DEF ToCall, Accounted, ProperBlinds
    <3>5. QED
      BY <3>3, <3>4
  <2>3. QED
    BY <2>1, <2>2
<1>9. Strict => NoneForgotten(g)
  <2> SUFFICES ASSUME Strict, NEW s \in NotFolded(h) \ h.allIn
               PROVE  h.stack[s] > 0
    BY <1>5, <1>6 DEF NoneForgotten
  <2>1. h.stack[s] > 0 \/ (h.stage = "preflop" /\ s \notin h.acted)
    BY DEF InPlay, NoneForgotten
  <2>2. h.stage = "preflop" => s \in h.acted
    BY DEF Closed, RoundClosed, NotFolded
  <2>3. QED
    BY <2>1, <2>2
<1>10. InPlay(g)
  <2>1. BigBlind \in Nat \ {0}
    BY <1>1 DEF Accounted, ProperBlinds
  <2>2. QED
    BY <1>2, <1>5, <1>6, <1>8, <1>9, <2>1 DEF InPlay, MinimumOpen
<1>11. Contested(g)
  BY <1>6 DEF Contested
<1>12. BettingPossible(g) => AskedWell(g)
  <2>1. d.button \in SeatOrNone
    BY <1>2 DEF Hands, SeatOrNone
  <2>2. BettingPossible(g) => CanAct(d) # {}
    BY <1>6, TwoSeats DEF BettingPossible
  <2>3. CanAct(d) # {} => g.toAct \in CanAct(d)
    BY <1>5, <1>6, <1>7, <2>1, NextInFacts DEF NextActorAfter
  <2>4. QED
    BY <1>6, <2>2, <2>3 DEF AskedWell
<1>13. ~BettingPossible(g) => Closed(g)
  <2>1. \A s \in Seats : ToCall(g, s) = 0
    BY <1>5 DEF ToCall, Nothing
  <2>2. QED
    BY <1>2, <1>5, <1>6, <1>7, <2>1 DEF Closed
<1>14. QED
  BY <1>2, <1>4, <1>5, <1>10, <1>11, <1>12, <1>13 DEF Kept, g, d

LEMMA SettledRests ==
  ASSUME NEW m, Fit(m), m.ask = FALSE, m.turn = NoTurn, Expecting(m.due, {}),
         InPlay(m.hand), Contested(m.hand), m.hand.stage # "preflop"
  PROVE  LET n == SettleAndBroadcast(m)
         IN  AtRest(n) /\ n.hand.stage = "showdown"
<1> DEFINE h == m.hand
           n == SettleAndBroadcast(m)
<1>1. Sound(h) /\ h.id \in HandIds /\ m.due \in [Commands -> Nat]
  BY FitFacts
<1>2. /\ n.hand = Settle(h) /\ n.due = Schedule(m.due, EndCmd(h.id))
      /\ n.turn = m.turn /\ n.ask = m.ask
  BY DEF SettleAndBroadcast, Fit, Machines
<1> HIDE DEF n
<1>3. Expecting(n.due, {EndCmd(h.id)})
  BY <1>1, <1>2, OwnCommands, ExpectingMore
<1>4. Paid(n.hand)
  BY <1>1, <1>2, SettledInFull DEF Contested
<1>5. n.hand.id = h.id /\ n.hand.stage = "showdown"
  BY <1>1, <1>2, SettleLater DEF Later
<1>6. QED
  BY <1>2, <1>3, <1>4, <1>5 DEF AtRest, Rested, Ending, n

LEMMA NextStreetRests ==
  ASSUME NEW m, Fit(m), m.hand.id # 0, m.ask = FALSE, m.turn = NoTurn, Expecting(m.due, {}),
         InPlay(m.hand), Contested(m.hand), Closed(m.hand)
  PROVE  LET n == NextStreet(m)
         IN  AtRest(n) /\ n.hand.id = m.hand.id /\ n.hand.stage # m.hand.stage
<1> DEFINE h == m.hand
<1>1. Sound(h) /\ h.id \in HandIds /\ m.due \in [Commands -> Nat] /\ h.stage \in Streets
  BY FitFacts DEF InPlay
<1>2. NextStreet(m).hand.id = h.id
  BY NextStreetFit DEF Onward
<1>3. CASE h.stage = "river"
  <2>1. NextStreet(m) = SettleAndBroadcast(m)
    BY <1>3 DEF NextStreet
  <2>2. QED
    BY <1>2, <1>3, <2>1, SettledRests
<1>4. CASE h.stage # "river"
  <2> DEFINE dealt == DealStreet(h)
             g == ResetForNextStreet(dealt)
             n == [m EXCEPT !.hand = g]
             asking == [n EXCEPT !.ask = TRUE]
             closing == [n EXCEPT !.due = Schedule(@, AdvanceCmd(h.id))]
  <2>1. /\ Sound(g) /\ g.id = h.id /\ g.stage = dealt.stage
        /\ g.stage # h.stage /\ g.stage # "preflop"
        /\ InPlay(g) /\ Contested(g)
        /\ BettingPossible(g) => AskedWell(g)
        /\ ~BettingPossible(g) => Closed(g)
    BY <1>1, <1>4, StreetInPlay
  <2>2. NextStreet(m) = IF BettingPossible(n.hand) THEN Chain(asking)
                        ELSE IF dealt.stage = "river" THEN SettleAndBroadcast(n)
                        ELSE closing
    BY <1>4, Zenon DEF NextStreet, n, g, dealt, asking, closing
  <2> HIDE DEF g, dealt
  <2>3. /\ Fit(n) /\ n.hand = g /\ n.due = m.due /\ n.turn = m.turn /\ n.ask = FALSE
    BY <2>1, Replace DEF Onward, Kept, Fit, Machines
  <2> HIDE DEF n
  <2>4. CASE BettingPossible(g)
    <3>1. /\ Fit(asking) /\ asking.hand = g /\ asking.due = m.due /\ asking.turn = m.turn
          /\ asking.ask = TRUE
      BY <2>3, Replace DEF Onward, Fit, Machines
    <3> HIDE DEF asking
    <3>2. Asking(asking, 6)
      BY <2>1, <2>4, <3>1, ArmedAtMostSix DEF Asking
    <3>3. Presses(asking, Chain(asking)) /\ AtRest(Chain(asking))
      BY <2>1, <3>1, <3>2, ChainRests
    <3>4. NextStreet(m) = Chain(asking)
      BY <2>2, <2>3, <2>4
    <3>5. QED
      BY <1>2, <2>1, <3>1, <3>3, <3>4 DEF Presses, Moves
  <2>5. CASE ~BettingPossible(g) /\ dealt.stage = "river"
    <3>1. NextStreet(m) = SettleAndBroadcast(n)
      BY <2>2, <2>3, <2>5
    <3>2. AtRest(SettleAndBroadcast(n)) /\ SettleAndBroadcast(n).hand.stage = "showdown"
      BY <2>1, <2>3, SettledRests
    <3>3. h.stage # "showdown"
      BY <1>1 DEF Streets
    <3>4. QED
      BY <1>2, <3>1, <3>2, <3>3
  <2>6. CASE ~BettingPossible(g) /\ dealt.stage # "river"
    <3>1. NextStreet(m) = closing
      BY <2>2, <2>3, <2>6
    <3>2. /\ closing.hand = g /\ closing.turn = m.turn /\ closing.ask = FALSE
          /\ closing.due = Schedule(m.due, AdvanceCmd(h.id))
      BY <2>3 DEF Fit, Machines
    <3> HIDE DEF closing
    <3>3. Expecting(closing.due, {AdvanceCmd(h.id)})
      BY <1>1, <3>2, OwnCommands, ExpectingMore
    <3>4. AtRest(closing)
      BY <2>1, <2>6, <3>2, <3>3 DEF AtRest, Rested, Pausing
    <3>5. QED
      BY <1>2, <2>1, <3>1, <3>2, <3>4
  <2>7. QED
    BY <2>4, <2>5, <2>6
<1>5. QED
  BY <1>3, <1>4
---------------------------------------------------------------------------
(* The start of a hand. *)

\* A hand in which nobody has been asked yet.
Fresh(h) ==
  /\ Accounted(h) /\ h.folded = {} /\ h.acted = {} /\ h.won = Nothing /\ h.finals = 0
  /\ \A s \in Seats : h.pending[s] = NoPending
  /\ \A s \in h.dealt : h.stackIn[s] > 0
  /\ \A s \in Seats \ h.dealt : h.stackIn[s] = 0
  /\ \A s \in h.allIn : h.stack[s] = 0

LEMMA BlindFresh ==
  ASSUME NEW h, Fresh(h), NEW s \in h.dealt, NEW amount \in Nat
  PROVE  Fresh(PostBlind(h, s, amount))
<1> DEFINE g == PostBlind(h, s, amount)
           pay == Lower(amount, h.stack[s])
<1>1. Accounted(h) /\ h \in Hands /\ s \in Seats /\ h.stack \in [Seats -> Nat]
      /\ h.allIn \subseteq Seats
  BY DEF Fresh, Accounted, Hands
<1>2. Accounted(g)
  BY <1>1, PostBlindSound
<1>3. /\ g.folded = h.folded /\ g.acted = h.acted /\ g.won = h.won /\ g.finals = h.finals
      /\ g.pending = h.pending /\ g.dealt = h.dealt /\ g.stackIn = h.stackIn
      /\ g.stack = [h.stack EXCEPT ![s] = h.stack[s] - pay]
  BY <1>1 DEF PostBlind, Hands
<1>4. /\ amount > h.stack[s] => g.allIn = h.allIn \cup {s}
      /\ ~(amount > h.stack[s]) => g.allIn = h.allIn
  BY <1>1 DEF PostBlind, Hands
<1>5. /\ h.stack[s] \in Nat /\ pay \in Nat /\ pay <= h.stack[s]
      /\ amount > h.stack[s] => pay = h.stack[s]
  BY <1>1 DEF Lower
<1> HIDE DEF g, pay
<1>6. \A o \in Seats \ {s} : g.stack[o] = h.stack[o]
  BY <1>1, <1>3
<1>7. g.stack[s] = h.stack[s] - pay
  BY <1>1, <1>3
<1>8. ASSUME NEW o \in g.allIn PROVE g.stack[o] = 0
  <2>1. CASE o = s /\ amount > h.stack[s]
    BY <1>5, <1>7, <2>1
  <2>2. CASE o = s /\ o \in h.allIn
    BY <1>5, <1>7, <2>2 DEF Fresh
  <2>3. CASE o # s
    BY <1>1, <1>4, <1>6, <1>8, <2>3 DEF Fresh
  <2>4. QED
    BY <1>4, <1>8, <2>1, <2>2, <2>3
<1>9. QED
  BY <1>2, <1>3, <1>8 DEF Fresh, g

LEMMA DeadFresh ==
  ASSUME NEW h, Fresh(h), NEW D \in SUBSET h.dealt
  PROVE  Fresh(PostDeadBlinds(h, D))
<1> DEFINE g == PostDeadBlinds(h, D)
           Pay(s) == IF s \in D THEN Lower(BigBlind, h.stack[s]) ELSE 0
<1>1. Accounted(h) /\ h \in Hands /\ h.stack \in [Seats -> Nat] /\ h.allIn \subseteq Seats
      /\ D \subseteq Seats
  BY DEF Fresh, Accounted, Hands
<1>2. Accounted(g)
  BY <1>1, PostDeadBlindsSound
<1>3. /\ g.folded = h.folded /\ g.acted = h.acted /\ g.won = h.won /\ g.finals = h.finals
      /\ g.pending = h.pending /\ g.dealt = h.dealt /\ g.stackIn = h.stackIn
      /\ g.stack = [s \in Seats |-> h.stack[s] - Pay(s)]
      /\ g.allIn = h.allIn \cup {s \in D : BigBlind > h.stack[s]}
  BY <1>1 DEF PostDeadBlinds, Hands
<1>4. ASSUME NEW s \in Seats
      PROVE  /\ h.stack[s] \in Nat /\ Pay(s) \in Nat /\ Pay(s) <= h.stack[s]
             /\ s \in D /\ BigBlind > h.stack[s] => Pay(s) = h.stack[s]
  <2>1. h.stack[s] \in Nat /\ BigBlind \in Nat
    BY <1>1 DEF Accounted, ProperBlinds
  <2>2. QED
    BY <2>1 DEF Lower
<1> HIDE DEF g, Pay
<1>5. \A s \in Seats : g.stack[s] = h.stack[s] - Pay(s)
  BY <1>3
<1>6. ASSUME NEW s \in g.allIn PROVE g.stack[s] = 0
  <2>1. CASE s \in h.allIn
    <3>1. h.stack[s] = 0 /\ s \in Seats
      BY <1>1, <2>1 DEF Fresh
    <3>2. QED
      BY <1>4, <1>5, <3>1
  <2>2. CASE s \in D /\ BigBlind > h.stack[s]
    BY <1>1, <1>4, <1>5, <2>2
  <2>3. QED
    BY <1>3, <1>6, <2>1, <2>2
<1>7. QED
  BY <1>2, <1>3, <1>6 DEF Fresh, g

LEMMA StartInPlay ==
  ASSUME NEW id \in Nat, NEW place \in Seats, NEW dealt \in SUBSET Seats,
         NEW chips \in [Seats -> Nat], NEW score \in [Seats -> Nat],
         NEW D \in SUBSET dealt, NEW a \in dealt, NEW b \in dealt, a # b,
         place \in dealt, \A s \in dealt : chips[s] > 0, \A s \in Seats \ dealt : chips[s] = 0,
         ProperBlinds
  PROVE  LET g == StartPreflop(NewHand(id, place, dealt, chips, score), D)
         IN  /\ InPlay(g) /\ Contested(g)
             /\ AskedWell(g) \/ (g.toAct = NoSeat /\ StuckIn(g))
<1> DEFINE h == NewHand(id, place, dealt, chips, score)
           sb == SmallBlindSeat(h)
           bb == BigBlindSeat(h)
           dead == PostDeadBlinds(h, SkipNatural(D, bb))
           small == PostBlind(dead, sb, SmallBlind)
           big == PostBlind(small, bb, BigBlind)
           actor == IF HeadsUp(h) THEN sb ELSE NextActorAfter(big, bb)
           g == [big EXCEPT !.currentBet = BigBlind, !.minRaise = BigBlind,
                            !.stage = "preflop", !.toAct = actor]
<1>1. /\ Nothing \in [Seats -> Nat] /\ \A s \in Seats : Nothing[s] = 0
      /\ [s \in Seats |-> NoPending] \in [Seats -> Pendings]
      /\ "waiting" \in Stages /\ NoSeat \in SeatOrNone
  BY DEF Nothing, NoPending, Pendings, PendingKinds, Stages, SeatOrNone
<1>2. h \in Hands /\ h.dealt = dealt /\ h.button = place /\ h.bet = Nothing
  BY <1>1 DEF NewHand, Hands
<1>3. Fresh(h)
  <2>1. Accounted(h)
    BY <1>1, <1>2 DEF NewHand, Accounted
  <2>2. /\ h.folded = {} /\ h.acted = {} /\ h.won = Nothing /\ h.finals = 0
        /\ h.pending = [s \in Seats |-> NoPending] /\ h.stackIn = chips /\ h.allIn = {}
    BY DEF NewHand
  <2> HIDE DEF h
  <2>3. \A s \in Seats : h.pending[s] = NoPending
    BY <2>2
  <2>4. QED
    BY <1>2, <2>1, <2>2, <2>3 DEF Fresh
<1> HIDE DEF h
<1>4. sb \in dealt
  BY <1>2, NextInFacts DEF SmallBlindSeat, NextSeatedAfter, SeatOrNone
<1>5. bb \in dealt /\ bb # sb
  <2>1. PICK other \in dealt : other # sb
    OBVIOUS
  <2> HIDE DEF sb
  <2>2. NextIn(sb, dealt) \in dealt \ {sb}
    BY <1>4, <2>1, NextIsAnother
  <2>3. bb = NextIn(sb, dealt)
    BY <1>2 DEF BigBlindSeat, NextSeatedAfter, sb
  <2>4. QED
    BY <2>2, <2>3
<1> HIDE DEF sb, bb
<1>6. Accounted(dead) /\ Fresh(dead) /\ dead.dealt = dealt /\ dead.bet = Nothing
  <2>1. SkipNatural(D, bb) \in SUBSET h.dealt /\ Accounted(h)
    BY <1>2, <1>3 DEF SkipNatural, Fresh
  <2>2. QED
    BY <1>2, <1>3, <2>1, DeadFresh, PostDeadBlindsSound
<1> HIDE DEF dead
<1>7. /\ Accounted(small) /\ Fresh(small) /\ small.dealt = dealt
      /\ small.bet[sb] <= SmallBlind
  BY <1>1, <1>4, <1>6, BlindFresh, PostBlindSound, ProperBlinds DEF ProperBlinds
<1> HIDE DEF small
<1>8. /\ Accounted(big) /\ Fresh(big) /\ big.dealt = dealt
      /\ big.bet[sb] = small.bet[sb]
  <2>1. /\ Accounted(big) /\ big.dealt = dealt
        /\ \A o \in Seats \ {bb} : big.bet[o] = small.bet[o]
    BY <1>5, <1>7, PostBlindSound, ProperBlinds DEF ProperBlinds
  <2>2. Fresh(big)
    BY <1>5, <1>7, BlindFresh, ProperBlinds DEF ProperBlinds
  <2>3. sb \in Seats \ {bb}
    BY <1>4, <1>5
  <2>4. QED
    BY <2>1, <2>2, <2>3
<1>9. big \in Hands /\ CanAct(big) \in SUBSET Seats /\ NotFolded(big) = dealt
  BY <1>8 DEF Fresh, Accounted, Hands, CanAct, NotFolded
<1> HIDE DEF big
<1> DEFINE p == [big EXCEPT !.currentBet = BigBlind, !.minRaise = BigBlind,
                            !.stage = "preflop", !.toAct = actor]
<1>10. /\ p.folded = big.folded /\ p.acted = big.acted /\ p.won = big.won
       /\ p.finals = big.finals /\ p.pending = big.pending /\ p.dealt = dealt
       /\ p.stackIn = big.stackIn /\ p.stack = big.stack /\ p.allIn = big.allIn
       /\ p.bet = big.bet /\ p.currentBet = BigBlind /\ p.minRaise = BigBlind
       /\ p.stage = "preflop" /\ p.toAct = actor
  BY <1>8, <1>9 DEF Hands
<1>11. p = g
  OBVIOUS
<1>12. /\ HeadsUp(h) => actor = sb
       /\ ~HeadsUp(h) => actor = NextActorAfter(big, bb)
  OBVIOUS
<1> HIDE DEF g, p, actor
<1>13. InPlay(p)
  <2>1. NoneForgotten(p)
    BY <1>8, <1>10 DEF NoneForgotten, Fresh
  <2>2. MinimumOpen(p)
    BY <1>10, ProperBlinds DEF ProperBlinds, MinimumOpen
  <2>3. QED
    BY <1>8, <1>10, <2>1, <2>2, ProperBlinds DEF ProperBlinds, InPlay, Fresh, Streets
<1>14. Contested(p)
  BY <1>8, <1>10 DEF Contested, NotFolded, Fresh
<1>15. CanAct(p) = CanAct(big) /\ NotFolded(p) = dealt
  BY <1>8, <1>9, <1>10 DEF CanAct, NotFolded
<1>16. \A s \in dealt : s \in CanAct(big) \/ big.stack[s] = 0
  <2>1. \A s \in dealt : big.stack[s] \in Nat
    BY <1>9 DEF Hands
  <2>2. QED
    BY <1>8, <2>1 DEF CanAct, Fresh
<1>17. AskedWell(p) \/ (p.toAct = NoSeat /\ StuckIn(p))
  <2>1. CASE HeadsUp(h) /\ sb \in CanAct(big)
    BY <1>10, <1>12, <1>15, <2>1 DEF AskedWell
  <2>2. CASE HeadsUp(h) /\ sb \notin CanAct(big)
    <3>1. p.stack[sb] = 0
      BY <1>4, <1>10, <1>16, <2>2
    <3>2. Strict => ToCall(p, sb) > 0
      <4>1. big.bet[sb] \in Nat /\ SmallBlind \in Nat /\ BigBlind \in Nat
        BY <1>4, <1>9, ProperBlinds DEF ProperBlinds, Hands
      <4>2. QED
        BY <1>7, <1>8, <1>10, <4>1 DEF Strict, ToCall
    <3>3. p.pending[sb].kind = "none"
      BY <1>4, <1>8, <1>10 DEF Fresh, NoPending
    <3>4. sb \in NotFolded(p) \ p.acted
      BY <1>4, <1>8, <1>10, <1>15 DEF Fresh
    <3>5. p.toAct = sb
      BY <1>10, <1>12, <2>2
    <3>6. Blocked(p)
      BY <1>10, <3>1, <3>2, <3>3, <3>4, <3>5 DEF Blocked
    <3>7. QED
      BY <3>6 DEF AskedWell
  <2>3. CASE ~HeadsUp(h)
    <3>1. /\ actor \in CanAct(big) \cup {NoSeat}
          /\ CanAct(big) # {} => actor \in CanAct(big)
      <4>1. bb \in SeatOrNone
        BY <1>5 DEF SeatOrNone
      <4>2. QED
        BY <1>9, <1>12, <2>3, <4>1, NextInFacts DEF NextActorAfter
    <3>2. CanAct(big) = {} => StuckIn(p)
      BY <1>8, <1>10, <1>15, <1>16 DEF StuckIn, Fresh
    <3>3. CASE actor \in CanAct(big)
      BY <1>10, <1>15, <3>3 DEF AskedWell
    <3>4. CASE CanAct(big) = {}
      <4>1. actor = NoSeat
        BY <3>1, <3>4
      <4>2. QED
        BY <1>10, <3>2, <3>4, <4>1
    <3>5. QED
      BY <3>1, <3>3, <3>4
  <2>4. QED
    BY <2>1, <2>2, <2>3
<1>18. StartPreflop(NewHand(id, place, dealt, chips, score), D) = p
  BY <1>11 DEF StartPreflop, g, big, small, dead, actor, sb, bb, h
<1>19. QED
  BY <1>13, <1>14, <1>17, <1>18
---------------------------------------------------------------------------
(* The steps of the table. *)

OrderlyInv == \/ hand = NoHand /\ turn = NoTurn /\ Expecting(due, {})
              \/ hand.id # 0 /\ Rested(hand, turn, due)

\* A step within a street only raises the bets.
Pressed == SameHand => hand'.stage = hand.stage /\ Raises(hand, hand')

LEMMA NothingOn ==
  ASSUME OrderlyInv, hand.id = 0
  PROVE  hand = NoHand /\ turn = NoTurn /\ Expecting(due, {})
BY DEF OrderlyInv

\* A command under way says what state the hand is in.
LEMMA UnderWay ==
  ASSUME Inv, OrderlyInv, NEW c \in Commands \ {StartCmd}, due[c] > 0
  PROVE  /\ hand.id # 0
         /\ \/ c = AdvanceCmd(hand.id) /\ Pausing(hand, turn, due)
            \/ c = EndCmd(hand.id) /\ Ending(hand, turn, due)
            \/ c = TimeoutCmd(hand.id, hand.toAct) /\ Open(hand, turn, due) /\ ~turn.live
<1>1. \A C : Expecting(due, C) => c \in C
  BY DEF Expecting
<1>2. Rested(hand, turn, due) /\ hand.id # 0
  BY <1>1 DEF OrderlyInv
<1>3. CASE Open(hand, turn, due)
  BY <1>1, <1>2, <1>3 DEF Open
<1>4. CASE Pausing(hand, turn, due)
  BY <1>1, <1>2, <1>4 DEF Pausing
<1>5. CASE Ending(hand, turn, due)
  BY <1>1, <1>2, <1>5 DEF Ending
<1>6. CASE Halted(hand, turn, due)
  BY <1>1, <1>6 DEF Halted
<1>7. QED
  BY <1>2, <1>3, <1>4, <1>5, <1>6 DEF Rested

LEMMA CommandsDiffer ==
  ASSUME NEW i, NEW j, NEW s, NEW r
  PROVE  /\ AdvanceCmd(i) # EndCmd(j) /\ AdvanceCmd(i) # TimeoutCmd(j, s)
         /\ EndCmd(i) # TimeoutCmd(j, s)
         /\ AdvanceCmd(i) = AdvanceCmd(j) => i = j
         /\ EndCmd(i) = EndCmd(j) => i = j
         /\ TimeoutCmd(i, s) = TimeoutCmd(j, r) => i = j /\ s = r
<1>1. /\ AdvanceCmd(i).kind = "advance" /\ AdvanceCmd(i).hand = i
      /\ EndCmd(i).kind = "end" /\ EndCmd(i).hand = i
      /\ TimeoutCmd(i, s).kind = "timeout" /\ TimeoutCmd(i, s).hand = i /\ TimeoutCmd(i, s).seat = s
      /\ AdvanceCmd(j).hand = j /\ EndCmd(j).kind = "end" /\ EndCmd(j).hand = j
      /\ TimeoutCmd(j, s).kind = "timeout" /\ TimeoutCmd(j, r).hand = j /\ TimeoutCmd(j, r).seat = r
  BY DEF AdvanceCmd, EndCmd, TimeoutCmd, Command
<1>2. "advance" # "end" /\ "advance" # "timeout" /\ "end" # "timeout"
  OBVIOUS
<1> HIDE DEF AdvanceCmd, EndCmd, TimeoutCmd
<1>3. QED
  BY <1>1, <1>2

\* Steps that leave the hand and its own commands alone.
LEMMA Elsewhere ==
  ASSUME Inv, OrderlyInv, UNCHANGED <<hand, turn>>,
         \/ due' = due \/ due' = Schedule(due, StartCmd) \/ due' = Consume(due, StartCmd)
  PROVE  OrderlyInv' /\ Pressed
<1>1. \A C : Expecting(due, C) => Expecting(due', C)
  BY StartAside DEF Inv, TypeOK
<1>2. Raises(hand, hand')
  BY RaisesReflexive DEF Inv, Sound
<1>3. hand' = hand /\ turn' = turn
  OBVIOUS
<1>4. Rested(hand, turn, due) => Rested(hand', turn', due')
  BY <1>1, <1>3 DEF Rested, Open, Pausing, Ending, Halted
<1>5. OrderlyInv'
  BY <1>1, <1>3, <1>4 DEF OrderlyInv
<1>6. QED
  BY <1>2, <1>3, <1>5 DEF Pressed

\* The actor has come to rest.
LEMMA BecomeRests ==
  ASSUME Inv, hand.id # 0, NEW m, Fit(m), m.hand.id = hand.id, AtRest(m), Become(m)
  PROVE  OrderlyInv'
<1>1. hand' = m.hand /\ turn' = m.turn /\ due' = m.due
  BY DEF Become
<1>2. QED
  BY <1>1 DEF OrderlyInv, AtRest

\* Somebody in turn acts.
LEMMA ActStepRests ==
  ASSUME Inv, hand.id # 0, NEW m, Fit(m), SameBets(hand, m.hand),
         InPlay(hand), Contested(hand), Expecting(m.due, {}),
         NEW s, Answerable(m.hand, s),
         NEW intent \in [kind : ActionKinds, amount : Int], Accepts(m.hand, s, intent),
         Become(Chain(Act(m, s, intent)))
  PROVE  OrderlyInv' /\ Pressed
<1> DEFINE n == Chain(Act(m, s, intent))
<1>1. m.hand.id = hand.id /\ InPlay(m.hand) /\ Contested(m.hand)
  BY SameBetsFacts DEF SameBets
<1>2. Presses(m, n) /\ AtRest(n)
  BY <1>1, ActChainRests
<1> HIDE DEF n
<1>3. Fit(n) /\ n.hand.id = hand.id /\ n.hand.stage = hand.stage
  BY <1>1, <1>2 DEF Presses, Moves, Later, SameBets
<1>4. Become(n)
  BY DEF n
<1>5. OrderlyInv'
  BY <1>2, <1>3, <1>4, BecomeRests
<1>6. Raises(hand, n.hand)
  <2>1. Accounted(hand) /\ Accounted(m.hand) /\ Accounted(n.hand)
    BY <1>3 DEF Inv, Fit, Sound
  <2>2. Raises(hand, m.hand)
    BY <2>1, RaisesReflexive DEF SameBets
  <2>3. QED
    BY <1>2, <2>1, <2>2, RaisesTransitive DEF Presses
<1>7. hand' = n.hand
  BY <1>4 DEF Become
<1>8. QED
  BY <1>3, <1>5, <1>6, <1>7 DEF Pressed

LEMMA ClientsAside ==
  ASSUME Orderly, Inv, OrderlyInv, NEW u \in Users,
         (\E chips \in BuyIns : Sit(u, chips)) \/ Leave(u) \/ SitOut(u) \/ SitIn(u)
  PROVE  OrderlyInv' /\ Pressed
<1>1. CASE \E chips \in BuyIns : Sit(u, chips)
  BY <1>1, Elsewhere DEF Sit, ScheduleStart
<1>2. CASE Leave(u)
  <2>1. hand.id = 0
    BY <1>2 DEF Leave, Orderly, HandOn
  <2>2. NotFolded(hand) = {}
    BY <2>1, NothingOn DEF NoHand, NewHand, NotFolded
  <2>3. UNCHANGED <<hand, turn, due>>
    BY <1>2, <2>2 DEF Leave
  <2>4. QED
    BY <2>3, Elsewhere
<1>3. CASE SitOut(u)
  BY <1>3, Elsewhere DEF SitOut
<1>4. CASE SitIn(u)
  BY <1>4, Elsewhere DEF SitIn, ScheduleStart
<1>5. QED
  BY <1>1, <1>2, <1>3, <1>4

\* In orderly play no command is ever stale.
LEMMA NothingStale ==
  ASSUME Orderly, Inv, OrderlyInv, StaleCommand \/ StaleTimeout \/ Drop
  PROVE  FALSE
<1>1. ~Drop
  BY DEF Drop, Orderly
<1>2. CASE StaleCommand
  <2>1. PICK id \in 1..MaxHands :
          id # hand.id /\ (due[AdvanceCmd(id)] > 0 \/ due[EndCmd(id)] > 0)
    BY <1>2 DEF StaleCommand
  <2>2. id \in HandIds
    BY TableAssumption DEF HandIds
  <2>3. AdvanceCmd(id) \in Commands \ {StartCmd} /\ EndCmd(id) \in Commands \ {StartCmd}
    BY <2>2, OwnCommands
  <2>4. QED
    BY <2>1, <2>3, UnderWay, CommandsDiffer
<1>3. CASE StaleTimeout
  <2>1. PICK id \in 1..MaxHands, s \in Seats :
          due[TimeoutCmd(id, s)] > 0 /\ (id # hand.id \/ s # hand.toAct)
    BY <1>3 DEF StaleTimeout
  <2>2. id \in HandIds /\ s \in SeatOrNone
    BY TableAssumption DEF HandIds, SeatOrNone
  <2>3. TimeoutCmd(id, s) \in Commands \ {StartCmd}
    BY <2>2, OwnCommands
  <2>4. QED
    BY <2>1, <2>3, UnderWay, CommandsDiffer
<1>4. QED
  BY <1>1, <1>2, <1>3

LEMMA StartHandRests ==
  ASSUME Inv, OrderlyInv, StartHand
  PROVE  OrderlyInv' /\ Pressed
<1> DEFINE in == Participants(seats)
           chips == [s \in Seats |-> IF s \in in THEN seats[s].stack ELSE 0]
           owing == {s \in in : seats[s].owes}
           start == Consume(due, StartCmd)
<1>1. hand.id = 0 /\ hand'.id = hands + 1 /\ hands + 1 \in Nat \ {0}
  <2>1. hands \in Nat
    BY TableAssumption DEF Inv, TypeOK, HandIds
  <2>2. hands + 1 \in Nat \ {0}
    BY <2>1
  <2>3. hand'.id = hands + 1
    BY StartHandInv
  <2>4. hand.id = 0
    BY Zenon DEF StartHand, StartReady, CanStart, HandOn
  <2>5. QED
    BY <2>2, <2>3, <2>4
<1>2. PICK score \in Deals :
        LET h == NewHand(hands + 1, button', in, chips, score)
            m == Machine(StartPreflop(h, owing), turn, start)
        IN  Become(Chain([m EXCEPT !.ask = TRUE]))
  BY DEF StartHand
<1>3. in \in SUBSET Seats /\ owing \in SUBSET in /\ chips \in [Seats -> Nat]
  BY DEF Participants, Inv, TypeOK, Players
<1>4. \E a, b \in in : a # b
  BY TwoSeats DEF StartHand, StartReady, CanStart, ActivePlayers
<1>5. button' \in in
  <2>1. button \in SeatOrNone /\ in # {}
    BY <1>4 DEF Inv, TypeOK
  <2>2. button' = NextIn(button, in)
    BY DEF StartHand
  <2>3. QED
    BY <1>3, <2>1, <2>2, NextInFacts
<1>6. start \in [Commands -> Nat] /\ Expecting(start, {}) /\ turn = NoTurn
  <2>1. StartCmd \in Commands
    BY CommandFacts, TableAssumption DEF HandIds
  <2>2. start \in [Commands -> Nat]
    BY <2>1, DueFacts DEF StartHand, StartReady, Inv, TypeOK
  <2>3. Expecting(start, {}) /\ turn = NoTurn
    BY <1>1, NothingOn, StartAside DEF Inv, TypeOK
  <2>4. QED
    BY <2>2, <2>3
<1>7. hands + 1 \in HandIds
  BY TableAssumption DEF StartHand, StartReady, HandIds, Inv, TypeOK
<1>8. /\ \A s \in in : chips[s] > 0
      /\ \A s \in Seats \ in : chips[s] = 0
  BY <1>3 DEF Participants, EligibleForHand
<1> HIDE DEF in, chips, owing, start
<1> DEFINE g == StartPreflop(NewHand(hands + 1, button', in, chips, score), owing)
           m == Machine(g, turn, start)
           asking == [m EXCEPT !.ask = TRUE]
<1>9. /\ Sound(g) /\ g.id = hands + 1 /\ InPlay(g) /\ Contested(g)
      /\ AskedWell(g) \/ (g.toAct = NoSeat /\ StuckIn(g))
  <2>1. score \in [Seats -> Nat] /\ button' \in Seats
    BY <1>3, <1>5, TableAssumption
  <2>2. PICK a, b \in in : a # b
    BY <1>4
  <2>3. ProperBlinds
    BY DEF Inv, Sound, Accounted
  <2>4. Sound(g) /\ g.id = hands + 1
    BY <1>1, <1>3, <1>5, <2>1, <2>2, <2>3, StartSound
  <2>5. /\ InPlay(g) /\ Contested(g)
        /\ AskedWell(g) \/ (g.toAct = NoSeat /\ StuckIn(g))
    BY <1>1, <1>3, <1>5, <1>8, <2>1, <2>2, <2>3, StartInPlay
  <2>6. QED
    BY <2>4, <2>5
<1> HIDE DEF g
<1>10. Fit(m) /\ m.hand = g /\ m.turn = NoTurn /\ m.due = start
  BY <1>6, <1>7, <1>9, MachineFit DEF Inv, TypeOK, Machine
<1> HIDE DEF m
<1>11. /\ Fit(asking) /\ asking.hand = g /\ asking.turn = NoTurn /\ asking.due = start
       /\ asking.ask = TRUE
  BY <1>10, Replace DEF Onward, Fit, Machines
<1> HIDE DEF asking
<1>12. Asking(asking, 6) /\ asking.hand.id # 0
  BY <1>1, <1>6, <1>9, <1>11, ArmedAtMostSix DEF Asking
<1>13. AtRest(Chain(asking))
  BY <1>11, <1>12, ChainRests
<1>14. Become(Chain(asking))
  BY <1>2 DEF asking, m, g
<1> DEFINE n == Chain(asking)
<1> HIDE DEF n
<1>15. hand' = n.hand /\ turn' = n.turn /\ due' = n.due /\ AtRest(n)
  BY <1>13, <1>14 DEF Become, n
<1>16. OrderlyInv'
  BY <1>1, <1>15 DEF AtRest, OrderlyInv
<1>17. QED
  BY <1>1, <1>16 DEF Pressed, SameHand

LEMMA AdvanceStreetRests ==
  ASSUME Inv, OrderlyInv, AdvanceStreet
  PROVE  OrderlyInv' /\ hand'.stage # hand.stage /\ Closed(hand)
<1> DEFINE c == AdvanceCmd(hand.id)
           d == Consume(due, c)
           m == Machine(hand, turn, d)
<1>1. due[AdvanceCmd(hand.id)] > 0 /\ AdvanceCmd(hand.id) \in Commands \ {StartCmd}
  BY OwnCommands DEF AdvanceStreet, AdvanceReady, Inv, TypeOK
<1>2. hand.id # 0 /\ Pausing(hand, turn, due)
  BY <1>1, UnderWay, CommandsDiffer
<1>3. d \in [Commands -> Nat] /\ Expecting(d, {})
  BY <1>1, <1>2, DueFacts, ExpectingLess DEF Pausing, Inv, TypeOK
<1> HIDE DEF d
<1>4. Fit(m) /\ m.hand = hand /\ m.turn = NoTurn /\ m.due = d /\ m.ask = FALSE
  BY <1>2, <1>3, MachineFit DEF Inv, TypeOK, Machine, Pausing
<1>5. Become(NextStreet(m))
  BY DEF AdvanceStreet, d
<1> HIDE DEF m
<1> DEFINE n == NextStreet(m)
<1>6. AtRest(n) /\ n.hand.id = hand.id /\ n.hand.stage # hand.stage
  BY <1>2, <1>3, <1>4, NextStreetRests DEF Pausing
<1>7. Fit(n)
  BY <1>4, NextStreetFit DEF Onward
<1>8. Become(n)
  BY <1>5
<1> HIDE DEF n
<1>9. OrderlyInv' /\ hand' = n.hand
  BY <1>2, <1>6, <1>7, <1>8, BecomeRests DEF Become
<1>10. QED
  BY <1>2, <1>6, <1>9 DEF Pausing

LEMMA EndHandRests ==
  ASSUME Inv, OrderlyInv, EndHand
  PROVE  OrderlyInv' /\ Pressed
<1> DEFINE d == Consume(due, EndCmd(hand.id))
<1>1. due[EndCmd(hand.id)] > 0 /\ EndCmd(hand.id) \in Commands \ {StartCmd}
  BY OwnCommands DEF EndHand, EndReady, Inv, TypeOK
<1>2. hand.id # 0 /\ Ending(hand, turn, due)
  BY <1>1, UnderWay, CommandsDiffer
<1>3. d \in [Commands -> Nat] /\ Expecting(d, {})
  BY <1>1, <1>2, DueFacts, ExpectingLess DEF Ending, Inv, TypeOK
<1>4. due' = d \/ due' = Schedule(d, StartCmd)
  BY Zenon DEF EndHand
<1> HIDE DEF d
<1>5. Expecting(due', {})
  BY <1>3, <1>4, StartAside
<1>6. hand' = NoHand /\ turn' = NoTurn
  BY DEF EndHand
<1>7. QED
  BY <1>2, <1>5, <1>6, NoHandSound DEF OrderlyInv, Pressed, SameHand

\* Whoever acts in order does so in an open turn, and no command is under way.
LEMMA InTurn ==
  ASSUME Orderly, Inv, OrderlyInv, HandOn, NEW s, s = hand.toAct,
         InOrder(s), s \in hand.dealt \ (hand.folded \cup hand.allIn)
  PROVE  Open(hand, turn, due) /\ Expecting(due, {})
<1>1. hand.id # 0 /\ turn.hand = hand.id /\ turn.seat = s /\ ~TimeoutsQueued
  BY DEF HandOn, InOrder, Orderly, TurnOpen
<1>2. s \in Seats /\ s \in SeatOrNone /\ s # NoSeat
  BY SeatsFacts DEF Inv, Sound, Accounted, Hands, SeatOrNone
<1>3. NoTurn.hand = 0
  BY DEF NoTurn
<1>4. Open(hand, turn, due)
  BY <1>1, <1>2, <1>3, NoHandSound DEF OrderlyInv, Rested, Pausing, Ending, Halted
<1>5. ~turn.live => due[TimeoutCmd(hand.id, s)] > 0
  <2>1. TimeoutCmd(hand.id, s) \in Commands \ {StartCmd}
    BY <1>2, OwnCommands DEF Inv, TypeOK
  <2>2. QED
    BY <1>4, <2>1 DEF Open, Expecting
<1>6. turn.live
  BY <1>1, <1>2, <1>5 DEF TimeoutsQueued
<1>7. QED
  BY <1>4, <1>6 DEF Open

LEMMA ActionRests ==
  ASSUME Orderly, Inv, OrderlyInv, NEW u \in Users, NEW intent \in Intents,
         NEW used \in BankUses, Action(u, intent, used)
  PROVE  OrderlyInv' /\ Pressed
<1>1. PICK s \in Seats :
        /\ s = hand.toAct /\ InOrder(s)
        /\ IF Accepts(hand, s, intent)
           THEN Become(Chain(Act(Machine(hand, turn, due), s, intent)))
           ELSE UNCHANGED <<hand, turn, due>>
  BY DEF Action
<1>2. HandOn /\ hand.id # 0
  BY DEF Action, HandOn
<1>3. intent \in [kind : ActionKinds, amount : Int]
  BY TableAssumption
<1>4. CASE Accepts(hand, s, intent)
  <2>1. Open(hand, turn, due) /\ Expecting(due, {})
    BY <1>1, <1>2, <1>4, InTurn DEF Accepts, MayAct
  <2> DEFINE m == Machine(hand, turn, due)
  <2>2. Fit(m) /\ m.hand = hand /\ m.due = due
    BY MachineFit DEF Inv, TypeOK, Machine
  <2>3. Become(Chain(Act(m, s, intent)))
    BY <1>1, <1>4
  <2> HIDE DEF m
  <2>4. SameBets(hand, m.hand) /\ InPlay(hand) /\ Contested(hand)
    BY <2>1, <2>2 DEF SameBets, Open
  <2>5. Answerable(m.hand, s)
    BY <1>1, <2>1, <2>2 DEF Answerable, Open, AskedWell, CanAct, Blocked
  <2>6. Expecting(m.due, {}) /\ Accepts(m.hand, s, intent)
    BY <1>4, <2>1, <2>2
  <2>7. QED
    BY <1>2, <1>3, <2>2, <2>3, <2>4, <2>5, <2>6, ActStepRests
<1>5. CASE ~Accepts(hand, s, intent)
  BY <1>1, <1>5, Elsewhere
<1>6. QED
  BY <1>4, <1>5

\* A pre-action armed by somebody else than the seat to act.
LEMMA ArmedAside ==
  ASSUME NEW h, Accounted(h), NEW s \in Seats, s # h.toAct, NEW p, NEW t, NEW d, Rested(h, t, d)
  PROVE  Rested(SetPending(h, s, p), t, d)
<1> DEFINE g == SetPending(h, s, p)
<1>1. SameBets(h, g) /\ g.toAct = h.toAct
  BY TurnMethods
<1>2. g.pending[h.toAct] = h.pending[h.toAct]
  BY DEF SetPending, Accounted, Hands
<1> HIDE DEF g
<1>3. /\ InPlay(h) => InPlay(g)
      /\ Contested(h) => Contested(g)
      /\ NotFolded(g) = NotFolded(h) /\ CanAct(g) = CanAct(h)
      /\ \A o : ToCall(g, o) = ToCall(h, o)
      /\ RoundClosed(h) => RoundClosed(g)
      /\ BettingPossible(g) <=> BettingPossible(h)
      /\ Pot(g) = Pot(h)
  BY <1>1, SameBetsFacts
<1>4. AskedWell(h) => AskedWell(g)
  BY <1>1, <1>2, <1>3 DEF AskedWell, Blocked, SameBets
<1>5. CASE Open(h, t, d)
  BY <1>1, <1>2, <1>3, <1>4, <1>5 DEF Rested, Open, SameBets, g
<1>6. CASE Pausing(h, t, d)
  <2>1. Closed(g)
    BY <1>1, <1>3, <1>6 DEF Pausing, Closed, SameBets
  <2>2. QED
    BY <1>1, <1>3, <1>6, <2>1 DEF Rested, Pausing, SameBets, g
<1>7. CASE Ending(h, t, d)
  BY <1>1, <1>7, SamePaid DEF Rested, Ending, SameBets, g
<1>8. CASE Halted(h, t, d)
  <2>1. StuckIn(g)
    BY <1>1, <1>3, <1>8 DEF Halted, StuckIn, SameBets
  <2>2. QED
    BY <1>1, <1>2, <1>3, <1>8, <2>1 DEF Rested, Halted, SameBets, g
<1>9. QED
  BY <1>5, <1>6, <1>7, <1>8 DEF Rested

LEMMA PreActionRests ==
  ASSUME Orderly, Inv, OrderlyInv, NEW u \in Users, NEW p \in PreActions, PreAction(u, p)
  PROVE  OrderlyInv' /\ Pressed
<1>1. PICK s \in Seats :
        /\ CanArm(hand, s, p)
        /\ s = hand.toAct => InOrder(s)
        /\ LET m == Machine(SetPending(hand, s, p), turn, due)
           IN  Become(IF s # hand.toAct THEN m
                      ELSE IF Fires(m) THEN Chain(Act(m, s, Resolved(m)))
                      ELSE DropStale(m))
  BY DEF PreAction
<1>2. HandOn /\ hand.id # 0 /\ Accounted(hand)
  BY DEF PreAction, HandOn, Inv, Sound
<1> DEFINE armed == SetPending(hand, s, p)
           m == Machine(armed, turn, due)
<1>3. /\ Kept(hand, armed) /\ SameBets(hand, armed) /\ armed.toAct = hand.toAct
  <2>1. p \in Pendings
    BY TableAssumption
  <2>2. QED
    BY <1>2, <2>1, PendingSound, TurnMethods DEF Inv
<1>4. s # hand.toAct /\ Rested(hand, turn, due) => Rested(armed, turn, due)
  BY <1>2, ArmedAside
<1> HIDE DEF armed
<1>5. Fit(m) /\ m.hand = armed /\ m.turn = turn /\ m.due = due /\ m.ask = FALSE
  BY <1>3, MachineFit DEF Inv, TypeOK, Kept, Machine
<1>6. Become(IF s # hand.toAct THEN m
             ELSE IF Fires(m) THEN Chain(Act(m, s, Resolved(m)))
             ELSE DropStale(m))
  BY <1>1 DEF m, armed
<1> HIDE DEF m
<1>7. Raises(hand, armed) /\ armed.stage = hand.stage
  BY <1>2, <1>3, RaisesReflexive DEF SameBets
<1>8. CASE s # hand.toAct
  <2>1. Rested(hand, turn, due)
    BY <1>2, NoHandSound DEF OrderlyInv
  <2>2. AtRest(m) /\ m.hand.id = hand.id
    BY <1>3, <1>4, <1>5, <1>8, <2>1 DEF AtRest, Kept
  <2>3. Become(m)
    BY <1>6, <1>8
  <2>4. hand' = armed
    BY <1>5, <2>3 DEF Become
  <2>5. QED
    BY <1>2, <1>5, <1>7, <2>2, <2>3, <2>4, BecomeRests DEF Pressed
<1>9. ASSUME s = hand.toAct
      PROVE  /\ Open(hand, turn, due) /\ Expecting(due, {})
             /\ MayAct(armed, s) /\ Answerable(armed, s) /\ InPlay(hand) /\ Contested(hand)
  <2>1. s \in hand.dealt \ (hand.folded \cup hand.allIn)
    BY <1>1 DEF CanArm
  <2>2. Open(hand, turn, due) /\ Expecting(due, {})
    BY <1>1, <1>2, <1>9, <2>1, InTurn
  <2>3. MayAct(armed, s)
    BY <1>3, <1>9, <2>1 DEF MayAct, SameBets
  <2>4. Answerable(hand, s)
    BY <1>9, <2>2 DEF Answerable, Open, AskedWell, CanAct, Blocked
  <2>5. Answerable(armed, s)
    BY <1>3, <2>4, SameBetsFacts DEF Answerable, SameBets
  <2>6. QED
    BY <2>2, <2>3, <2>5 DEF Open
<1>10. CASE s = hand.toAct /\ Fires(m)
  <2>1. Accepts(m.hand, s, Resolved(m))
    BY <1>3, <1>5, <1>10 DEF Fires
  <2>2. Resolved(m) \in [kind : ActionKinds, amount : Int]
    BY <1>3, <1>5, <1>10, <2>1, FitFacts, ResolvedIntent DEF Resolved
  <2>3. Become(Chain(Act(m, s, Resolved(m))))
    BY <1>6, <1>10
  <2>4. /\ SameBets(hand, m.hand) /\ InPlay(hand) /\ Contested(hand)
        /\ Expecting(m.due, {}) /\ Answerable(m.hand, s)
    BY <1>3, <1>5, <1>9, <1>10
  <2>5. QED
    BY <1>2, <1>5, <2>1, <2>2, <2>3, <2>4, ActStepRests
<1>11. CASE s = hand.toAct /\ ~Fires(m)
  <2> DEFINE f == ClearPending(armed, s)
             n == [m EXCEPT !.hand = f]
  <2>1. Sound(armed) /\ Accounted(armed) /\ armed.id = hand.id
    BY <1>3 DEF Kept, Sound
  <2>2. Resolved(m).kind = "none"
    BY <1>3, <1>5, <1>9, <1>11, <2>1, FitsOrGone DEF Fires, Resolved
  <2>3. SameBets(armed, f) /\ f.toAct = s /\ f.pending[s].kind = "none" /\ Kept(armed, f)
    <3>1. SameBets(armed, f) /\ f.toAct = armed.toAct
      BY <2>1, TurnMethods DEF ClearPending
    <3>2. NoPending \in Pendings /\ NoPending.kind = "none"
      BY DEF NoPending, Pendings, PendingKinds
    <3>3. f.pending[s] = NoPending
      BY <2>1 DEF ClearPending, SetPending, Accounted, Hands
    <3>4. Kept(armed, f)
      BY <2>1, <3>2, PendingSound
    <3>5. QED
      BY <1>3, <1>11, <3>1, <3>2, <3>3, <3>4
  <2>4. Become(n)
    <3>1. DropStale(m) = n
      BY <1>3, <1>5, <1>11, <2>2 DEF DropStale
    <3>2. QED
      BY <1>6, <1>11, <3>1
  <2> HIDE DEF f
  <2>5. /\ n.hand = f /\ n.turn = turn /\ n.due = due /\ n.ask = FALSE /\ Fit(n)
    <3>1. Kept(m.hand, f)
      BY <1>5, <2>3 DEF Kept
    <3>2. Fit(n)
      BY <1>5, <3>1, Replace DEF Onward
    <3>3. QED
      BY <1>5, <3>2 DEF Fit, Machines
  <2> HIDE DEF n
  <2>6. /\ SameBets(hand, f) /\ f.toAct = hand.toAct
    BY <1>3, <1>11, <2>3 DEF SameBets
  <2>7. /\ InPlay(f) /\ Contested(f) /\ CanAct(f) = CanAct(hand)
        /\ NotFolded(f) = NotFolded(hand) /\ ToCall(f, s) = ToCall(hand, s)
    BY <1>9, <1>11, <2>6, SameBetsFacts
  <2>8. AskedWell(f)
    <3>1. AskedWell(hand)
      BY <1>9, <1>11 DEF Open
    <3>2. QED
      BY <1>11, <2>3, <2>6, <2>7, <3>1 DEF AskedWell, Blocked, SameBets
  <2>9. Open(f, turn, due)
    BY <1>9, <1>11, <2>3, <2>6, <2>7, <2>8 DEF Open, SameBets
  <2>10. AtRest(n) /\ n.hand.id = hand.id
    BY <2>5, <2>6, <2>9 DEF AtRest, Rested, SameBets
  <2>11. OrderlyInv'
    BY <1>2, <2>4, <2>5, <2>10, BecomeRests
  <2>12. Raises(hand, f) /\ f.stage = hand.stage
    BY <1>2, <2>6, RaisesReflexive DEF SameBets
  <2>13. hand' = f
    BY <2>4, <2>5 DEF Become
  <2>14. QED
    BY <2>11, <2>12, <2>13 DEF Pressed
<1>12. QED
  BY <1>8, <1>10, <1>11

LEMMA TimerFiresRests ==
  ASSUME Inv, OrderlyInv, TurnTimerFires
  PROVE  OrderlyInv' /\ Pressed
<1>1. /\ turn.live = TRUE /\ hand' = hand
      /\ turn' = [turn EXCEPT !.live = FALSE] /\ turn \in Turns
      /\ due' = Schedule(due, TimeoutCmd(turn.hand, turn.seat))
  BY DEF TurnTimerFires, Inv, TypeOK, Turns
<1>2. NoTurn.live = FALSE
  BY DEF NoTurn
<1>3. hand.id # 0 /\ Open(hand, turn, due)
  BY <1>1, <1>2 DEF OrderlyInv, Rested, Pausing, Ending, Halted
<1>4. Expecting(due', {TimeoutCmd(hand.id, hand.toAct)})
  <2>1. TimeoutCmd(hand.id, hand.toAct) \in Commands \ {StartCmd}
    BY OwnCommands DEF Inv, TypeOK, Hands
  <2>2. QED
    BY <1>1, <1>3, <2>1, ExpectingMore DEF Open, Inv, TypeOK
<1>5. turn'.hand = turn.hand /\ turn'.seat = turn.seat /\ turn'.live = FALSE
  BY <1>1 DEF Turns
<1>6. Open(hand', turn', due')
  BY <1>1, <1>3, <1>4, <1>5 DEF Open
<1>7. Raises(hand, hand')
  BY <1>1, RaisesReflexive DEF Inv, Sound
<1>8. QED
  BY <1>1, <1>3, <1>6, <1>7 DEF OrderlyInv, Rested, Pressed

LEMMA TimeoutRests ==
  ASSUME Inv, OrderlyInv, TurnTimeout
  PROVE  OrderlyInv' /\ Pressed
<1> DEFINE s == hand.toAct
           auto == AutoIntent(hand, s)
           d == Consume(due, TimeoutCmd(hand.id, s))
           m == Machine(hand, turn, d)
<1>1. /\ due[TimeoutCmd(hand.id, s)] > 0
      /\ TimeoutCmd(hand.id, s) \in Commands \ {StartCmd}
      /\ s \in hand.dealt
  BY OwnCommands DEF TurnTimeout, TimeoutReady, Inv, TypeOK, Hands
<1>2. hand.id # 0 /\ Open(hand, turn, due) /\ ~turn.live
  BY <1>1, UnderWay, CommandsDiffer
<1>3. d \in [Commands -> Nat] /\ Expecting(d, {})
  BY <1>1, <1>2, DueFacts, ExpectingLess DEF Open, Inv, TypeOK
<1> HIDE DEF d
<1>4. Fit(m) /\ m.hand = hand /\ m.turn = turn /\ m.due = d /\ m.ask = FALSE
  BY <1>3, MachineFit DEF Inv, TypeOK, Machine
<1>5. Become(IF Accepts(hand, s, auto) THEN Chain(Act(m, s, auto)) ELSE m)
  BY DEF TurnTimeout, d
<1>6. auto \in [kind : ActionKinds, amount : Int]
  BY DEF AutoIntent, ActionKinds
<1>7. ToCall(hand, s) > 0 => auto.kind = "fold"
  BY DEF AutoIntent
<1>8. ~(ToCall(hand, s) > 0) => auto.kind = "check"
  BY DEF AutoIntent
<1>9. ToCall(hand, s) \in Int
  BY <1>1 DEF ToCall, Inv, Sound, Accounted, Hands
<1> HIDE DEF m, auto
<1>10. MayAct(hand, s) => Accepts(hand, s, auto)
  BY <1>7, <1>8, <1>9 DEF Accepts
<1>11. CASE Accepts(hand, s, auto)
  <2>1. Answerable(hand, s) /\ SameBets(hand, hand) /\ InPlay(hand) /\ Contested(hand)
    BY <1>2 DEF Answerable, Open, AskedWell, CanAct, Blocked, SameBets
  <2>2. Become(Chain(Act(m, s, auto)))
    BY <1>5, <1>11
  <2>3. QED
    BY <1>2, <1>3, <1>4, <1>6, <1>11, <2>1, <2>2, ActStepRests
<1>12. CASE ~Accepts(hand, s, auto)
  <2>1. s \notin CanAct(hand)
    BY <1>10, <1>12 DEF MayAct, CanAct
  <2>2. Blocked(hand)
    BY <1>2, <2>1 DEF Open, AskedWell
  <2>3. s \in hand.allIn
    BY <1>1, <1>10, <1>12, <2>2 DEF MayAct, Blocked, NotFolded
  <2>4. StuckIn(hand)
    BY <2>2 DEF Blocked, StuckIn
  <2>5. Halted(hand, turn, d)
    BY <1>2, <1>3, <2>3, <2>4 DEF Open, Halted
  <2>6. AtRest(m)
    BY <1>4, <2>5 DEF AtRest, Rested
  <2>7. Become(m)
    BY <1>5, <1>12
  <2>8. OrderlyInv'
    BY <1>2, <1>4, <2>6, <2>7, BecomeRests
  <2>9. hand' = hand
    BY <1>4, <2>7 DEF Become
  <2>10. Raises(hand, hand')
    BY <2>9, RaisesReflexive DEF Inv, Sound
  <2>11. QED
    BY <2>8, <2>9, <2>10 DEF Pressed
<1>13. QED
  BY <1>11, <1>12

LEMMA OrderlyNext ==
  ASSUME Orderly, Inv, OrderlyInv, [Next]_vars
  PROVE  /\ OrderlyInv'
         /\ Pressed \/ (hand'.stage # hand.stage /\ Closed(hand))
<1>1. CASE \E u \in Users : \/ \E chips \in BuyIns : Sit(u, chips)
                            \/ Leave(u) \/ SitOut(u) \/ SitIn(u)
  BY <1>1, ClientsAside
<1>2. CASE StartInVain
  BY <1>2, Elsewhere DEF StartInVain
<1>3. CASE StartHand
  BY <1>3, StartHandRests
<1>4. CASE AdvanceStreet
  BY <1>4, AdvanceStreetRests
<1>5. CASE EndHand
  BY <1>5, EndHandRests
<1>6. CASE StaleCommand \/ StaleTimeout \/ Drop
  BY <1>6, NothingStale
<1>7. CASE \E u \in Users, intent \in Intents, used \in BankUses : Action(u, intent, used)
  BY <1>7, ActionRests
<1>8. CASE \E u \in Users, p \in PreActions : PreAction(u, p)
  BY <1>8, PreActionRests
<1>9. CASE TurnTimerFires
  BY <1>9, TimerFiresRests
<1>10. CASE TurnTimeout
  BY <1>10, TimeoutRests
<1>11. CASE UNCHANGED vars
  BY <1>11, Elsewhere DEF vars
<1>12. QED
  BY <1>1, <1>2, <1>3, <1>4, <1>5, <1>6, <1>7, <1>8, <1>9, <1>10, <1>11 DEF Next

LEMMA OrderlyInit == Init => OrderlyInv
<1> SUFFICES ASSUME Init PROVE OrderlyInv
  OBVIOUS
<1>1. \A c \in Commands : due[c] = 0
  BY DEF Init
<1>2. Expecting(due, {})
  BY <1>1 DEF Expecting
<1>3. QED
  BY <1>2 DEF Init, OrderlyInv

\* In orderly play a table either has no hand, or its hand waits in one of four ways.
LEMMA StaysOrderly == ASSUME Orderly, ProperBlinds PROVE Spec => []OrderlyInv
<1>1. Init => OrderlyInv
  BY OrderlyInit
<1>2. Inv /\ OrderlyInv /\ [Next]_vars => OrderlyInv'
  BY OrderlyNext
<1>3. QED
  BY <1>1, <1>2, Invariance, PTL DEF Spec
---------------------------------------------------------------------------
\* In orderly play no hand is paid twice, no chip of its pot is left over, and the end of
\* a hand is under way only when it has been paid (table.go:793-835 and hand.go:576-655).
THEOREM HandPaidOnce == ASSUME Orderly, ProperBlinds PROVE Spec => []PaidOnce
<1>1. Inv /\ OrderlyInv => PaidOnce
  <2> SUFFICES ASSUME Inv, OrderlyInv PROVE PaidOnce
    OBVIOUS
  <2>1. EndCmd(hand.id) \in Commands \ {StartCmd}
    BY OwnCommands DEF Inv, TypeOK
  <2>2. \A C : Expecting(due, C) /\ due[EndCmd(hand.id)] > 0 => EndCmd(hand.id) \in C
    BY <2>1 DEF Expecting
  <2>3. due[EndCmd(hand.id)] > 0 => Ending(hand, turn, due)
    BY <2>1, UnderWay, CommandsDiffer
  <2>4. CASE InPlay(hand) \/ hand = NoHand
    <3>1. hand.won = Nothing /\ hand.finals = 0
      BY <2>4 DEF InPlay, NoHand, NewHand
    <3>2. QED
      BY <2>3, <3>1, NothingIsNothing DEF PaidOnce, Ending, Paid
  <2>5. CASE Paid(hand)
    BY <2>5 DEF PaidOnce, Paid
  <2>6. QED
    BY <2>4, <2>5 DEF OrderlyInv, Rested, Open, Pausing, Ending, Halted
<1>2. QED
  BY <1>1, StaysOrderly, Invariance, PTL

\* In orderly play exactly one thing makes a hand go on, and none only when a blind took a
\* seat's last chip: for any number of seats, if the small blind is the smaller one.
THEOREM HandHasOneDriver == ASSUME Orderly, ProperBlinds, Strict PROVE Spec => []OneDriver
<1>1. Inv /\ OrderlyInv => OneDriver
  <2> SUFFICES ASSUME Inv, OrderlyInv, HandOn
               PROVE  Drivers = 1 \/ (Drivers = 0 /\ StuckByBlinds)
    BY DEF OneDriver
  <2> DEFINE adv == AdvanceCmd(hand.id)
             end == EndCmd(hand.id)
             out == TimeoutCmd(hand.id, hand.toAct)
  <2>1. /\ adv \in Commands \ {StartCmd} /\ end \in Commands \ {StartCmd}
        /\ out \in Commands \ {StartCmd}
    BY OwnCommands DEF Inv, TypeOK, Hands
  <2>2. adv # end /\ adv # out /\ end # out
    BY CommandsDiffer
  <2>3. Drivers = TurnsUnderWay + TimeoutsUnderWay + due[adv] + due[end]
    BY DEF Drivers
  <2>4. TimeoutsUnderWay = IF hand.toAct = NoSeat THEN 0 ELSE due[out]
    BY DEF TimeoutsUnderWay
  <2>5. /\ turn.live = TRUE /\ turn.hand = hand.id /\ turn.seat = hand.toAct => TurnsUnderWay = 1
        /\ turn.live = FALSE => TurnsUnderWay = 0
    BY DEF TurnsUnderWay, TurnOpen
  <2>6. turn.live \in BOOLEAN /\ NoTurn.live = FALSE
    BY DEF Inv, TypeOK, Turns, NoTurn
  <2> HIDE DEF adv, end, out
  <2>7. CASE Open(hand, turn, due)
    <3>1. hand.toAct # NoSeat
      <4>1. hand.toAct \in Seats
        BY <2>7 DEF Open, AskedWell, Blocked, CanAct, NotFolded, Inv, Sound, Accounted, Hands
      <4>2. QED
        BY <4>1, SeatsFacts
    <3>2. CASE turn.live = TRUE
      <4>1. due[adv] = 0 /\ due[end] = 0 /\ due[out] = 0
        BY <2>1, <2>7, <3>2 DEF Open, Expecting
      <4>2. TurnsUnderWay = 1
        BY <2>5, <2>7, <3>2 DEF Open
      <4>3. QED
        BY <2>3, <2>4, <4>1, <4>2
    <3>3. CASE turn.live = FALSE
      <4>1. due[adv] = 0 /\ due[end] = 0 /\ due[out] = 1
        BY <2>1, <2>2, <2>7, <3>3 DEF Open, Expecting, out
      <4>2. QED
        BY <2>3, <2>4, <2>5, <3>1, <3>3, <4>1
    <3>4. QED
      BY <2>6, <3>2, <3>3
  <2>8. CASE Pausing(hand, turn, due)
    <3>1. due[adv] = 1 /\ due[end] = 0 /\ due[out] = 0
      BY <2>1, <2>2, <2>8 DEF Pausing, Expecting, adv
    <3>2. turn.live = FALSE
      BY <2>6, <2>8 DEF Pausing
    <3>3. QED
      BY <2>3, <2>4, <2>5, <3>1, <3>2
  <2>9. CASE Ending(hand, turn, due)
    <3>1. due[adv] = 0 /\ due[end] = 1 /\ due[out] = 0
      BY <2>1, <2>2, <2>9 DEF Ending, Expecting, end
    <3>2. turn.live = FALSE
      BY <2>6, <2>9 DEF Ending
    <3>3. QED
      BY <2>3, <2>4, <2>5, <3>1, <3>2
  <2>10. CASE Halted(hand, turn, due)
    <3>1. due[adv] = 0 /\ due[end] = 0 /\ due[out] = 0
      BY <2>1, <2>10 DEF Halted, Expecting
    <3>2. turn.live = FALSE
      BY <2>6, <2>10 DEF Halted
    <3>3. StuckByBlinds
      BY <2>10 DEF Halted, StuckIn, StuckByBlinds
    <3>4. QED
      BY <2>3, <2>4, <2>5, <3>1, <3>2, <3>3
  <2>11. hand.id # 0
    BY DEF HandOn
  <2>12. QED
    BY <2>7, <2>8, <2>9, <2>10, <2>11, NoHandSound DEF OrderlyInv, Rested
<1>2. QED
  BY <1>1, StaysOrderly, Invariance, PTL

\* In orderly play a seat whose turn is open has no pre-action waiting behind it, however
\* the pre-actions of others fired on the way to it (table.go:928-943).
THEOREM NothingLingers == ASSUME Orderly, ProperBlinds PROVE Spec => []NoLingering
<1>1. Inv /\ OrderlyInv => NoLingering
  <2> SUFFICES ASSUME Inv, OrderlyInv, hand.id # 0, hand.toAct # NoSeat,
                      turn.hand = hand.id, turn.seat = hand.toAct
               PROVE  hand.pending[hand.toAct].kind = "none"
    BY DEF NoLingering, HandOn, TurnOpen
  <2>1. turn # NoTurn
    BY DEF NoTurn
  <2>2. Rested(hand, turn, due)
    BY NoHandSound DEF OrderlyInv
  <2>3. QED
    BY <2>1, <2>2 DEF Rested, Open, Pausing, Ending, Halted
<1>2. QED
  BY <1>1, StaysOrderly, Invariance, PTL

\* In orderly play every street follows a closed round, pre-actions, all-ins and timeouts
\* included (table.go:733-786 and hand.go:503-516).
THEOREM StreetsFollowClosedRounds == ASSUME Orderly, ProperBlinds PROVE Spec => StreetAfterClosed
<1>1. Inv /\ OrderlyInv /\ [Next]_vars =>
        [ SameHand /\ hand'.stage # hand.stage =>
            \A s \in CanAct(hand) : /\ ToCall(hand, s) <= 0
                                    /\ BettingPossible(hand) => s \in hand.acted ]_vars
  <2> SUFFICES ASSUME Inv, OrderlyInv, [Next]_vars, SameHand, hand'.stage # hand.stage
               PROVE  \A s \in CanAct(hand) : /\ ToCall(hand, s) <= 0
                                              /\ BettingPossible(hand) => s \in hand.acted
    OBVIOUS
  <2>1. Closed(hand)
    BY OrderlyNext DEF Pressed
  <2>2. QED
    BY <2>1 DEF Closed
<1>2. QED
  BY <1>1, StaysOrderly, Invariance, PTL DEF Spec, StreetAfterClosed

\* In orderly play the level rises by the last full raise at least, or by somebody going
\* all-in, also where one command makes several players act (hand.go:398-477).
THEOREM RaisesAreFull == ASSUME Orderly, ProperBlinds PROVE Spec => RaiseSize
<1>1. Inv /\ OrderlyInv /\ [Next]_vars =>
        [ SameHand /\ hand'.stage = hand.stage /\ hand'.currentBet # hand.currentBet =>
            \/ hand'.currentBet - hand.currentBet >= hand.minRaise
            \/ /\ hand'.currentBet > hand.currentBet
               /\ hand'.allIn # hand.allIn ]_vars
  <2> SUFFICES ASSUME Inv, OrderlyInv, [Next]_vars, SameHand, hand'.stage = hand.stage,
                      hand'.currentBet # hand.currentBet
               PROVE  \/ hand'.currentBet - hand.currentBet >= hand.minRaise
                      \/ /\ hand'.currentBet > hand.currentBet
                         /\ hand'.allIn # hand.allIn
    OBVIOUS
  <2>1. Raises(hand, hand')
    BY OrderlyNext DEF Pressed
  <2>2. hand.currentBet \in Nat /\ hand'.currentBet \in Nat
    <3>1. Inv'
      BY NextInv
    <3>2. QED
      BY <3>1 DEF Inv, TypeOK, Hands
  <2>3. QED
    BY <2>1, <2>2 DEF Raises
<1>2. QED
  BY <1>1, StaysOrderly, Invariance, PTL DEF Spec, RaiseSize
---------------------------------------------------------------------------
(* The refinement of TableMoney: every step of orderly play is, through the     *)
(* mapping of TableProperties, a step of play for money or none.                *)

(* The chairs. *)

\* No chair changes its user or its stack.
SameChairs ==
  \A s \in Seats : seats'[s].user = seats[s].user /\ seats'[s].stack = seats[s].stack

\* Only sitting down, leaving and the end of a hand change what a chair holds.
LEMMA ChairsKept ==
  ASSUME Inv, [Next]_vars
  PROVE  \/ SameChairs
         \/ \E u \in Users : Leave(u) \/ \E chips \in BuyIns : Sit(u, chips)
         \/ EndHand
<1>1. \A s \in Seats : seats[s] \in Players
  BY DEF Inv, TypeOK
<1>2. ASSUME NEW s \in Seats, NEW p \in Players, seats' = [seats EXCEPT ![s] = p],
             p.user = seats[s].user, p.stack = seats[s].stack
      PROVE  SameChairs
  BY <1>2 DEF SameChairs, Inv, TypeOK
<1>3. CASE \E u \in Users : SitOut(u)
  <2> DEFINE p(s) == [seats[s] EXCEPT !.out = TRUE]
  <2>1. PICK s \in Seats : seats' = [seats EXCEPT ![s] = p(s)]
    BY <1>3 DEF SitOut
  <2>2. p(s) \in Players /\ p(s).user = seats[s].user /\ p(s).stack = seats[s].stack
    BY <1>1 DEF Players
  <2> HIDE DEF p
  <2>3. QED
    BY <1>2, <2>1, <2>2
<1>4. CASE \E u \in Users : SitIn(u)
  <2> DEFINE p(s) == [seats[s] EXCEPT !.out = FALSE, !.missed = 0, !.owes = TRUE, !.timeouts = 0]
  <2>1. PICK s \in Seats : seats' = [seats EXCEPT ![s] = p(s)]
    BY <1>4 DEF SitIn
  <2>2. p(s) \in Players /\ p(s).user = seats[s].user /\ p(s).stack = seats[s].stack
    BY <1>1 DEF Players
  <2> HIDE DEF p
  <2>3. QED
    BY <1>2, <2>1, <2>2
<1>5. CASE StartHand
  <2> DEFINE p(s) == [seats[s] EXCEPT !.owes = FALSE]
  <2>1. \A s \in Seats : seats'[s] = p(s) \/ seats'[s] = seats[s]
    BY <1>5 DEF StartHand
  <2>2. \A s \in Seats : p(s).user = seats[s].user /\ p(s).stack = seats[s].stack
    BY <1>1 DEF Players
  <2> HIDE DEF p
  <2>3. QED
    BY <2>1, <2>2 DEF SameChairs
<1>6. CASE \E u \in Users, intent \in Intents, used \in BankUses : Action(u, intent, used)
  <2> DEFINE p(s, used) ==
        [ConsumeBank(seats[s], IF TurnOpen(s) THEN used ELSE 0) EXCEPT !.timeouts = 0]
  <2>1. PICK s \in Seats, used \in BankUses : seats' = [seats EXCEPT ![s] = p(s, used)]
    BY <1>6 DEF Action
  <2>2. /\ p(s, used) \in Players
        /\ p(s, used).user = seats[s].user /\ p(s, used).stack = seats[s].stack
    <3> DEFINE time == IF TurnOpen(s) THEN used ELSE 0
               q == ConsumeBank(seats[s], time)
               bank == IF seats[s].bank <= time THEN 0 ELSE seats[s].bank - time
    <3>1. time \in Nat /\ seats[s].bank \in Nat
      BY <1>1, TableAssumption DEF Players
    <3> HIDE DEF time
    <3>2. bank \in Nat
      BY <3>1
    <3>3. q = [seats[s] EXCEPT !.bank = bank]
      BY DEF ConsumeBank
    <3> HIDE DEF bank, q
    <3>4. q \in Players /\ q.user = seats[s].user /\ q.stack = seats[s].stack
      BY <1>1, <3>2, <3>3 DEF Players
    <3>5. /\ [q EXCEPT !.timeouts = 0] \in Players
          /\ [q EXCEPT !.timeouts = 0].user = q.user
          /\ [q EXCEPT !.timeouts = 0].stack = q.stack
      BY <3>4 DEF Players
    <3>6. p(s, used) = [q EXCEPT !.timeouts = 0]
      BY DEF q, time
    <3>7. QED
      BY <3>4, <3>5, <3>6
  <2> HIDE DEF p
  <2>3. QED
    BY <1>2, <2>1, <2>2
<1>7. CASE TurnTimeout
  <2>1. seats' = seats \/ \E s \in Seats : seats' = [seats EXCEPT ![s] = TimedOut(seats[s])]
    BY <1>7 DEF TurnTimeout, Taken
  <2>2. \A s \in Seats : /\ TimedOut(seats[s]) \in Players
                         /\ TimedOut(seats[s]).user = seats[s].user
                         /\ TimedOut(seats[s]).stack = seats[s].stack
    <3> TAKE s \in Seats
    <3>1. TimedOut(seats[s]) \in Players
      BY <1>1, TimedOutType
    <3>2. QED
      BY <1>1, <3>1 DEF TimedOut, Players
  <2>3. CASE seats' = seats
    BY <2>3 DEF SameChairs
  <2>4. QED
    BY <1>2, <2>1, <2>2, <2>3
<1>8. CASE UNCHANGED seats
  BY <1>8 DEF SameChairs
<1>9. QED
  BY <1>3, <1>4, <1>5, <1>6, <1>7, <1>8
  DEF Next, StartInVain, AdvanceStreet, StaleCommand, PreAction, TurnTimerFires,
      StaleTimeout, Drop, vars

\* An empty chair holds no chips.
EmptyChairs == \A s \in Seats : seats[s].user = Nobody => seats[s].stack = 0

LEMMA SitsDown ==
  ASSUME Inv, NEW u \in Users, NEW chips \in BuyIns, Sit(u, chips)
  PROVE  /\ UNCHANGED <<hand, turn>>
         /\ \E s \in Seats : /\ seats[s].user = Nobody
                             /\ seats'[s].user # Nobody /\ seats'[s].stack > 0
                             /\ seats'[s].stack \in Nat
                             /\ \A o \in Seats \ {s} : seats'[o] = seats[o]
<1> DEFINE p(owes) == [NoPlayer EXCEPT !.user = u, !.stack = chips, !.bank = TimeBankInit,
                                       !.owes = owes]
<1>1. PICK s \in Seats : FirstFree(s) /\ seats' = [seats EXCEPT ![s] = p(HandOn \/ button >= 0)]
  BY DEF Sit
<1>2. \A owes : p(owes).user = u /\ p(owes).stack = chips
  BY DEF NoPlayer
<1> HIDE DEF p
<1>3. u # Nobody /\ chips \in Nat /\ chips > 0
  BY TableAssumption
<1>4. QED
  BY <1>1, <1>2, <1>3 DEF Sit, FirstFree, Inv, TypeOK

LEMMA GetsUp ==
  ASSUME Orderly, Inv, OrderlyInv, NEW u \in Users, Leave(u)
  PROVE  /\ ~HandOn /\ UNCHANGED <<hand, turn>>
         /\ \E s \in Seats : /\ seats'[s] = NoPlayer
                             /\ \A o \in Seats \ {s} : seats'[o] = seats[o]
<1>1. ~HandOn
  BY DEF Leave, Orderly
<1>2. NotFolded(hand) = {}
  BY <1>1, NothingOn DEF HandOn, NoHand, NewHand, NotFolded
<1>3. QED
  BY <1>1, <1>2 DEF Leave, Inv, TypeOK

\* What the end of a hand leaves in a chair.
LEMMA CashesUp ==
  ASSUME Inv, EndHand, NEW s \in Seats
  PROVE  /\ seats'[s].stack = 0
              \/ seats'[s].stack = IF s \in hand.dealt THEN hand.stack[s] ELSE seats[s].stack
         /\ seats'[s].user = Nobody => seats'[s].stack = 0
<1> DEFINE p == seats[s]
           chips == IF s \in hand.dealt THEN hand.stack[s] ELSE p.stack
           missed == p.missed + 1
           bank == Lower(p.bank + TimeBankPerHand, TimeBankCap)
           absent == [p EXCEPT !.stack = chips, !.missed = missed]
           present == [p EXCEPT !.stack = chips, !.missed = 0, !.bank = bank]
           q == IF p.out THEN absent ELSE present
<1>1. p \in Players
  BY DEF Inv, TypeOK
<1>2. seats'[s] = AfterHand(s)
  BY DEF EndHand
<1>3. AfterHand(s) = IF p.user = Nobody \/ Evicted(q) THEN NoPlayer ELSE q
  BY DEF AfterHand
<1>4. NoPlayer.stack = 0
  BY DEF NoPlayer
<1> HIDE DEF p, chips, missed, bank
<1>5. q.stack = chips /\ q.user = p.user
  BY <1>1 DEF Players
<1> HIDE DEF q
<1>6. \/ seats'[s] = NoPlayer
      \/ p.user # Nobody /\ seats'[s] = q
  BY <1>2, <1>3
<1>7. seats'[s].stack = 0 \/ (seats'[s].stack = chips /\ seats'[s].user # Nobody)
  BY <1>4, <1>5, <1>6
<1>8. seats'[s] = NoPlayer => seats'[s].stack = 0
  BY <1>4
<1>9. QED
  BY <1>7 DEF chips, p

LEMMA ChairsStayEmpty == ASSUME Orderly, ProperBlinds PROVE Spec => []EmptyChairs
<1>1. Init => EmptyChairs
  BY DEF Init, EmptyChairs, NoPlayer
<1>2. Inv /\ OrderlyInv /\ EmptyChairs /\ [Next]_vars => EmptyChairs'
  <2> SUFFICES ASSUME Inv, OrderlyInv, EmptyChairs, [Next]_vars PROVE EmptyChairs'
    OBVIOUS
  <2>1. CASE SameChairs
    BY <2>1 DEF SameChairs, EmptyChairs
  <2>2. ASSUME NEW u \in Users, NEW chips \in BuyIns, Sit(u, chips) PROVE EmptyChairs'
    BY <2>2, SitsDown DEF EmptyChairs
  <2>3. ASSUME NEW u \in Users, Leave(u) PROVE EmptyChairs'
    BY <2>3, GetsUp DEF EmptyChairs, NoPlayer
  <2>4. CASE EndHand
    BY <2>4, CashesUp DEF EmptyChairs
  <2>5. QED
    BY <2>1, <2>2, <2>3, <2>4, ChairsKept
<1>3. QED
  BY <1>1, <1>2, Invariance, StaysOrderly, PTL DEF Spec
---------------------------------------------------------------------------
(* The steps of the hand. *)

\* A hand that has been paid stays as it is until it is over.
LEMMA EndedStays ==
  ASSUME Orderly, Inv, OrderlyInv, Ending(hand, turn, due), [Next]_vars, hand'.id = hand.id
  PROVE  SameBets(hand, hand')
<1>1. hand.finals = 1 /\ ~Open(hand, turn, due) /\ ~Pausing(hand, turn, due) /\ hand.id # 0
  <2>1. hand.finals = 1
    BY DEF Ending, Paid
  <2>2. InPlay(hand) => hand.finals = 0
    BY DEF InPlay
  <2>3. hand # NoHand
    BY <2>1 DEF NoHand, NewHand
  <2>4. QED
    BY <2>1, <2>2, <2>3 DEF Open, Pausing, OrderlyInv
<1>2. ASSUME UNCHANGED hand PROVE SameBets(hand, hand')
  BY <1>2 DEF SameBets
<1>3. CASE \E u \in Users : Leave(u) \/ \E chips \in BuyIns : Sit(u, chips)
  BY <1>2, <1>3, SitsDown, GetsUp
<1>4. ~AdvanceStreet
  <2>1. AdvanceCmd(hand.id) \in Commands \ {StartCmd}
    BY OwnCommands DEF Inv, TypeOK
  <2>2. QED
    BY <1>1, <2>1, UnderWay, CommandsDiffer DEF AdvanceStreet, AdvanceReady
<1>5. ~TurnTimeout
  <2> SUFFICES ASSUME TurnTimeout PROVE FALSE
    OBVIOUS
  <2>1. hand.toAct \in SeatOrNone /\ due[TimeoutCmd(hand.id, hand.toAct)] > 0
    BY DEF TurnTimeout, TimeoutReady, Inv, Sound, Accounted, Hands
  <2>2. TimeoutCmd(hand.id, hand.toAct) \in Commands \ {StartCmd}
    BY <2>1, OwnCommands DEF Inv, TypeOK
  <2>3. QED
    BY <1>1, <2>1, <2>2, UnderWay, CommandsDiffer
<1>6. ASSUME NEW u \in Users, NEW intent \in Intents, NEW used \in BankUses,
             Action(u, intent, used)
      PROVE  SameBets(hand, hand')
  <2>1. PICK s \in Seats :
          /\ s = hand.toAct /\ InOrder(s)
          /\ Accepts(hand, s, intent) \/ UNCHANGED hand
    BY <1>6 DEF Action
  <2>2. ~Accepts(hand, s, intent)
    BY <1>1, <1>6, <2>1, InTurn DEF Accepts, MayAct, Action
  <2>3. QED
    BY <1>2, <2>1, <2>2
<1>7. ASSUME NEW u \in Users, NEW p \in PreActions, PreAction(u, p) PROVE SameBets(hand, hand')
  <2>1. PICK s \in Seats :
          /\ CanArm(hand, s, p)
          /\ s = hand.toAct => InOrder(s)
          /\ s # hand.toAct => Become(Machine(SetPending(hand, s, p), turn, due))
    BY <1>7 DEF PreAction
  <2>2. s # hand.toAct
    BY <1>1, <1>7, <2>1, InTurn DEF CanArm, PreAction
  <2>3. hand' = SetPending(hand, s, p)
    BY <2>1, <2>2 DEF Become, Machine
  <2>4. QED
    BY <2>3, TurnMethods DEF Inv, Sound
<1>8. ~StartHand
  BY <1>1, Zenon DEF StartHand, StartReady, CanStart, HandOn
<1>9. ~EndHand
  BY <1>1, NoHandSound DEF EndHand
<1>10. QED
  BY <1>2, <1>3, <1>4, <1>5, <1>6, <1>7, <1>8, <1>9
  DEF Next, StartInVain, SitOut, SitIn, StaleCommand, TurnTimerFires, StaleTimeout, Drop, vars

\* One step of a hand that has not been paid: somebody may pay, or drop out, and when it
\* was the last step of the betting the pot goes.
LEMMA HandPlays ==
  ASSUME Orderly, Inv, OrderlyInv, [Next]_vars, Inv', OrderlyInv',
         hand.id # 0, hand'.id = hand.id, hand.finals = 0
  PROVE  /\ hand'.dealt = hand.dealt /\ hand.folded \subseteq hand'.folded
         /\ NotFolded(hand') # {}
         /\ \A s \in Seats :
              /\ hand.stack[s] \in Nat /\ hand.committed[s] \in Nat
              /\ hand'.stack[s] \in Nat /\ hand'.committed[s] \in Nat /\ hand'.won[s] \in Nat
              /\ hand'.committed[s] >= hand.committed[s]
              /\ hand'.committed[s] <= hand.committed[s] + hand.stack[s]
              /\ s \notin NotFolded(hand) => hand'.committed[s] = hand.committed[s]
              /\ hand'.stack[s] + hand'.committed[s]
                   = (hand.stack[s] + hand.committed[s]) + hand'.won[s]
         /\ hand'.finals = 0 => \A s \in Seats : hand'.won[s] = 0
         /\ hand'.finals # 0 => Paid(hand')
<1>1. InPlay(hand)
  BY NoHandSound DEF OrderlyInv, Rested, Open, Pausing, Ending, Halted, Paid
<1>2. Later(hand, hand')
  BY HandStep, NoHandSound DEF Onwards, Begun
<1>3. (InPlay(hand') /\ Contested(hand')) \/ Paid(hand')
  BY NoHandSound DEF OrderlyInv, Rested, Open, Pausing, Ending, Halted
<1>4. hand'.finals = 0 => InPlay(hand')
  BY <1>3 DEF Paid
<1>5. hand'.finals # 0 => Paid(hand')
  BY <1>3 DEF InPlay
<1>6. NotFolded(hand') # {}
  BY <1>3 DEF Contested, Paid
<1>7. \A s \in Seats : hand'.committed[s] <= hand'.stackIn[s]
  BY <1>3, BroughtIn DEF Inv, Paid
<1>8. hand'.finals = 0 => \A s \in Seats : hand'.won[s] = 0
  BY <1>4 DEF InPlay, Nothing
<1>9. \A s \in Seats :
        /\ hand.stack[s] \in Nat /\ hand.committed[s] \in Nat /\ hand.stackIn[s] \in Nat
        /\ hand.stack[s] + hand.committed[s] = hand.stackIn[s] + hand.won[s]
        /\ hand'.stack[s] \in Nat /\ hand'.committed[s] \in Nat /\ hand'.won[s] \in Nat
        /\ hand'.stack[s] + hand'.committed[s] = hand'.stackIn[s] + hand'.won[s]
  BY DEF Inv, Sound, Accounted, Hands
<1>10. \A s \in Seats : hand.won[s] = 0 /\ hand'.stackIn[s] = hand.stackIn[s]
  BY <1>1, <1>2 DEF InPlay, Nothing, Later
<1>11. \A s \in Seats :
         /\ hand'.committed[s] <= hand.committed[s] + hand.stack[s]
         /\ hand'.stack[s] + hand'.committed[s]
              = (hand.stack[s] + hand.committed[s]) + hand'.won[s]
  BY <1>7, <1>9, <1>10
<1>12. \A s \in Seats : /\ hand'.committed[s] >= hand.committed[s]
                        /\ s \notin NotFolded(hand) => hand'.committed[s] = hand.committed[s]
  BY <1>2, <1>9 DEF Later, NotFolded
<1>13. QED
  BY <1>2, <1>5, <1>6, <1>8, <1>9, <1>11, <1>12 DEF Later
---------------------------------------------------------------------------
(* The mapping. *)

Purse == [s \in Seats |-> IF s \in PlayersIn THEN 0 ELSE seats[s].stack]
Front == [s \in Seats |-> IF HandOn THEN hand.stack[s] ELSE 0]
PutInto == [s \in Seats |-> IF HandOn THEN hand.committed[s] ELSE 0]
StillIn == PlayersIn \ hand.folded
Phase == IF ~HandOn THEN "idle" ELSE IF hand.finals = 0 THEN "betting" ELSE "paid"

\* The steps of TableMoney read through the mapping.
LEMMA MoneyWords ==
  /\ Money!Seats = Seats
  /\ \A f : Money!Total(f) = Total(f)
  /\ \A a, b : Money!Lower(a, b) = Lower(a, b)
<1>1. Money!Seats = Seats
  BY DEF Money!Seats, Seats
<1>2. \A f, s : Money!At(f, s) = At(f, s)
  BY <1>1 DEF Money!At, At
<1>3. \A f : Money!Total(f) = Total(f)
  BY <1>2 DEF Money!Total, Total
<1>4. QED
  BY <1>1, <1>3 DEF Money!Lower, Lower

LEMMA IsBuyIn ==
  ASSUME NEW s \in Seats, Purse[s] = 0, Front[s] = 0, PutInto[s] = 0,
         Purse'[s] > 0, Purse' = [Purse EXCEPT ![s] = Purse'[s]],
         UNCHANGED <<Front, PutInto, StillIn, Phase>>
  PROVE  Money!MoneyNext
<1>1. Money!BuyIn
  BY MoneyWords DEF Money!BuyIn, Purse, Front, PutInto, StillIn, Phase
<1>2. QED
  BY <1>1 DEF Money!MoneyNext

LEMMA IsCashOut ==
  ASSUME NEW s \in Seats, Purse' = [Purse EXCEPT ![s] = 0],
         UNCHANGED <<Front, PutInto, StillIn, Phase>>
  PROVE  Money!MoneyNext
<1>1. Money!CashOut
  BY MoneyWords DEF Money!CashOut, Purse, Front, PutInto, StillIn, Phase
<1>2. QED
  BY <1>1 DEF Money!MoneyNext

LEMMA IsDeal ==
  ASSUME Phase = "idle", Phase' = "betting", StillIn' # {},
         \A s \in Seats :
           IF s \in StillIn' THEN /\ Purse[s] > 0 /\ Purse'[s] = 0
                                  /\ Front'[s] + PutInto'[s] = Purse[s]
           ELSE Purse'[s] = Purse[s] /\ Front'[s] = 0 /\ PutInto'[s] = 0
  PROVE  Money!MoneyNext
<1>1. Money!Deal
  BY MoneyWords DEF Money!Deal, Purse, Front, PutInto, StillIn, Phase
<1>2. QED
  BY <1>1 DEF Money!MoneyNext

\* What a step within a hand does, paid out or not.
Played ==
  /\ Phase = "betting"
  /\ StillIn' # {} /\ StillIn' \subseteq StillIn
  /\ \A s \in Seats : /\ PutInto'[s] >= PutInto[s]
                      /\ PutInto'[s] <= PutInto[s] + Front[s]
                      /\ s \notin StillIn => PutInto'[s] = PutInto[s]
  /\ UNCHANGED Purse

LEMMA IsBets ==
  ASSUME Played
  PROVE  Money!Bets
BY MoneyWords DEF Played, Money!Bets, Purse, Front, PutInto, StillIn, Phase

LEMMA IsWager ==
  ASSUME Played, Phase' = "betting",
         \A s \in Seats : (Front'[s] + PutInto'[s]) - (Front[s] + PutInto[s]) = 0
  PROVE  Money!MoneyNext
<1>1. Money!Bets
  BY IsBets
<1>2. Money!Wager
  BY <1>1, MoneyWords DEF Money!Wager, Money!Gain, Front, PutInto, Phase
<1>3. QED
  BY <1>2 DEF Money!MoneyNext

LEMMA IsPayOut ==
  ASSUME Played, Phase' = "paid",
         NEW gain, gain = [s \in Seats |->
                             (Front'[s] + PutInto'[s]) - (Front[s] + PutInto[s])],
         \A s \in Seats : 0 <= gain[s],
         \A s \in StillIn' : gain[s] <= IF \A o \in StillIn' : PutInto'[o] <= PutInto'[s]
                                        THEN Total(PutInto')
                                        ELSE Total([o \in Seats |->
                                                      Lower(PutInto'[o], PutInto'[s])]),
         \A s \in Seats \ StillIn' : gain[s] <= 0,
         Total(gain) = Total(PutInto')
  PROVE  Money!MoneyNext
<1>1. Money!Bets
  BY IsBets
<1>2. \A s \in Seats : Money!Gain(s) = gain[s]
  BY DEF Money!Gain, Front, PutInto
<1>3. [s \in Seats |-> Money!Gain(s)] = gain
  BY <1>2
<1>4. \A s : Money!Matched(s) = IF \A o \in StillIn' : PutInto'[o] <= PutInto'[s]
                                THEN Total(PutInto')
                                ELSE Total([o \in Seats |-> Lower(PutInto'[o], PutInto'[s])])
  BY MoneyWords DEF Money!Matched, StillIn, PutInto
<1>5. Phase' = "paid" /\ Total([s \in Seats |-> Money!Gain(s)]) = Total(PutInto')
  BY <1>3
<1>6. \A s \in Seats : 0 <= Money!Gain(s)
                         /\ Money!Gain(s) <= IF s \in StillIn' THEN Money!Matched(s) ELSE 0
  BY <1>2, <1>4
<1>7. Money!PayOut
  BY <1>1, <1>5, <1>6, MoneyWords DEF Money!PayOut, Front, PutInto, StillIn, Phase
<1>8. QED
  BY <1>7 DEF Money!MoneyNext

LEMMA IsClear ==
  ASSUME Phase = "paid", Phase' = "idle",
         \A s \in Seats : Purse'[s] \in {0, Purse[s] + Front[s]},
         Front' = [s \in Seats |-> 0], PutInto' = [s \in Seats |-> 0], StillIn' = {}
  PROVE  Money!MoneyNext
<1>1. Money!Clear
  BY MoneyWords DEF Money!Clear, Money!None, Purse, Front, PutInto, StillIn, Phase
<1>2. QED
  BY <1>1 DEF Money!MoneyNext

LEMMA IsStutter ==
  ASSUME UNCHANGED <<Purse, Front, PutInto, StillIn, Phase>>
  PROVE  UNCHANGED Money!money
BY DEF Money!money, Purse, Front, PutInto, StillIn, Phase
---------------------------------------------------------------------------
(* Every step of orderly play is a step of TableMoney, or none. *)

LEMMA SitPlays ==
  ASSUME Inv, OrderlyInv, EmptyChairs, NEW u \in Users, NEW chips \in BuyIns, Sit(u, chips)
  PROVE  Money!MoneyNext \/ UNCHANGED Money!money
<1>1. /\ UNCHANGED <<hand, turn>>
      /\ \E s \in Seats : /\ seats[s].user = Nobody
                          /\ seats'[s].user # Nobody /\ seats'[s].stack > 0
                          /\ seats'[s].stack \in Nat
                          /\ \A o \in Seats \ {s} : seats'[o] = seats[o]
  BY SitsDown
<1>2. PICK s \in Seats : /\ seats[s].user = Nobody /\ seats'[s].stack > 0
                         /\ \A o \in Seats \ {s} : seats'[o] = seats[o]
  BY <1>1
<1>3. UNCHANGED <<Front, PutInto, StillIn, Phase>> /\ PlayersIn' = PlayersIn
  BY <1>1 DEF Front, PutInto, StillIn, Phase, PlayersIn, HandOn
<1>4. CASE s \in PlayersIn
  <2>1. Purse' = Purse
    BY <1>2, <1>3, <1>4 DEF Purse
  <2>2. QED
    BY <1>3, <2>1, IsStutter
<1>5. CASE s \notin PlayersIn
  <2>1. Purse[s] = 0 /\ Purse'[s] > 0
    BY <1>2, <1>3, <1>5 DEF Purse, EmptyChairs
  <2>2. Purse' = [Purse EXCEPT ![s] = Purse'[s]]
    <3>1. \A o \in Seats \ {s} : Purse'[o] = Purse[o]
      BY <1>2, <1>3 DEF Purse
    <3>2. Purse' = [o \in Seats |-> Purse'[o]] /\ Purse = [o \in Seats |-> Purse[o]]
      BY DEF Purse
    <3> HIDE DEF Purse
    <3>3. QED
      BY <3>1, <3>2
  <2>3. Front[s] = 0 /\ PutInto[s] = 0
    <3>1. CASE ~HandOn
      BY <3>1 DEF Front, PutInto
    <3>2. CASE HandOn
      <4>1. s \notin hand.dealt
        BY <1>5, <3>2 DEF PlayersIn
      <4>2. hand.stackIn[s] = 0 /\ hand.won[s] = 0
        BY <3>2, <4>1, NoHandSound DEF OrderlyInv, HandOn, Rested, Open, Pausing, Ending,
             Halted, InPlay, Paid, Nothing, NotFolded
      <4>3. /\ hand.stack[s] \in Nat /\ hand.committed[s] \in Nat
            /\ hand.stack[s] + hand.committed[s] = 0
        BY <4>2 DEF Inv, Sound, Accounted, Hands
      <4>4. hand.stack[s] = 0 /\ hand.committed[s] = 0
        BY <4>3
      <4>5. QED
        BY <4>4 DEF Front, PutInto
    <3>3. QED
      BY <3>1, <3>2
  <2>4. QED
    BY <1>3, <2>1, <2>2, <2>3, IsBuyIn
<1>6. QED
  BY <1>4, <1>5

LEMMA LeavePlays ==
  ASSUME Orderly, Inv, OrderlyInv, NEW u \in Users, Leave(u)
  PROVE  Money!MoneyNext \/ UNCHANGED Money!money
<1>1. ~HandOn /\ UNCHANGED <<hand, turn>>
  BY GetsUp
<1>2. PICK s \in Seats : seats'[s] = NoPlayer /\ \A o \in Seats \ {s} : seats'[o] = seats[o]
  BY GetsUp
<1>3. UNCHANGED <<Front, PutInto, StillIn, Phase>> /\ PlayersIn' = PlayersIn
  BY <1>1 DEF Front, PutInto, StillIn, Phase, PlayersIn, HandOn
<1>4. Purse' = [Purse EXCEPT ![s] = 0]
  <2>1. \A o \in Seats \ {s} : Purse'[o] = Purse[o]
    BY <1>2, <1>3 DEF Purse
  <2>2. Purse'[s] = 0
    BY <1>2 DEF Purse, NoPlayer
  <2>3. Purse' = [o \in Seats |-> Purse'[o]] /\ Purse = [o \in Seats |-> Purse[o]]
    BY DEF Purse
  <2> HIDE DEF Purse
  <2>4. QED
    BY <2>1, <2>2, <2>3
<1>5. QED
  BY <1>3, <1>4, IsCashOut

LEMMA EndPlays ==
  ASSUME Inv, OrderlyInv, EndHand
  PROVE  Money!MoneyNext \/ UNCHANGED Money!money
<1>1. hand.id # 0 /\ Ending(hand, turn, due) /\ hand' = NoHand
  <2>1. EndCmd(hand.id) \in Commands \ {StartCmd} /\ due[EndCmd(hand.id)] > 0
    BY OwnCommands DEF EndHand, EndReady, Inv, TypeOK
  <2>2. hand' = NoHand
    BY DEF EndHand
  <2>3. QED
    BY <2>1, <2>2, UnderWay, CommandsDiffer
<1>2. HandOn /\ ~HandOn' /\ PlayersIn = hand.dealt
  BY <1>1, NoHandSound DEF HandOn, PlayersIn
<1>3. Phase = "paid" /\ Phase' = "idle"
  BY <1>1, <1>2 DEF Phase, Ending, Paid
<1>4. Front' = [s \in Seats |-> 0] /\ PutInto' = [s \in Seats |-> 0] /\ StillIn' = {}
      /\ PlayersIn' = {}
  BY <1>2 DEF Front, PutInto, StillIn, PlayersIn
<1>5. ASSUME NEW s \in Seats PROVE Purse'[s] \in {0, Purse[s] + Front[s]}
  <2>1. Purse'[s] = seats'[s].stack
    BY <1>4 DEF Purse
  <2>2. Purse'[s] = 0
           \/ Purse'[s] = IF s \in hand.dealt THEN hand.stack[s] ELSE seats[s].stack
    BY <2>1, CashesUp
  <2>3. Front[s] = hand.stack[s] /\ Purse[s] = IF s \in hand.dealt THEN 0 ELSE seats[s].stack
    BY <1>2 DEF Front, Purse
  <2>4. hand.stack[s] \in Nat /\ seats[s].stack \in Nat
    BY DEF Inv, TypeOK, Players, Sound, Accounted, Hands
  <2>5. s \notin hand.dealt => hand.stack[s] = 0
    <3> HAVE s \notin hand.dealt
    <3>1. hand.stackIn[s] = 0 /\ hand.won[s] = 0
      BY <1>1 DEF Ending, Paid, NotFolded
    <3>2. /\ hand.committed[s] \in Nat
          /\ hand.stack[s] + hand.committed[s] = 0
      BY <3>1 DEF Inv, Sound, Accounted, Hands
    <3>3. QED
      BY <2>4, <3>2
  <2>6. CASE s \in hand.dealt
    BY <2>2, <2>3, <2>4, <2>6
  <2>7. CASE s \notin hand.dealt
    BY <2>2, <2>3, <2>4, <2>5, <2>7
  <2>8. QED
    BY <2>6, <2>7
<1>6. QED
  BY <1>3, <1>4, <1>5, IsClear

LEMMA DealPlays ==
  ASSUME Orderly, Inv, OrderlyInv, [Next]_vars, Inv', OrderlyInv', Begun, SameChairs
  PROVE  Money!MoneyNext \/ UNCHANGED Money!money
<1> DEFINE in == Participants(seats)
           chips == [s \in Seats |-> IF s \in in THEN seats[s].stack ELSE 0]
<1>1. /\ hand.id = 0 /\ hand'.id # 0 /\ hand'.dealt = in /\ hand'.stackIn = chips
      /\ hand'.folded = {} /\ hand'.won = Nothing /\ hand'.finals = 0
  BY DEF Begun, DealtTo, Untouched
<1>2. ~HandOn /\ HandOn' /\ PlayersIn = {} /\ PlayersIn' = in /\ StillIn' = in
  BY <1>1 DEF HandOn, PlayersIn, StillIn
<1>3. Phase = "idle" /\ Phase' = "betting"
  BY <1>1, <1>2 DEF Phase
<1>4. in # {}
  <2>1. Contested(hand')
    BY <1>1, NoHandSound DEF OrderlyInv, Rested, Open, Pausing, Ending, Halted, Paid
  <2>2. QED
    BY <1>1, <2>1 DEF Contested, NotFolded
<1>5. ASSUME NEW s \in Seats
      PROVE  /\ seats[s].stack \in Nat /\ Purse[s] = seats[s].stack
             /\ Purse'[s] = IF s \in in THEN 0 ELSE seats[s].stack
             /\ Front'[s] = hand'.stack[s] /\ PutInto'[s] = hand'.committed[s]
             /\ hand'.stack[s] \in Nat /\ hand'.committed[s] \in Nat
             /\ hand'.stack[s] + hand'.committed[s] = chips[s]
  <2>1. Purse[s] = seats[s].stack /\ Purse'[s] = IF s \in in THEN 0 ELSE seats'[s].stack
    BY <1>2 DEF Purse
  <2>2. Front'[s] = hand'.stack[s] /\ PutInto'[s] = hand'.committed[s]
    BY <1>2 DEF Front, PutInto
  <2>3. seats[s].stack \in Nat /\ seats'[s].stack = seats[s].stack
    BY DEF Inv, TypeOK, Players, SameChairs
  <2>4. /\ hand'.stack[s] \in Nat /\ hand'.committed[s] \in Nat /\ hand'.stackIn[s] \in Nat
        /\ hand'.stack[s] + hand'.committed[s] = hand'.stackIn[s] + hand'.won[s]
    BY DEF Inv, Sound, Accounted, Hands
  <2>5. hand'.won[s] = 0 /\ hand'.stackIn[s] = chips[s]
    BY <1>1 DEF Nothing
  <2> HIDE DEF in, chips
  <2>6. hand'.stack[s] + hand'.committed[s] = chips[s]
    BY <2>4, <2>5
  <2>7. QED
    BY <2>1, <2>2, <2>3, <2>4, <2>6
<1>6. \A s \in in : s \in Seats /\ seats[s].stack > 0 /\ chips[s] = seats[s].stack
  BY DEF Participants, EligibleForHand
<1>7. \A s \in Seats \ in : chips[s] = 0
  OBVIOUS
<1> HIDE DEF in, chips
<1>8. \A s \in Seats :
        IF s \in StillIn' THEN /\ Purse[s] > 0 /\ Purse'[s] = 0
                               /\ Front'[s] + PutInto'[s] = Purse[s]
        ELSE Purse'[s] = Purse[s] /\ Front'[s] = 0 /\ PutInto'[s] = 0
  <2> TAKE s \in Seats
  <2>1. CASE s \in in
    BY <1>2, <1>5, <1>6, <2>1
  <2>2. CASE s \notin in
    <3>1. Front'[s] + PutInto'[s] = 0 /\ Front'[s] \in Nat /\ PutInto'[s] \in Nat
      BY <1>5, <1>7, <2>2
    <3>2. Front'[s] = 0 /\ PutInto'[s] = 0
      BY <3>1
    <3>3. QED
      BY <1>2, <1>5, <2>2, <3>2
  <2>3. QED
    BY <2>1, <2>2
<1>9. QED
  BY <1>2, <1>3, <1>4, <1>8, IsDeal

LEMMA BetsPlay ==
  ASSUME Orderly, Inv, OrderlyInv, [Next]_vars, Inv', OrderlyInv', SameChairs,
         hand.id # 0, hand'.id = hand.id, hand.finals = 0
  PROVE  Money!MoneyNext
<1>1. /\ hand'.dealt = hand.dealt /\ hand.folded \subseteq hand'.folded
      /\ NotFolded(hand') # {}
      /\ \A s \in Seats :
           /\ hand.stack[s] \in Nat /\ hand.committed[s] \in Nat
           /\ hand'.stack[s] \in Nat /\ hand'.committed[s] \in Nat /\ hand'.won[s] \in Nat
           /\ hand'.committed[s] >= hand.committed[s]
           /\ hand'.committed[s] <= hand.committed[s] + hand.stack[s]
           /\ s \notin NotFolded(hand) => hand'.committed[s] = hand.committed[s]
           /\ hand'.stack[s] + hand'.committed[s]
                = (hand.stack[s] + hand.committed[s]) + hand'.won[s]
      /\ hand'.finals = 0 => \A s \in Seats : hand'.won[s] = 0
      /\ hand'.finals # 0 => Paid(hand')
  BY HandPlays
<1>2. /\ HandOn /\ HandOn' /\ PlayersIn = hand.dealt /\ PlayersIn' = hand.dealt
      /\ StillIn = NotFolded(hand) /\ StillIn' = NotFolded(hand')
  BY <1>1 DEF HandOn, PlayersIn, StillIn, NotFolded
<1>3. \A s \in Seats : /\ Front[s] = hand.stack[s] /\ Front'[s] = hand'.stack[s]
                       /\ PutInto[s] = hand.committed[s] /\ PutInto'[s] = hand'.committed[s]
  BY <1>2 DEF Front, PutInto
<1>4. Purse' = Purse
  BY <1>2 DEF Purse, SameChairs
<1>5. StillIn' \subseteq StillIn /\ NotFolded(hand') \subseteq Seats
  BY <1>1, <1>2 DEF NotFolded, Inv, Sound, Accounted, Hands
<1>6. Phase = "betting" /\ Phase' = IF hand'.finals = 0 THEN "betting" ELSE "paid"
  BY <1>2 DEF Phase
<1>7. Played
  BY <1>1, <1>2, <1>3, <1>4, <1>5, <1>6 DEF Played
<1>8. \A s \in Seats : (Front'[s] + PutInto'[s]) - (Front[s] + PutInto[s]) = hand'.won[s]
  BY <1>1, <1>3
<1>9. CASE hand'.finals = 0
  BY <1>1, <1>6, <1>7, <1>8, <1>9, IsWager
<1>10. CASE hand'.finals # 0
  <2>1. Paid(hand')
    BY <1>1, <1>10
  <2>2. PutInto' = hand'.committed
    <3>1. hand'.committed \in [Seats -> Nat] /\ PutInto' = [s \in Seats |-> PutInto'[s]]
      BY DEF PutInto, Inv, Sound, Accounted, Hands
    <3>2. QED
      BY <1>3, <3>1
  <2> DEFINE gain == [s \in Seats |-> (Front'[s] + PutInto'[s]) - (Front[s] + PutInto[s])]
  <2>3. gain = hand'.won
    <3>1. hand'.won \in [Seats -> Nat]
      BY DEF Inv, Sound, Accounted, Hands
    <3>2. QED
      BY <1>8, <3>1
  <2>4. gain = [s \in Seats |-> (Front'[s] + PutInto'[s]) - (Front[s] + PutInto[s])]
    OBVIOUS
  <2> HIDE DEF gain
  <2>5. Total(gain) = Total(PutInto')
    BY <2>1, <2>2, <2>3 DEF Paid, Pot
  <2>6. \A s \in Seats : 0 <= gain[s]
    BY <1>1, <2>3
  <2>7. \A s \in Seats \ StillIn' : gain[s] <= 0
    BY <1>2, <2>1, <2>3 DEF Paid
  <2>8. \A s \in StillIn' :
          gain[s] <= IF \A o \in StillIn' : PutInto'[o] <= PutInto'[s] THEN Total(PutInto')
                     ELSE Total([o \in Seats |-> Lower(PutInto'[o], PutInto'[s])])
    BY <1>2, <2>1, <2>2, <2>3 DEF Paid, Within, Pot
  <2>9. QED
    BY <1>6, <1>7, <1>10, <2>4, <2>5, <2>6, <2>7, <2>8, IsPayOut
<1>11. QED
  BY <1>9, <1>10

LEMMA RestPlays ==
  ASSUME SameChairs, SameBets(hand, hand')
  PROVE  UNCHANGED Money!money
<1>1. /\ hand'.id = hand.id /\ hand'.dealt = hand.dealt /\ hand'.folded = hand.folded
      /\ hand'.stack = hand.stack /\ hand'.committed = hand.committed
      /\ hand'.finals = hand.finals
  BY DEF SameBets
<1>2. PlayersIn' = PlayersIn /\ HandOn' = HandOn
  BY <1>1 DEF PlayersIn, HandOn
<1>3. /\ Purse' = Purse /\ Front' = Front /\ PutInto' = PutInto /\ StillIn' = StillIn
      /\ Phase' = Phase
  BY <1>1, <1>2 DEF Purse, Front, PutInto, StillIn, Phase, SameChairs
<1>4. QED
  BY <1>3, IsStutter

LEMMA MoneyStep ==
  ASSUME Orderly, Inv, OrderlyInv, EmptyChairs, [Next]_vars, Inv', OrderlyInv'
  PROVE  Money!MoneyNext \/ UNCHANGED Money!money
<1>1. CASE \E u \in Users : Leave(u) \/ \E chips \in BuyIns : Sit(u, chips)
  BY <1>1, SitPlays, LeavePlays
<1>2. CASE EndHand
  BY <1>2, EndPlays
<1>3. CASE SameChairs
  <2>1. CASE Begun
    BY <1>3, <2>1, DealPlays
  <2>2. CASE Onwards /\ hand.id = 0
    <3>1. hand = NoHand /\ hand' = NoHand
      BY <2>2, NothingOn DEF Onwards, Later, OrderlyInv
    <3>2. SameBets(hand, hand')
      BY <3>1 DEF SameBets
    <3>3. QED
      BY <1>3, <3>2, RestPlays
  <2>3. CASE Onwards /\ hand.id # 0
    <3>1. hand'.id = hand.id
      BY <2>3 DEF Onwards, Later
    <3>2. CASE hand.finals = 0
      BY <1>3, <2>3, <3>1, <3>2, BetsPlay
    <3>3. CASE hand.finals # 0
      <4>1. Ending(hand, turn, due)
        BY <2>3, <3>3, NoHandSound DEF OrderlyInv, Rested, Open, Pausing, Halted, InPlay
      <4>2. QED
        BY <1>3, <3>1, <4>1, EndedStays, RestPlays
    <3>4. QED
      BY <3>2, <3>3
  <2>4. CASE EndHand
    BY <2>4, EndPlays
  <2>5. QED
    BY <2>1, <2>2, <2>3, <2>4, HandStep
<1>4. QED
  BY <1>1, <1>2, <1>3, ChairsKept

\* In orderly play the table does with money what TableMoney allows and nothing else: it is
\* brought and taken away by its owner, dealt in with him, paid into the pot, and paid out
\* of it once, in full, within what the winners have matched (table.go:461-558, 759-835 and
\* hand.go:203-498, 576-655).
THEOREM OrderlyPlayIsForMoney == ASSUME Orderly, ProperBlinds PROVE Spec => PlaysForMoney
<1>1. Init => Money!MoneyInit
  <2> SUFFICES ASSUME Init PROVE Money!MoneyInit
    OBVIOUS
  <2>1. hand.id = 0 /\ \A s \in Seats : seats[s].stack = 0
    BY NoHandSound DEF Init, NoPlayer
  <2>2. ~HandOn /\ PlayersIn = {}
    BY <2>1 DEF HandOn, PlayersIn
  <2>3. QED
    BY <2>1, <2>2, MoneyWords DEF Money!MoneyInit, Money!None
<1>2. Inv /\ OrderlyInv /\ EmptyChairs /\ [Next]_vars /\ Inv' /\ OrderlyInv'
        => [Money!MoneyNext]_(Money!money)
  BY MoneyStep
<1>3. QED
  BY <1>1, <1>2, Invariance, StaysOrderly, ChairsStayEmpty, PTL
  DEF Spec, PlaysForMoney, Money!MoneySpec
=========================================================================
