------------------------------ MODULE Hand ------------------------------
(* One hand of no-limit hold'em: server/internal/table/hand.go.  The hand   *)
(* is mutable state owned by the table actor, so it is modelled as a record *)
(* and every method as an operator from the hand before to the hand after;  *)
(* module Table holds the record in a variable and decides when the methods *)
(* run.                                                                     *)
(*                                                                          *)
(* Cards are abstracted: a street deals no more than a change of stage (the *)
(* 52-card deck never runs out: at most 2*6 + 5 cards are drawn), and       *)
(* `score' holds what eval.Evaluate7 would say of each seat's seven cards   *)
(* at a showdown, drawn when the hand starts.  Chip amounts are exact.      *)
EXTENDS SidePots, FiniteSets

CONSTANTS SmallBlind, BigBlind

\* The blinds are what the first client to sit at the table asked for; only a pair
\* of zeros is replaced by the server's own.
ASSUME BlindsAssumption == /\ SmallBlind \in Int /\ BigBlind \in Int
                           /\ SmallBlind # 0 \/ BigBlind # 0

\* What the lobby of the web client offers, and nothing on the server checks.
ProperBlinds == SmallBlind \in Nat /\ BigBlind \in Nat \ {0} /\ SmallBlind <= BigBlind

NoSeat == -1
SeatOrNone == Seats \cup {NoSeat}

Stages == {"waiting", "preflop", "flop", "turn", "river", "showdown"}
ActionKinds == {"fold", "check", "call", "bet", "raise", "allin"}
PendingKinds == {"none", "check_fold", "call_any", "raise_to"}
NoPending == [kind |-> "none", amount |-> 0]
Pendings == [kind : PendingKinds, amount : Nat]

\* seatState's booleans are sets of seats; `dealt' is the set of non-nil seats.
\* `won' and `finals' are history: the chips the awards have credited to each
\* seat, and how often the record has been finalized and shipped to the store.
Hands ==
  [id : Nat, stage : Stages, button : Seats, dealt : SUBSET Seats,
   stackIn : [Seats -> Nat], stack : [Seats -> Nat],
   bet : [Seats -> Nat], committed : [Seats -> Nat],
   folded : SUBSET Seats, allIn : SUBSET Seats, acted : SUBSET Seats,
   pending : [Seats -> Pendings], toAct : SeatOrNone,
   currentBet : Nat, minRaise : Nat, score : [Seats -> Nat],
   won : [Seats -> Nat], finals : Nat]

Nothing == [s \in Seats |-> 0]

\* The record newHand returns.  Hand ids are uuids in the code and 1, 2, ... here;
\* id 0 is t.hand == nil, for which the rest of the record is as good as any.
NewHand(id, button, dealt, chips, score) ==
  [id |-> id, stage |-> "waiting", button |-> button, dealt |-> dealt,
   stackIn |-> chips, stack |-> chips, bet |-> Nothing, committed |-> Nothing,
   folded |-> {}, allIn |-> {}, acted |-> {},
   pending |-> [s \in Seats |-> NoPending], toAct |-> NoSeat,
   currentBet |-> 0, minRaise |-> 0, score |-> score,
   won |-> Nothing, finals |-> 0]

NoHand == NewHand(0, 0, {}, Nothing, Nothing)
---------------------------------------------------------------------------
\* How many seats lie between `from' and s, going round the table; `from' may be
\* NoSeat, which counts as the place before seat 0.
Distance(from, s) == (s + MaxSeats - from - 1) % MaxSeats

\* The first seat of S strictly after `from', `from' itself being the last one tried.
NextIn(from, S) ==
  LET first == {s \in S : \A o \in S : Distance(from, s) <= Distance(from, o)}
  IN  IF first = {} THEN NoSeat ELSE CHOOSE s \in first : TRUE

CanAct(h) == {s \in h.dealt \ (h.folded \cup h.allIn) : h.stack[s] > 0}
NotFolded(h) == h.dealt \ h.folded
NextSeatedAfter(h, from) == NextIn(from, h.dealt)
NextActorAfter(h, from) == NextIn(from, CanAct(h))
---------------------------------------------------------------------------
\* Blinds.  A seat is all-in only when the post is MORE than its stack.
PostBlind(h, s, amount) ==
  LET pay == Lower(amount, h.stack[s])
  IN  [h EXCEPT !.stack[s] = @ - pay, !.bet[s] = @ + pay, !.committed[s] = @ + pay,
                !.allIn = IF amount > h.stack[s] THEN @ \cup {s} ELSE @]

\* The seats of D post a dead big blind: into the pot, but not into their bet.
PostDeadBlinds(h, D) ==
  LET Pay(s) == IF s \in D THEN Lower(BigBlind, h.stack[s]) ELSE 0
  IN  [h EXCEPT !.stack = [s \in Seats |-> @[s] - Pay(s)],
                !.committed = [s \in Seats |-> @[s] + Pay(s)],
                !.allIn = @ \cup {s \in D : BigBlind > h.stack[s]}]

HeadsUp(h) == Cardinality(h.dealt) = 2
SmallBlindSeat(h) == IF HeadsUp(h) THEN h.button ELSE NextSeatedAfter(h, h.button)
BigBlindSeat(h) == NextSeatedAfter(h, SmallBlindSeat(h))

\* Mutant of SkipNatural: the natural big blind posts the dead one as well.
SkipNobody(D, bb) == D
SkipNatural(D, bb) == D \ {bb}

\* D: the dealt-in seats that owe a big blind to enter; the natural one is enough.
StartPreflop(h, D) ==
  LET sb == SmallBlindSeat(h)
      bb == BigBlindSeat(h)
      posted == PostBlind(PostBlind(PostDeadBlinds(h, SkipNatural(D, bb)), sb, SmallBlind), bb, BigBlind)
  IN  [posted EXCEPT !.currentBet = BigBlind, !.minRaise = BigBlind, !.stage = "preflop",
                     !.toAct = IF HeadsUp(h) THEN sb ELSE NextActorAfter(posted, bb)]
---------------------------------------------------------------------------
\* The player actions of applyAction.
\* Mutant of MayAct: the checks for a seat out of the betting are forgotten.
MayActToAct(h, s) == s = h.toAct /\ s \in h.dealt
MayAct(h, s) == s = h.toAct /\ s \in h.dealt \ (h.folded \cup h.allIn)

ToCall(h, s) == h.currentBet - h.bet[s]

\* Mutant of PutIn: an all-in is not added to the total the side pots are cut from.
PutInUncounted(h, s, pay) ==
  [h EXCEPT !.stack[s] = @ - pay, !.bet[s] = @ + pay,
            !.committed[s] = IF pay = h.stack[s] THEN @ ELSE @ + pay,
            !.allIn = IF pay = h.stack[s] THEN @ \cup {s} ELSE @,
            !.acted = @ \cup {s}]
\* Seat s puts `pay' chips into the pot, and is all-in when they are its last.
PutIn(h, s, pay) ==
  [h EXCEPT !.stack[s] = @ - pay, !.bet[s] = @ + pay, !.committed[s] = @ + pay,
            !.allIn = IF pay = h.stack[s] THEN @ \cup {s} ELSE @,
            !.acted = @ \cup {s}]

\* Everyone who still can must answer the bet of s.
Reopen(h, s) == [h EXCEPT !.acted = (@ \cap (h.folded \cup h.allIn)) \cup {s}]

Fold(h, s)  == [h EXCEPT !.folded = @ \cup {s}, !.acted = @ \cup {s}]
Check(h, s) == [h EXCEPT !.acted = @ \cup {s}]
\* Mutant of Call: the call is not capped at the stack.
CallInFull(h, s) == PutIn(h, s, ToCall(h, s))
Call(h, s)  == PutIn(h, s, Lower(ToCall(h, s), h.stack[s]))

CanBet(h, s, amount) == h.currentBet <= 0 /\ amount >= BigBlind /\ amount <= h.stack[s]
Bet(h, s, amount) ==
  Reopen([PutIn(h, s, amount) EXCEPT !.currentBet = h.bet[s] + amount, !.minRaise = amount], s)

ShortAllIn(h, s, level) ==
  level - h.bet[s] = h.stack[s] /\ level - h.currentBet < h.minRaise
\* Mutant of CanRaiseTo: any raise the stack allows is accepted.
CanRaiseAtAll(h, s, level) ==
  level > h.currentBet /\ level - h.bet[s] <= h.stack[s] /\ level # h.bet[s]
\* A raise that costs nothing is refused, but not one that costs less than nothing:
\* a bet above the current one needs a small blind above the big one.
CanRaiseTo(h, s, level) ==
  /\ level > h.currentBet
  /\ level - h.bet[s] <= h.stack[s]
  /\ level # h.bet[s]
  /\ ShortAllIn(h, s, level) \/ level - h.currentBet >= h.minRaise
RaiseTo(h, s, level) ==
  LET raised == [PutIn(h, s, level - h.bet[s]) EXCEPT !.currentBet = level]
  IN  IF ShortAllIn(h, s, level) THEN raised
      ELSE Reopen([raised EXCEPT !.minRaise = level - h.currentBet], s)

\* An all-in below the current bet is a partial call.
AllInLevel(h, s) == h.bet[s] + h.stack[s]
CanAllIn(h, s) == AllInLevel(h, s) <= h.currentBet \/ h.stack[s] # 0
AllIn(h, s) == IF AllInLevel(h, s) <= h.currentBet THEN PutIn(h, s, h.stack[s])
               ELSE RaiseTo(h, s, AllInLevel(h, s))

\* An intent is what a client asks for: an action and, for bets and raises, chips.
Accepts(h, s, intent) ==
  /\ MayAct(h, s)
  /\ \/ intent.kind = "fold"
     \/ intent.kind = "allin" /\ CanAllIn(h, s)
     \/ intent.kind = "check" /\ ToCall(h, s) <= 0
     \/ intent.kind = "call"  /\ ToCall(h, s) > 0
     \/ intent.kind = "bet"   /\ CanBet(h, s, intent.amount)
     \/ intent.kind = "raise" /\ CanRaiseTo(h, s, intent.amount)

Apply(h, s, intent) ==
  CASE intent.kind = "fold"  -> Fold(h, s)
    [] intent.kind = "check" -> Check(h, s)
    [] intent.kind = "call"  -> Call(h, s)
    [] intent.kind = "bet"   -> Bet(h, s, intent.amount)
    [] intent.kind = "raise" -> RaiseTo(h, s, intent.amount)
    [] intent.kind = "allin" -> AllIn(h, s)
---------------------------------------------------------------------------
\* Streets.
\* Mutant of RoundClosed: matching the bet is enough, the big blind gets no option.
RoundMatched(h) == \A s \in h.dealt \ (h.folded \cup h.allIn) : ToCall(h, s) <= 0
RoundClosed(h) ==
  \A s \in h.dealt \ (h.folded \cup h.allIn) : s \in h.acted /\ ToCall(h, s) <= 0

Advance(h) == [h EXCEPT !.toAct = NextActorAfter(h, @)]

NextStage == [preflop |-> "flop", flop |-> "turn", turn |-> "river"]
DealStreet(h) ==
  IF h.stage \in DOMAIN NextStage THEN [h EXCEPT !.stage = NextStage[@]] ELSE h

\* Mutant of ResetForNextStreet: the bets of the last street are kept.
ResetKeepsBets(h) ==
  [h EXCEPT !.acted = h.acted \ h.dealt, !.currentBet = 0,
            !.minRaise = BigBlind, !.toAct = NextActorAfter(h, h.button)]
ResetForNextStreet(h) ==
  [h EXCEPT !.bet = Nothing, !.acted = h.acted \ h.dealt, !.currentBet = 0,
            !.minRaise = BigBlind, !.toAct = NextActorAfter(h, h.button)]

BettingPossible(h) == Cardinality(CanAct(h)) >= 2
---------------------------------------------------------------------------
\* The end of the hand.  Both ways finalize the record once more.
Credit(h, prize) ==
  [h EXCEPT !.stack = [s \in Seats |-> @[s] + prize[s]],
            !.won = [s \in Seats |-> @[s] + prize[s]],
            !.finals = @ + 1]

Pot(h) == Total(h.committed)

\* Everyone else has folded: the last seat left gets everything committed.
\* Mutant: only what was bet on this street.
AwardBets(h) ==
  Credit(h, [s \in Seats |-> IF /\ s \in NotFolded(h)
                                /\ \A o \in NotFolded(h) : o <= s
                             THEN Total(h.bet) ELSE 0])
AwardSinglePot(h) ==
  Credit(h, [s \in Seats |-> IF /\ s \in NotFolded(h)
                                /\ \A o \in NotFolded(h) : o <= s
                             THEN Pot(h) ELSE 0])

\* The best of the seats a pot's chips may go to.
Winners(h, k) ==
  LET eligible == Eligible(h.committed, h.folded, k)
  IN  {s \in eligible : \A o \in eligible : h.score[o] <= h.score[s]}

\* Mutant of Share: the odd chips are lost.
ShareEven(h, k, s) ==
  LET W == Winners(h, k)
  IN  IF s \in W THEN Amount(h.committed, h.folded, k) \div Cardinality(W) ELSE 0
\* The pot of layer k split evenly; the odd chips go to the first winner listed,
\* which is the lowest seat number since Eligible is sorted.
Share(h, k, s) ==
  LET amount == Amount(h.committed, h.folded, k)
      W == Winners(h, k)
      n == Cardinality(W)
  IN  IF s \notin W THEN 0
      ELSE (amount \div n) + IF \A o \in W : s <= o THEN amount % n ELSE 0

Settle(h) ==
  LET layers == Layers(h.committed, h.folded)
      Prize(s) == Total([k \in Seats |-> IF k \in layers THEN Share(h, k, s) ELSE 0])
  IN  [Credit(h, [s \in Seats |-> Prize(s)]) EXCEPT !.stage = "showdown"]
---------------------------------------------------------------------------
\* Pre-actions.
CanArm(h, s, p) == /\ s \in h.dealt \ (h.folded \cup h.allIn)
                   /\ p.kind = "raise_to" => p.amount > 0
SetPending(h, s, p) == [h EXCEPT !.pending[s] = p]
ClearPending(h, s) == SetPending(h, s, NoPending)

\* What the armed pre-action of s comes to now; kind "none" when it no longer fits.
ResolvePending(h, s) ==
  LET p == h.pending[s]
      Do(kind) == [kind |-> kind, amount |-> 0]
  IN  CASE p.kind = "check_fold" -> IF ToCall(h, s) > 0 THEN Do("fold") ELSE Do("check")
        [] p.kind = "call_any"   -> IF ToCall(h, s) > 0 THEN Do("call") ELSE Do("check")
        [] p.kind = "raise_to"   -> IF p.amount > h.bet[s] /\ CanRaiseTo(h, s, p.amount)
                                    THEN [kind |-> "raise", amount |-> p.amount]
                                    ELSE Do("none")
        [] OTHER                 -> Do("none")
=========================================================================
