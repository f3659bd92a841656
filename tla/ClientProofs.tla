-------------------------- MODULE ClientProofs --------------------------
(* Theorems about module Client, for any number of hands, streets and       *)
(* snapshots, any capacity of the channel and any number of messages lost.  *)
EXTENDS Client, SequenceTheorems, TLAPS

Parts == {"hand", "board", "hole", "turn", "folded", "showdown"}
IsView(v) == DOMAIN v = Parts

\* Message m makes a part of any view what it is in t, unless it takes the page down.
Tells(m, part, t) ==
  \A v : IsView(v) /\ ~Gone(Dispatch(v, m)) => Dispatch(v, m)[part] = t[part]

Messages == [kind : Kinds, hand : Nat, board : Seq(Nat \X Nat), seat : Seats, folded : BOOLEAN]

\* The only messages whose effect depends on what the view was before.
Adds == {"deal_community", "action_applied"}

\* What the table has said: the truth, but for the turn, which may have been given to a
\* seat after the hand was over.
Word == [Truth EXCEPT !.turn = turn]
Loose(t) == t = NoTurn \/ t.hand \in reopened
---------------------------------------------------------------------------
(* The inductive invariant. *)

\* How the variables of the table go together.
InHand == /\ hand \in {NoHand, hands}
          /\ hand = NoHand => ~shown /\ ~alone /\ toAct = "none" /\ advances = 0
          /\ hand = NoHand \/ Over => Loose(turn)

\* A message on its way says again whatever it decides, and so did the handler's last
\* word on it; but for the hole cards a new hand clears before they come.
Truthful ==
  \A i \in DOMAIN out : \A part \in Decides(out[i].kind) :
    \/ Tells(out[i], part, Word)
    \/ /\ part = "hole" /\ out[i].kind = "hand_start"
       /\ i + 1 \in DOMAIN out /\ out[i + 1].kind = "deal_hole"

\* With s the view once the channel is empty: what the messages still to be sent say
\* nothing of is right already, unless it is stale; and one that adds to the view comes
\* first, so that it is added to what it should be.
Silent(part) == \A i \in DOMAIN out : part \notin Changes[out[i].kind]
Repairs(s) ==
  /\ \A part \in Parts \ stale : Silent(part) => s[part] = Word[part]
  /\ \A i \in DOMAIN out : out[i].kind \in Adds =>
       /\ i = 1
       /\ \A part \in Changes[out[1].kind] \ stale : Dispatch(s, out[1])[part] = Word[part]

\* A view that does not mix two hands.
Coherent(v) ==
  /\ v.turn = NoTurn \/ v.turn.hand \in {v.hand} \cup reopened
  /\ \A i \in DOMAIN v.board : v.board[i] = <<v.hand, i>>
  /\ v.hand # NoHand => v.hole \in {NoHand, v.hand}

\* With nothing lost so far, every message finds a view of the hand it is about, or
\* begins that hand.
InContext(s) ==
  /\ stale \subseteq {"turn", "showdown"}
  /\ "turn" \in stale => s.turn = NoTurn
  /\ s.hand # hand =>
       /\ Loose(s.turn) /\ out # <<>>
       /\ \/ out[1].kind = "hand_start"
          \/ out[1].kind = "table_state" /\ (hand = NoHand \/ s.hole = NoHand)
  /\ \A i \in DOMAIN out : /\ out[i].hand = hand
                           /\ out[i].kind = "hand_start" => i = 1 /\ Loose(s.turn)

\* u is what becomes of the view as the messages in the channel arrive, s in the end.
Unfolds(u, s) ==
  /\ u[0] = view /\ u[Len(chan)] = s
  /\ \A i \in 0..Len(chan) : IsView(u[i])
  /\ \A i \in 1..Len(chan) : u[i] = Dispatch(u[i - 1], chan[i])
  /\ drops = 0 => \A i \in 0..Len(chan) : Gone(u[i]) \/ Coherent(u[i])

\* What holds of the messages still to be sent, and of s, to which they will be sent.
Sending(s) == /\ Truthful
              /\ Gone(s) \/ Repairs(s)
              /\ drops = 0 => Gone(s) \/ InContext(s)

Typed == /\ TypeOK
         /\ chan \in Seq(Messages) /\ out \in Seq(Messages)
         /\ asides \in 0..MaxAsides

IInv == /\ Typed /\ InHand
        /\ \E u, s : Unfolds(u, s) /\ Sending(s)
---------------------------------------------------------------------------
(* The reducers. *)

LEMMA GoneStays ==
  ASSUME NEW v, NEW m
  PROVE  /\ Gone(v) => Dispatch(v, m) = v
         /\ ~Gone(Dispatch(v, m)) => ~Gone(v)
BY DEF Dispatch

LEMMA KindFacts ==
  /\ Kinds = {"hand_start", "deal_hole", "deal_community", "to_act", "action_applied",
              "pot_update", "showdown", "hand_end", "table_state"}
  /\ Changes["hand_start"] = {"hand", "board", "hole", "showdown"}
  /\ Changes["deal_hole"] = {"hole"} /\ Changes["deal_community"] = {"board"}
  /\ Changes["to_act"] = {"turn"} /\ Changes["action_applied"] = {"folded"}
  /\ Changes["pot_update"] = {} /\ Changes["showdown"] = {"board", "showdown"}
  /\ Changes["hand_end"] = {"turn"}
  /\ Changes["table_state"] = {"hand", "board", "folded"}
BY DEF Kinds, Changes

LEMMA SettleFacts ==
  /\ \A kind \in Adds : Decides(kind) = {}
  /\ \A kind \in Kinds \ Adds : Decides(kind) = Changes[kind]
  /\ \A kind \in Kinds : Changes[kind] \subseteq Parts
BY KindFacts DEF Decides, Adds, Parts

\* What each message makes of a view.
LEMMA StateOnView ==
  ASSUME NEW v, IsView(v), ~Gone(v), NEW m, m.kind = "table_state"
  PROVE  LET u == Dispatch(v, m)
         IN  /\ IsView(u)
             /\ u.hand = m.hand /\ u.board = m.board /\ u.folded = m.folded
             /\ \A part \in Parts \ {"hand", "board", "folded"} : u[part] = v[part]
<1>1. Dispatch(v, m) = ApplyTableState(v, m)
  BY DEF Dispatch
<1>2. QED
  BY <1>1 DEF ApplyTableState, IsView, Parts

LEMMA StartOnView ==
  ASSUME NEW v, IsView(v), ~Gone(v), NEW m, m.kind = "hand_start"
  PROVE  LET u == Dispatch(v, m)
         IN  /\ IsView(u)
             /\ u.hand = m.hand /\ u.board = <<>> /\ u.hole = NoHand /\ u.showdown = NoHand
             /\ \A part \in Parts \ {"hand", "board", "hole", "showdown"} : u[part] = v[part]
<1>1. Dispatch(v, m) = ApplyHandStart(v, m)
  BY DEF Dispatch
<1>2. QED
  BY <1>1 DEF ApplyHandStart, IsView, Parts

LEMMA EndOnView ==
  ASSUME NEW v, IsView(v), ~Gone(v), NEW m, m.kind = "hand_end"
  PROVE  LET u == Dispatch(v, m)
         IN  /\ IsView(u)
             /\ u.turn = NoTurn
             /\ \A part \in Parts \ {"turn"} : u[part] = v[part]
<1>1. Dispatch(v, m) = ApplyHandEnd(v, m)
  BY DEF Dispatch
<1>2. QED
  BY <1>1 DEF ApplyHandEnd, IsView, Parts

LEMMA HoleOnView ==
  ASSUME NEW v, IsView(v), ~Gone(v), NEW m, m.kind = "deal_hole"
  PROVE  LET u == Dispatch(v, m)
         IN  /\ IsView(u)
             /\ u.hole = m.hand
             /\ \A part \in Parts \ {"hole"} : u[part] = v[part]
<1>1. Dispatch(v, m) = ApplyHole(v, m)
  BY DEF Dispatch
<1>2. QED
  BY <1>1 DEF ApplyHole, IsView, Parts

LEMMA CommunityOnView ==
  ASSUME NEW v, IsView(v), ~Gone(v), NEW m, m.kind = "deal_community"
  PROVE  LET u == Dispatch(v, m)
         IN  /\ IsView(u)
             /\ \A part \in Parts \ {"board"} : u[part] = v[part]
<1>1. Dispatch(v, m) = ApplyCommunity(v, m)
  BY DEF Dispatch
<1>2. QED
  BY <1>1 DEF ApplyCommunity, IsView, Parts

LEMMA ActionOnView ==
  ASSUME NEW v, IsView(v), ~Gone(v), NEW m, m.kind = "action_applied"
  PROVE  LET u == Dispatch(v, m)
         IN  /\ IsView(u)
             /\ \A part \in Parts \ {"folded"} : u[part] = v[part]
<1>1. Dispatch(v, m) = ApplyAction(v, m)
  BY DEF Dispatch
<1>2. QED
  BY <1>1 DEF ApplyAction, IsView, Parts

LEMMA TurnOnView ==
  ASSUME NEW v, IsView(v), ~Gone(v), NEW m, m.kind = "to_act"
  PROVE  LET u == Dispatch(v, m)
         IN  /\ IsView(u)
             /\ \A part \in Parts \ {"turn"} : u[part] = v[part]
<1>1. Dispatch(v, m) = ApplyToAct(v, m)
  BY DEF Dispatch
<1>2. QED
  BY <1>1 DEF ApplyToAct, IsView, Parts

LEMMA ShowdownOnView ==
  ASSUME NEW v, IsView(v), ~Gone(v), NEW m, m.kind = "showdown", m.board # Null
  PROVE  LET u == Dispatch(v, m)
         IN  /\ IsView(u)
             /\ u.board = m.board /\ u.showdown = m.hand
             /\ \A part \in Parts \ {"board", "showdown"} : u[part] = v[part]
<1>1. Dispatch(v, m) = ApplyShowdown(v, m)
  BY DEF Dispatch
<1>2. QED
  BY <1>1 DEF ApplyShowdown, IsView, Parts

LEMMA PotOnView ==
  ASSUME NEW v, IsView(v), ~Gone(v), NEW m, m.kind = "pot_update"
  PROVE  LET u == Dispatch(v, m)
         IN  /\ IsView(u)
             /\ \A part \in Parts : u[part] = v[part]
BY DEF Dispatch

LEMMA CommunityAdds ==
  ASSUME NEW v, IsView(v), ~Gone(v), NEW m, m.kind = "deal_community"
  PROVE  /\ m.board # Null => Dispatch(v, m).board = v.board \o m.board
         /\ m.board = Null => Dispatch(v, m).board = v.board
BY DEF IsView, Parts, Dispatch, ApplyCommunity

LEMMA TurnAsks ==
  ASSUME NEW v, IsView(v), ~Gone(v), NEW m, m.kind = "to_act"
  PROVE  Dispatch(v, m).turn = [hand |-> m.hand, seat |-> m.seat]
BY DEF IsView, Parts, Dispatch, ApplyToAct

LEMMA ActionFolds ==
  ASSUME NEW v, IsView(v), ~Gone(v), NEW m, m.kind = "action_applied"
  PROVE  Dispatch(v, m).folded = (v.folded \/ (m.seat = "me" /\ m.folded))
BY DEF IsView, Parts, Dispatch, ApplyAction

LEMMA NoPageFacts ==
  IsView(NoPage) /\ Gone(NoPage)
BY DEF IsView, Parts, NoPage, EmptyView, Gone

LEMMA NullShowdown ==
  ASSUME NEW v, ~Gone(v), NEW m, m.kind = "showdown", m.board = Null
  PROVE  Dispatch(v, m) = NoPage
BY DEF Dispatch, ApplyShowdown

\* A message leaves the parts it does not change alone.
LEMMA DispatchKeeps ==
  ASSUME NEW v, IsView(v), NEW m, m.kind \in Kinds
  PROVE  /\ IsView(Dispatch(v, m))
         /\ ~Gone(Dispatch(v, m)) =>
              \A part \in Parts \ Changes[m.kind] : Dispatch(v, m)[part] = v[part]
<1>1. CASE Gone(v)
  BY <1>1, GoneStays
<1> SUFFICES ASSUME ~Gone(v)
             PROVE  /\ IsView(Dispatch(v, m))
                    /\ ~Gone(Dispatch(v, m)) =>
                         \A part \in Parts \ Changes[m.kind] : Dispatch(v, m)[part] = v[part]
  BY <1>1
<1>2. CASE m.kind = "table_state"
  BY <1>2, StateOnView, KindFacts
<1>3. CASE m.kind = "hand_start"
  BY <1>3, StartOnView, KindFacts
<1>4. CASE m.kind = "hand_end"
  BY <1>4, EndOnView, KindFacts
<1>5. CASE m.kind = "deal_hole"
  BY <1>5, HoleOnView, KindFacts
<1>6. CASE m.kind = "deal_community"
  BY <1>6, CommunityOnView, KindFacts
<1>7. CASE m.kind = "action_applied"
  BY <1>7, ActionOnView, KindFacts
<1>8. CASE m.kind = "to_act"
  BY <1>8, TurnOnView, KindFacts
<1>9. CASE m.kind = "showdown" /\ m.board # Null
  BY <1>9, ShowdownOnView, KindFacts
<1>10. CASE m.kind = "showdown" /\ m.board = Null
  BY <1>10, NullShowdown, NoPageFacts
<1>11. CASE m.kind = "pot_update"
  BY <1>11, PotOnView, KindFacts
<1>12. QED
  BY <1>2, <1>3, <1>4, <1>5, <1>6, <1>7, <1>8, <1>9, <1>10, <1>11, KindFacts
---------------------------------------------------------------------------
(* The messages. *)

LEMMA BoardFacts ==
  ASSUME NEW h \in Nat, NEW n \in Nat
  PROVE  /\ Board(h, n) \in Seq(Nat \X Nat)
         /\ \A i \in DOMAIN Board(h, n) : Board(h, n)[i] = <<h, i>>
         /\ Board(h, 0) = <<>> /\ Board(NoHand, n) = <<>>
         /\ h # NoHand => Board(h, n) \o <<<<h, n + 1>>>> = Board(h, n + 1)
<1>1. Board(h, 0) = <<>> /\ Board(NoHand, n) = <<>>
  BY DEF Board
<1>2. /\ Board(h, n) \in Seq(Nat \X Nat)
      /\ \A i \in DOMAIN Board(h, n) : Board(h, n)[i] = <<h, i>>
  <2>1. CASE h = NoHand
    BY <1>1, <2>1
  <2>2. CASE h # NoHand
    BY <2>2 DEF Board
  <2>3. QED
    BY <2>1, <2>2
<1>3. ASSUME h # NoHand PROVE Board(h, n) \o <<<<h, n + 1>>>> = Board(h, n + 1)
  BY <1>3 DEF Board
<1>4. QED
  BY <1>1, <1>2, <1>3

LEMMA MessageFacts ==
  ASSUME NEW h \in Nat
  PROVE  /\ HandStart(h) \in Messages /\ DealHole(h) \in Messages
         /\ PotUpdate(h) \in Messages /\ HandEnd(h) \in Messages
         /\ \A seat \in Seats : ToAct(h, seat) \in Messages
         /\ \A seat \in Seats, folds \in BOOLEAN : Applied(h, seat, folds) \in Messages
         /\ \A n \in Nat : DealCommunity(h, n) \in Messages
         /\ DealNothing(h) \in Messages /\ Null \in Seq(Nat \X Nat)
         /\ \A board \in Seq(Nat \X Nat) : Showdown(h, board) \in Messages
         /\ \A n \in Nat : \A part : TableState(h, n, part) \in Messages
<1>1. \A kind \in Kinds : Message(kind, h) \in Messages
  BY DEF Message, Messages, Seats
<1>2. \A seat \in Seats : ToAct(h, seat) \in Messages
  BY <1>1, KindFacts DEF Message, Messages, ToAct
<1>3. \A seat \in Seats, folds \in BOOLEAN : Applied(h, seat, folds) \in Messages
  BY <1>1, KindFacts DEF Message, Messages, Applied
<1>4. ASSUME NEW n \in Nat PROVE DealCommunity(h, n) \in Messages
  <2>1. <<h, n>> \in Nat \X Nat
    OBVIOUS
  <2>2. <<<<h, n>>>> \in Seq(Nat \X Nat)
    BY <2>1
  <2>3. QED
    BY <1>1, <2>2, KindFacts DEF Message, Messages, DealCommunity
<1>5. /\ DealNothing(h) \in Messages /\ Null \in Seq(Nat \X Nat)
      /\ \A board \in Seq(Nat \X Nat) : Showdown(h, board) \in Messages
  <2>1. <<NoHand, 0>> \in Nat \X Nat
    BY DEF NoHand
  <2>2. Null \in Seq(Nat \X Nat)
    BY <2>1 DEF Null
  <2>3. DealNothing(h) \in Messages
    BY <1>1, <2>2, KindFacts DEF Message, Messages, DealNothing
  <2>4. ASSUME NEW board \in Seq(Nat \X Nat) PROVE Showdown(h, board) \in Messages
    BY <1>1, <2>4, KindFacts DEF Message, Messages, Showdown
  <2>5. QED
    BY <2>2, <2>3, <2>4
<1>6. ASSUME NEW n \in Nat, NEW part PROVE TableState(h, n, part) \in Messages
  <2>1. (part = "folded") \in BOOLEAN
    OBVIOUS
  <2>2. QED
    BY <1>1, <2>1, BoardFacts, KindFacts DEF Message, Messages, TableState
<1>7. QED
  BY <1>1, <1>2, <1>3, <1>4, <1>5, <1>6, KindFacts DEF HandStart, DealHole, PotUpdate, HandEnd

LEMMA MessageFields ==
  /\ \A h : HandStart(h).kind = "hand_start" /\ HandStart(h).hand = h
  /\ \A h : DealHole(h).kind = "deal_hole" /\ DealHole(h).hand = h
  /\ \A h, n : /\ DealCommunity(h, n).kind = "deal_community" /\ DealCommunity(h, n).hand = h
              /\ DealCommunity(h, n).board = <<<<h, n>>>>
  /\ \A h, seat : /\ ToAct(h, seat).kind = "to_act" /\ ToAct(h, seat).hand = h
                 /\ ToAct(h, seat).seat = seat
  /\ \A h, seat, folds : /\ Applied(h, seat, folds).kind = "action_applied"
                        /\ Applied(h, seat, folds).hand = h
                        /\ Applied(h, seat, folds).seat = seat
                        /\ Applied(h, seat, folds).folded = folds
  /\ \A h : PotUpdate(h).kind = "pot_update" /\ PotUpdate(h).hand = h
  /\ \A h : /\ DealNothing(h).kind = "deal_community" /\ DealNothing(h).hand = h
           /\ DealNothing(h).board = Null
  /\ \A h, board : /\ Showdown(h, board).kind = "showdown" /\ Showdown(h, board).hand = h
                   /\ Showdown(h, board).board = board
  /\ \A h : HandEnd(h).kind = "hand_end" /\ HandEnd(h).hand = h
  /\ \A h, n, part : /\ TableState(h, n, part).kind = "table_state"
                    /\ TableState(h, n, part).hand = h
                    /\ TableState(h, n, part).board = Board(h, n)
                    /\ TableState(h, n, part).folded = (part = "folded")
BY DEF Message, HandStart, DealHole, DealCommunity, DealNothing, ToAct, Applied, PotUpdate,
       Showdown, HandEnd, TableState

LEMMA TruthFacts ==
  /\ Word.hand = hand /\ Word.board = Board(hand, street)
  /\ Word.hole = IF dealt THEN hands ELSE NoHand
  /\ Word.turn = turn
  /\ Word.folded = (mine = "folded")
  /\ Word.showdown = IF Over \/ hand = NoHand THEN hands ELSE NoHand
BY DEF Word, Truth

LEMMA TruthFactsPrime ==
  /\ Word'.hand = hand' /\ Word'.board = Board(hand', street')
  /\ Word'.hole = IF dealt' THEN hands' ELSE NoHand
  /\ Word'.turn = turn'
  /\ Word'.folded = (mine' = "folded")
  /\ Word'.showdown = IF Over' \/ hand' = NoHand THEN hands' ELSE NoHand
BY DEF Word, Truth

\* A message is true to t in everything it decides.
Honest(m, t) == \A part \in Decides(m.kind) : Tells(m, part, t)

LEMMA AdditionsSettleNothing ==
  ASSUME NEW m, NEW t, m.kind \in Adds \cup {"pot_update"}
  PROVE  Honest(m, t)
BY SettleFacts, KindFacts DEF Honest, Adds

LEMMA StateIsHonest ==
  ASSUME NEW t, NEW h, NEW n, NEW part,
         t.hand = h, t.board = Board(h, n), t.folded = (part = "folded")
  PROVE  Honest(TableState(h, n, part), t)
<1> DEFINE m == TableState(h, n, part)
<1>1. /\ m.kind = "table_state" /\ m.kind \in Kinds
      /\ m.hand = h /\ m.board = Board(h, n) /\ m.folded = (part = "folded")
  BY MessageFields, KindFacts
<1> HIDE DEF m
<1>2. Decides(m.kind) = {"hand", "board", "folded"}
  BY <1>1, SettleFacts, KindFacts DEF Adds
<1>3. SUFFICES ASSUME NEW v, IsView(v), ~Gone(Dispatch(v, m))
               PROVE  /\ Dispatch(v, m).hand = t.hand /\ Dispatch(v, m).board = t.board
                      /\ Dispatch(v, m).folded = t.folded
  BY <1>2 DEF Honest, Tells, m
<1>4. /\ Dispatch(v, m).hand = m.hand /\ Dispatch(v, m).board = m.board
      /\ Dispatch(v, m).folded = m.folded
  BY <1>1, <1>3, GoneStays, StateOnView
<1>5. QED
  BY <1>1, <1>4

LEMMA TurnIsHonest ==
  ASSUME NEW t, NEW h, NEW seat, t.turn = [hand |-> h, seat |-> seat]
  PROVE  Honest(ToAct(h, seat), t)
<1> DEFINE m == ToAct(h, seat)
<1>1. m.kind = "to_act" /\ m.kind \in Kinds /\ m.hand = h /\ m.seat = seat
  BY MessageFields, KindFacts
<1> HIDE DEF m
<1>2. Decides(m.kind) = {"turn"}
  BY <1>1, SettleFacts, KindFacts DEF Adds
<1>3. ASSUME NEW v, IsView(v), ~Gone(Dispatch(v, m))
      PROVE  Dispatch(v, m).turn = t.turn
  BY <1>1, <1>3, GoneStays, TurnAsks
<1>4. QED
  BY <1>2, <1>3 DEF Honest, Tells, m

LEMMA EndIsHonest ==
  ASSUME NEW t, NEW h, t.turn = NoTurn
  PROVE  Honest(HandEnd(h), t)
<1> DEFINE m == HandEnd(h)
<1>1. m.kind = "hand_end" /\ m.kind \in Kinds
  BY MessageFields, KindFacts
<1> HIDE DEF m
<1>2. Decides(m.kind) = {"turn"}
  BY <1>1, SettleFacts, KindFacts DEF Adds
<1>3. ASSUME NEW v, IsView(v), ~Gone(Dispatch(v, m))
      PROVE  Dispatch(v, m).turn = t.turn
  BY <1>1, <1>3, GoneStays, EndOnView
<1>4. QED
  BY <1>2, <1>3 DEF Honest, Tells, m

LEMMA ShowdownIsHonest ==
  ASSUME NEW t, NEW h, NEW board, board # Null => t.board = board, t.showdown = h
  PROVE  Honest(Showdown(h, board), t)
<1> DEFINE m == Showdown(h, board)
<1>1. m.kind = "showdown" /\ m.kind \in Kinds /\ m.hand = h /\ m.board = board
  BY MessageFields, KindFacts
<1> HIDE DEF m
<1>2. Decides(m.kind) = {"board", "showdown"}
  BY <1>1, SettleFacts, KindFacts DEF Adds
<1>3. ASSUME NEW v, IsView(v), ~Gone(Dispatch(v, m))
      PROVE  Dispatch(v, m).board = t.board /\ Dispatch(v, m).showdown = t.showdown
  <2>1. ~Gone(v) /\ m.board # Null
    BY <1>1, <1>3, GoneStays, NullShowdown, NoPageFacts
  <2>2. Dispatch(v, m).board = m.board /\ Dispatch(v, m).showdown = m.hand
    BY <1>1, <1>3, <2>1, ShowdownOnView
  <2>3. QED
    BY <1>1, <2>1, <2>2
<1>4. QED
  BY <1>2, <1>3 DEF Honest, Tells, m

LEMMA HoleIsHonest ==
  ASSUME NEW t, NEW h, t.hole = h
  PROVE  Honest(DealHole(h), t)
<1> DEFINE m == DealHole(h)
<1>1. m.kind = "deal_hole" /\ m.kind \in Kinds /\ m.hand = h
  BY MessageFields, KindFacts
<1> HIDE DEF m
<1>2. Decides(m.kind) = {"hole"}
  BY <1>1, SettleFacts, KindFacts DEF Adds
<1>3. ASSUME NEW v, IsView(v), ~Gone(Dispatch(v, m))
      PROVE  Dispatch(v, m).hole = t.hole
  BY <1>1, <1>3, GoneStays, HoleOnView
<1>4. QED
  BY <1>2, <1>3 DEF Honest, Tells, m

LEMMA StartIsHonest ==
  ASSUME NEW t, NEW h, t.hand = h, t.board = <<>>, t.showdown = NoHand
  PROVE  /\ \A part \in Decides("hand_start") \ {"hole"} : Tells(HandStart(h), part, t)
         /\ t.hole = NoHand => Tells(HandStart(h), "hole", t)
<1> DEFINE m == HandStart(h)
<1>1. m.kind = "hand_start" /\ m.kind \in Kinds /\ m.hand = h
  BY MessageFields, KindFacts
<1> HIDE DEF m
<1>2. Decides("hand_start") = {"hand", "board", "hole", "showdown"}
  BY SettleFacts, KindFacts DEF Adds
<1>3. ASSUME NEW v, IsView(v), ~Gone(Dispatch(v, m))
      PROVE  /\ Dispatch(v, m).hand = t.hand /\ Dispatch(v, m).board = t.board
             /\ Dispatch(v, m).showdown = t.showdown /\ Dispatch(v, m).hole = NoHand
  BY <1>1, <1>3, GoneStays, StartOnView
<1>4. QED
  BY <1>2, <1>3 DEF Tells, m
---------------------------------------------------------------------------
(* Handlers. *)

\* What a handler may say about the hand in play.
Proper(m) == /\ m \in Messages /\ m.hand = hand /\ m.kind # "hand_start"
             /\ Honest(m, Word')

\* Every part of the word that changes is spoken of.
Covered == \A part \in Parts :
  Word'[part] = Word[part] \/ \E i \in DOMAIN out' : part \in Changes[out'[i].kind]

LEMMA HandlerFinds ==
  ASSUME NEW s, IsView(s), Sending(s), out = <<>>, ~Gone(s)
  PROVE  /\ \A part \in Parts \ stale : s[part] = Word[part]
         /\ drops = 0 => /\ stale \subseteq {"turn", "showdown"} /\ s.hand = hand
                         /\ "turn" \in stale => s.turn = NoTurn
BY DEF Sending, Repairs, InContext, Silent

\* A handler that speaks of the hand in play only.
LEMMA Continues ==
  ASSUME NEW s, IsView(s), Sending(s), out = <<>>, UNCHANGED <<hand, stale, drops>>,
         out' \in Seq(Messages), Covered,
         \A i \in DOMAIN out' : Proper(out'[i]) /\ (out'[i].kind \in Adds => i = 1),
         ~Gone(s) => \A i \in DOMAIN out' : i = 1 => (out'[i].kind \in Adds =>
           \A part \in Changes[out'[i].kind] \ stale : Dispatch(s, out'[i])[part] = Word'[part])
  PROVE  Sending(s)'
<1>1. Truthful'
  BY DEF Truthful, Proper, Honest
<1>2. ASSUME ~Gone(s) PROVE Repairs(s)'
  <2>1. ASSUME NEW part \in Parts \ stale', Silent(part)' PROVE s[part] = Word'[part]
    BY <1>2, <2>1, HandlerFinds DEF Covered, Silent
  <2>2. QED
    BY <1>2, <2>1 DEF Repairs
<1>3. ASSUME ~Gone(s), drops' = 0 PROVE InContext(s)'
  <2>1. /\ stale' \subseteq {"turn", "showdown"} /\ s.hand = hand'
        /\ "turn" \in stale' => s.turn = NoTurn
    BY <1>3, HandlerFinds
  <2>2. \A i \in DOMAIN out' : out'[i].hand = hand' /\ out'[i].kind # "hand_start"
    BY DEF Proper
  <2>3. QED
    BY <2>1, <2>2 DEF InContext
<1>4. QED
  BY <1>1, <1>2, <1>3 DEF Sending

\* What may be said of the hand in play.
LEMMA ProperWords ==
  ASSUME hand \in Nat, hand' = hand, street' \in Nat, toAct' \in Seats \cup {"none"}
  PROVE  /\ Proper(PotUpdate(hand)) /\ Proper(TableState(hand, street', mine'))
         /\ \A seat \in Seats, folds \in BOOLEAN : Proper(Applied(hand, seat, folds))
         /\ \A n \in Nat : Proper(DealCommunity(hand, n))
         /\ Proper(DealNothing(hand))
         /\ turn' = Asked(toAct') /\ toAct' # "none" => Proper(ToAct(hand, toAct'))
         /\ turn' = NoTurn => Proper(HandEnd(hand))
         /\ Over' /\ hands' = hand =>
              Proper(Showdown(hand, Board(hand, street'))) /\ Proper(Showdown(hand, Null))
<1>1. Proper(PotUpdate(hand))
  BY MessageFacts, MessageFields, AdditionsSettleNothing DEF Proper, Seats
<1>2. Proper(TableState(hand, street', mine'))
  <2>1. Honest(TableState(hand, street', mine'), Word')
    BY StateIsHonest, TruthFactsPrime
  <2>2. QED
    BY <2>1, MessageFacts, MessageFields DEF Proper
<1>3. ASSUME NEW seat \in Seats, NEW folds \in BOOLEAN PROVE Proper(Applied(hand, seat, folds))
  BY MessageFacts, MessageFields, AdditionsSettleNothing DEF Proper, Adds
<1>4. ASSUME NEW n \in Nat PROVE Proper(DealCommunity(hand, n))
  BY MessageFacts, MessageFields, AdditionsSettleNothing DEF Proper, Adds
<1>5. Proper(DealNothing(hand))
  BY MessageFacts, MessageFields, AdditionsSettleNothing DEF Proper, Adds
<1>6. ASSUME turn' = Asked(toAct'), toAct' # "none" PROVE Proper(ToAct(hand, toAct'))
  <2>1. Word'.turn = [hand |-> hand, seat |-> toAct']
    BY <1>6, TruthFactsPrime DEF Asked
  <2>2. Honest(ToAct(hand, toAct'), Word')
    BY <2>1, TurnIsHonest
  <2>3. QED
    BY <1>6, <2>2, MessageFacts, MessageFields DEF Proper
<1>7. ASSUME turn' = NoTurn PROVE Proper(HandEnd(hand))
  <2>1. Honest(HandEnd(hand), Word')
    BY <1>7, TruthFactsPrime, EndIsHonest
  <2>2. QED
    BY <2>1, MessageFacts, MessageFields DEF Proper
<1>8. ASSUME Over', hands' = hand
      PROVE  Proper(Showdown(hand, Board(hand, street'))) /\ Proper(Showdown(hand, Null))
  <2>1. Word'.board = Board(hand, street') /\ Word'.showdown = hand
    BY <1>8, TruthFactsPrime
  <2>2. Honest(Showdown(hand, Board(hand, street')), Word') /\ Honest(Showdown(hand, Null), Word')
    BY <2>1, ShowdownIsHonest
  <2>3. Board(hand, street') \in Seq(Nat \X Nat) /\ Null \in Seq(Nat \X Nat)
    BY BoardFacts, MessageFacts
  <2>4. Showdown(hand, Board(hand, street')) \in Messages /\ Showdown(hand, Null) \in Messages
    BY <2>3, MessageFacts
  <2>5. \A board : Showdown(hand, board).hand = hand /\ Showdown(hand, board).kind = "showdown"
    BY MessageFields
  <2>6. QED
    BY <2>2, <2>4, <2>5 DEF Proper
<1>9. QED
  BY <1>1, <1>2, <1>3, <1>4, <1>5, <1>6, <1>7, <1>8

\* The lists handlers send.
LEMMA TwoAndTwo ==
  ASSUME NEW a, NEW b, NEW c, NEW d
  PROVE  <<a, b>> \o <<c, d>> = <<a, b, c, d>>
<1> DEFINE S == {a, b, c, d}
<1>1. <<a, b>> \in Seq(S) /\ <<c, d>> \in Seq(S) /\ <<a, b, c, d>> \in Seq(S)
  OBVIOUS
<1> HIDE DEF S
<1>2. /\ Len(<<a, b>> \o <<c, d>>) = 4 /\ <<a, b>> \o <<c, d>> \in Seq(S)
      /\ \A i \in 1..4 : (<<a, b>> \o <<c, d>>)[i] = <<a, b, c, d>>[i]
  BY <1>1, ConcatProperties
<1>3. QED
  BY <1>1, <1>2, SeqEqual

LEMMA OneAndThree ==
  ASSUME NEW a, NEW b, NEW c, NEW d
  PROVE  <<a>> \o <<b, c, d>> = <<a, b, c, d>>
<1> DEFINE S == {a, b, c, d}
<1>1. <<a>> \in Seq(S) /\ <<b, c, d>> \in Seq(S) /\ <<a, b, c, d>> \in Seq(S)
  OBVIOUS
<1> HIDE DEF S
<1>2. /\ Len(<<a>> \o <<b, c, d>>) = 4 /\ <<a>> \o <<b, c, d>> \in Seq(S)
      /\ \A i \in 1..4 : (<<a>> \o <<b, c, d>>)[i] = <<a, b, c, d>>[i]
  BY <1>1, ConcatProperties
<1>3. QED
  BY <1>1, <1>2, SeqEqual

LEMMA OneAndTwo ==
  ASSUME NEW a, NEW b, NEW c
  PROVE  <<a>> \o <<b, c>> = <<a, b, c>>
<1> DEFINE S == {a, b, c}
<1>1. <<a>> \in Seq(S) /\ <<b, c>> \in Seq(S) /\ <<a, b, c>> \in Seq(S)
  OBVIOUS
<1> HIDE DEF S
<1>2. /\ Len(<<a>> \o <<b, c>>) = 3 /\ <<a>> \o <<b, c>> \in Seq(S)
      /\ \A i \in 1..3 : (<<a>> \o <<b, c>>)[i] = <<a, b, c>>[i]
  BY <1>1, ConcatProperties
<1>3. QED
  BY <1>1, <1>2, SeqEqual

LEMMA TwoAndOne ==
  ASSUME NEW a, NEW b, NEW c
  PROVE  <<a, b>> \o <<c>> = <<a, b, c>>
<1> DEFINE S == {a, b, c}
<1>1. <<a, b>> \in Seq(S) /\ <<c>> \in Seq(S) /\ <<a, b, c>> \in Seq(S)
  OBVIOUS
<1> HIDE DEF S
<1>2. /\ Len(<<a, b>> \o <<c>>) = 3 /\ <<a, b>> \o <<c>> \in Seq(S)
      /\ \A i \in 1..3 : (<<a, b>> \o <<c>>)[i] = <<a, b, c>>[i]
  BY <1>1, ConcatProperties
<1>3. QED
  BY <1>1, <1>2, SeqEqual

LEMMA OneAndOne ==
  ASSUME NEW a, NEW b
  PROVE  <<a>> \o <<b>> = <<a, b>>
<1> DEFINE S == {a, b}
<1>1. <<a>> \in Seq(S) /\ <<b>> \in Seq(S) /\ <<a, b>> \in Seq(S)
  OBVIOUS
<1> HIDE DEF S
<1>2. /\ Len(<<a>> \o <<b>>) = 2 /\ <<a>> \o <<b>> \in Seq(S)
      /\ \A i \in 1..2 : (<<a>> \o <<b>>)[i] = <<a, b>>[i]
  BY <1>1, ConcatProperties
<1>3. QED
  BY <1>1, <1>2, SeqEqual

LEMMA SameTruth ==
  /\ hand' = hand => Word'.hand = Word.hand
  /\ hand' = hand /\ street' = street => Word'.board = Word.board
  /\ hands' = hands /\ dealt' = dealt => Word'.hole = Word.hole
  /\ turn' = turn => Word'.turn = Word.turn
  /\ mine' = mine => Word'.folded = Word.folded
  /\ hand' = hand /\ Over' = Over /\ hands' = hands => Word'.showdown = Word.showdown
BY TruthFacts, TruthFactsPrime

LEMMA TypeFacts ==
  ASSUME Typed
  PROVE  /\ hand \in Nat /\ hands \in Nat /\ street \in Nat /\ toAct \in Seats \cup {"none"}
         /\ shown \in BOOLEAN /\ alone \in BOOLEAN /\ dealt \in BOOLEAN /\ drops \in Nat
         /\ advances \in Nat
         /\ {Cap, Streets, MaxHands, MaxAsides, MaxAdvances, MaxDrops} \subseteq Nat \ {0}
BY ClientAssumption DEF Typed, TypeOK

\* What holds after the handler of the actor.
Handled(s) == /\ Sending(s)' /\ InHand'
              /\ out' \in Seq(Messages) /\ Len(out') <= 5
              /\ reopened \subseteq reopened'

LEMMA FoldIsTrue ==
  ASSUME NEW s, IsView(s), ~Gone(s), s.folded = (mine = "folded"), NEW seat,
         NEW folds \in BOOLEAN, mine' = IF seat = "me" /\ folds THEN "folded" ELSE mine
  PROVE  Dispatch(s, Applied(hand, seat, folds)).folded = (mine' = "folded")
<1> DEFINE m == Applied(hand, seat, folds)
<1>1. m.kind = "action_applied" /\ m.seat = seat /\ m.folded = folds
  BY MessageFields
<1> HIDE DEF m
<1>2. Dispatch(s, m).folded = (s.folded \/ (m.seat = "me" /\ m.folded))
  BY <1>1, ActionFolds
<1>3. Dispatch(s, m).folded = ((mine = "folded") \/ (seat = "me" /\ folds))
  BY <1>1, <1>2, Zenon
<1>4. ((mine = "folded") \/ (seat = "me" /\ folds)) <=> (mine' = "folded")
  OBVIOUS
<1>5. QED
  BY <1>3, <1>4, Zenon DEF m

LEMMA BoardIsTrue ==
  ASSUME NEW s, IsView(s), ~Gone(s), hand \in Nat \ {NoHand}, street \in Nat,
         s.board = Board(hand, street)
  PROVE  Dispatch(s, DealCommunity(hand, street + 1)).board = Board(hand, street + 1)
<1> DEFINE m == DealCommunity(hand, street + 1)
<1>1. m.kind = "deal_community" /\ m.board = <<<<hand, street + 1>>>>
  BY MessageFields
<1>2. m.board # Null
  <2>1. <<<<hand, street + 1>>>>[1][1] = hand /\ Null[1][1] = NoHand
    BY DEF Null
  <2>2. QED
    BY <1>1, <2>1
<1> HIDE DEF m
<1>3. Dispatch(s, m).board = s.board \o m.board
  BY <1>1, <1>2, CommunityAdds
<1>4. QED
  BY <1>1, <1>3, BoardFacts DEF m

\* The effect of what a handler says first is the truth.
FirstIsTrue(s) ==
  ~Gone(s) => \A i \in DOMAIN out' : i = 1 => (out'[i].kind \in Adds =>
    \A part \in Changes[out'[i].kind] \ stale : Dispatch(s, out'[i])[part] = Word'[part])

\* All that has to be shown of a handler that speaks of the hand in play.
LEMMA Answers ==
  ASSUME NEW s, IsView(s), Sending(s), out = <<>>, UNCHANGED <<hand, stale, drops>>,
         out' \in Seq(Messages), Len(out') <= 5, InHand', Covered, FirstIsTrue(s),
         reopened \subseteq reopened',
         \A i \in DOMAIN out' : Proper(out'[i]) /\ (out'[i].kind \in Adds => i = 1)
  PROVE  Handled(s)
BY Continues DEF Handled, FirstIsTrue

\* How the variables go together after a handler within a hand.
LEMMA StaysInHand ==
  ASSUME InHand, hand # NoHand, UNCHANGED <<hand, hands>>,
         reopened \subseteq reopened', Over' => Loose(turn)' \/ (turn' = turn /\ Over)
  PROVE  InHand'
<1>1. Over /\ turn' = turn => Loose(turn)'
  BY DEF InHand, Loose
<1>2. QED
  BY <1>1 DEF InHand

\* The branches of maybeFinishStreetOrHand.
LEMMA GoingOn ==
  ASSUME InHand, hand # NoHand, UNCHANGED <<hand, hands>>, NEW before, NEW after,
         GoesOn(before, after)
  PROVE  /\ InHand' /\ reopened \subseteq reopened' /\ Over' = Over
         /\ toAct' \in Seats /\ turn' = Asked(toAct')
         /\ out' = before \o <<TableState(hand, street', mine'), ToAct(hand, toAct')>> \o after
<1>1. /\ UNCHANGED <<alone, shown>> /\ toAct' \in Askable(mine') /\ turn' = Asked(toAct')
      /\ reopened' = IF Over THEN reopened \cup {hand} ELSE reopened
      /\ out' = before \o <<TableState(hand, street', mine'), ToAct(hand, toAct')>> \o after
  BY DEF GoesOn, Handles
<1>2. reopened \subseteq reopened' /\ Over' = Over
  BY <1>1 DEF Over
<1>3. toAct' \in Seats
  BY <1>1 DEF Askable, Seats
<1>4. turn'.hand = hand
  BY <1>1 DEF Asked
<1>5. Over' => Loose(turn)'
  BY <1>1, <1>2, <1>4 DEF Loose
<1>6. InHand'
  BY <1>2, <1>5, StaysInHand
<1>7. QED
  BY <1>1, <1>2, <1>3, <1>6

LEMMA GoingOnArmed ==
  ASSUME InHand, hand # NoHand, UNCHANGED <<hand, hands>>, NEW before, GoesOnArmed(before)
  PROVE  /\ InHand' /\ reopened \subseteq reopened' /\ Over' = Over
         /\ toAct' \in Seats /\ turn' = turn
         /\ out' = before \o <<TableState(hand, street', mine')>>
<1>1. /\ UNCHANGED <<alone, shown, turn, reopened>> /\ toAct' \in Askable(mine')
      /\ out' = before \o <<TableState(hand, street', mine')>>
  BY DEF GoesOnArmed, Handles
<1>2. InHand'
  BY <1>1, StaysInHand DEF Over
<1>3. QED
  BY <1>1, <1>2 DEF Askable, Seats, Over

LEMMA ClosesRound ==
  ASSUME InHand, hand # NoHand, UNCHANGED <<hand, hands>>, NEW before, NEW after,
         Closes(before, after)
  PROVE  /\ InHand' /\ reopened \subseteq reopened' /\ Over' = Over /\ turn' = turn
         /\ out' = before \o after
<1>1. UNCHANGED <<alone, shown, turn, reopened>> /\ out' = before \o after
  BY DEF Closes, Handles
<1>2. InHand'
  BY <1>1, StaysInHand DEF Over
<1>3. QED
  BY <1>1, <1>2 DEF Over

LEMMA EndsByFolding ==
  ASSUME InHand, hand # NoHand, UNCHANGED <<hand, hands, street>>, NEW before, NEW after,
         FoldsOut(before, after)
  PROVE  /\ InHand' /\ reopened \subseteq reopened' /\ Over' /\ turn' = NoTurn
         /\ \E board \in {Board(hand, street'), Null} :
              out' = before \o <<Showdown(hand, board), HandEnd(hand)>> \o after
<1>1. /\ alone' = TRUE /\ UNCHANGED <<shown, reopened>> /\ turn' = NoTurn
      /\ \E board \in {Board(hand, street'), Null} :
           out' = before \o <<Showdown(hand, board), HandEnd(hand)>> \o after
  BY DEF FoldsOut, Handles
<1>2. InHand'
  BY <1>1, StaysInHand DEF Loose
<1>3. QED
  BY <1>1, <1>2 DEF Over

LEMMA Settling ==
  ASSUME InHand, hand # NoHand, UNCHANGED <<hand, hands>>, NEW before,
         SettleAndBroadcast(before)
  PROVE  /\ InHand' /\ reopened \subseteq reopened' /\ Over' /\ turn' = NoTurn
         /\ out' = before \o <<PotUpdate(hand), Showdown(hand, Board(hand, street')),
                               HandEnd(hand)>>
<1>1. /\ shown' = TRUE /\ UNCHANGED <<alone, reopened>> /\ turn' = NoTurn
      /\ out' = before \o <<PotUpdate(hand), Showdown(hand, Board(hand, street')),
                            HandEnd(hand)>>
  BY DEF SettleAndBroadcast, Handles
<1>2. InHand'
  BY <1>1, StaysInHand DEF Loose
<1>3. QED
  BY <1>1, <1>2 DEF Over

LEMMA ActSends ==
  ASSUME NEW s, IsView(s), Typed, InHand, Sending(s), Act
  PROVE  Handled(s)
<1>1. PICK folds \in BOOLEAN :
        LET before == <<Applied(hand, toAct, folds), PotUpdate(hand)>>
        IN  /\ mine' = IF toAct = "me" /\ folds THEN "folded" ELSE mine
            /\ \/ GoesOn(before, <<>>)
               \/ GoesOnArmed(before)
               \/ Closes(before, <<>>) /\ toAct' \in {"none", toAct}
               \/ FoldsOut(before, <<>>) /\ toAct' \in {"none", toAct}
  BY DEF Act
<1> DEFINE a == Applied(hand, toAct, folds)
           p == PotUpdate(hand)
           t == TableState(hand, street', mine')
           c == ToAct(hand, toAct')
           e == HandEnd(hand)
<1>2. /\ hand \in Nat \ {NoHand} /\ street \in Nat /\ toAct \in Seats
      /\ hands = hand
      /\ hand' = hand /\ hands' = hands /\ street' = street /\ dealt' = dealt
  BY TypeFacts DEF Act, InHand, Seats, NoHand
<1>3. /\ out = <<>> /\ UNCHANGED <<chan, view, stale, drops>>
      /\ toAct' \in Seats \cup {"none"}
  BY <1>1, <1>2 DEF GoesOn, GoesOnArmed, Closes, FoldsOut, Handles, Askable, Seats
<1>4. /\ Proper(a) /\ Proper(p) /\ Proper(t)
      /\ turn' = Asked(toAct') /\ toAct' # "none" => Proper(c)
      /\ turn' = NoTurn => Proper(e)
  BY <1>2, <1>3, ProperWords
<1>5. /\ a.kind = "action_applied" /\ p.kind = "pot_update" /\ t.kind = "table_state"
      /\ c.kind = "to_act" /\ e.kind = "hand_end"
  BY MessageFields
<1>6. ~Gone(s) => \A part \in {"folded"} \ stale : Dispatch(s, a)[part] = Word'[part]
  <2>1. SUFFICES ASSUME ~Gone(s), "folded" \notin stale
                 PROVE  Dispatch(s, a).folded = Word'.folded
    OBVIOUS
  <2>2. s.folded = (mine = "folded")
    BY <1>3, <2>1, HandlerFinds, TruthFacts DEF Parts
  <2>3. Dispatch(s, a).folded = (mine' = "folded")
    BY <1>1, <2>1, <2>2, FoldIsTrue
  <2>4. QED
    BY <2>3, TruthFactsPrime
<1>7. /\ Word'.hand = Word.hand /\ Word'.board = Word.board /\ Word'.hole = Word.hole
      /\ Over' = Over => Word'.showdown = Word.showdown
      /\ turn' = turn => Word'.turn = Word.turn
  BY <1>2, SameTruth
<1>8. CASE GoesOn(<<a, p>>, <<>>)
  <2>1. /\ InHand' /\ reopened \subseteq reopened' /\ Over' = Over
        /\ out' = <<a, p>> \o <<t, c>> \o <<>> /\ Proper(c)
    <3>1. /\ InHand' /\ reopened \subseteq reopened' /\ Over' = Over
          /\ toAct' \in Seats /\ turn' = Asked(toAct')
          /\ out' = <<a, p>> \o <<t, c>> \o <<>>
      BY <1>2, <1>8, GoingOn
    <3>2. toAct' # "none"
      BY <3>1 DEF Seats
    <3>3. QED
      BY <1>4, <3>1, <3>2
  <2> HIDE DEF a, p, t, c
  <2>2. out' = <<a, p, t, c>>
    BY <1>4, <2>1, TwoAndTwo, ConcatEmptySeq DEF Proper
  <2>3. out' \in Seq(Messages) /\ Len(out') <= 5 /\ DOMAIN out' = 1..4
    BY <1>4, <2>1, <2>2 DEF Proper
  <2>4. \A i \in DOMAIN out' : Proper(out'[i]) /\ (out'[i].kind \in Adds => i = 1)
    BY <1>4, <1>5, <2>1, <2>2, <2>3 DEF Adds
  <2>5. FirstIsTrue(s)
    BY <1>5, <2>2, <1>6, <2>3, KindFacts DEF FirstIsTrue, Adds
  <2>6. Covered
    BY <1>5, <1>7, <2>1, <2>2, <2>3, KindFacts DEF Covered, Parts
  <2>7. QED
    BY <1>2, <1>3, <2>1, <2>2, <2>3, <2>4, <2>5, <2>6, Answers
<1>9. CASE GoesOnArmed(<<a, p>>)
  <2>1. /\ InHand' /\ reopened \subseteq reopened' /\ Over' = Over /\ turn' = turn
        /\ out' = <<a, p>> \o <<t>>
    BY <1>2, <1>9, GoingOnArmed
  <2> HIDE DEF a, p, t
  <2>2. out' = <<a, p, t>>
    BY <2>1, TwoAndOne
  <2>3. out' \in Seq(Messages) /\ Len(out') <= 5 /\ DOMAIN out' = 1..3
    BY <1>4, <2>1, <2>2 DEF Proper
  <2>4. \A i \in DOMAIN out' : Proper(out'[i]) /\ (out'[i].kind \in Adds => i = 1)
    BY <1>4, <1>5, <2>1, <2>2, <2>3 DEF Adds
  <2>5. FirstIsTrue(s)
    BY <1>5, <2>2, <1>6, <2>3, KindFacts DEF FirstIsTrue, Adds
  <2>6. Covered
    BY <1>5, <1>7, <2>1, <2>2, <2>3, KindFacts DEF Covered, Parts
  <2>7. QED
    BY <1>2, <1>3, <2>1, <2>2, <2>3, <2>4, <2>5, <2>6, Answers
<1>10. CASE Closes(<<a, p>>, <<>>)
  <2>1. /\ InHand' /\ reopened \subseteq reopened' /\ Over' = Over /\ turn' = turn
        /\ out' = <<a, p>> \o <<>>
    BY <1>2, <1>10, ClosesRound
  <2> HIDE DEF a, p
  <2>2. out' = <<a, p>>
    BY <1>4, <2>1, ConcatEmptySeq DEF Proper
  <2>3. out' \in Seq(Messages) /\ Len(out') <= 5 /\ DOMAIN out' = 1..2
    BY <1>4, <2>1, <2>2 DEF Proper
  <2>4. \A i \in DOMAIN out' : Proper(out'[i]) /\ (out'[i].kind \in Adds => i = 1)
    BY <1>4, <1>5, <2>1, <2>2, <2>3 DEF Adds
  <2>5. FirstIsTrue(s)
    BY <1>5, <2>2, <1>6, <2>3, KindFacts DEF FirstIsTrue, Adds
  <2>6. Covered
    BY <1>5, <1>7, <2>1, <2>2, <2>3, KindFacts DEF Covered, Parts
  <2>7. QED
    BY <1>2, <1>3, <2>1, <2>2, <2>3, <2>4, <2>5, <2>6, Answers
<1>11. CASE FoldsOut(<<a, p>>, <<>>)
  <2>1. PICK board \in {Board(hand, street'), Null} :
          /\ InHand' /\ reopened \subseteq reopened' /\ Over' /\ turn' = NoTurn
          /\ out' = <<a, p>> \o <<Showdown(hand, board), e>> \o <<>>
    BY <1>2, <1>11, EndsByFolding
  <2> DEFINE d == Showdown(hand, board)
  <2>2. Proper(d) /\ Proper(e) /\ d.kind = "showdown"
    BY <1>2, <1>3, <1>4, <2>1, ProperWords, MessageFields
  <2>3. out' = <<a, p>> \o <<d, e>> \o <<>>
    BY <2>1
  <2> HIDE DEF a, p, d, e
  <2>4. out' = <<a, p, d, e>>
    BY <1>4, <2>2, <2>3, TwoAndTwo, ConcatEmptySeq DEF Proper
  <2>5. out' \in Seq(Messages) /\ Len(out') <= 5 /\ DOMAIN out' = 1..4
    BY <1>4, <2>1, <2>4, <2>2 DEF Proper
  <2>6. \A i \in DOMAIN out' : Proper(out'[i]) /\ (out'[i].kind \in Adds => i = 1)
    BY <1>4, <1>5, <2>1, <2>4, <2>2, <2>5 DEF Adds
  <2>7. FirstIsTrue(s)
    BY <1>5, <2>4, <2>2, <1>6, <2>5, KindFacts DEF FirstIsTrue, Adds
  <2>8. Covered
    BY <1>5, <1>7, <2>1, <2>4, <2>2, <2>5, KindFacts DEF Covered, Parts
  <2>9. QED
    BY <1>2, <1>3, <2>1, <2>4, <2>2, <2>5, <2>6, <2>7, <2>8, Answers
<1>12. QED
  BY <1>1, <1>8, <1>9, <1>10, <1>11

LEMMA OtherLeavesSends ==
  ASSUME NEW s, IsView(s), Typed, InHand, Sending(s), OtherLeaves
  PROVE  Handled(s)
<1> DEFINE t == TableState(hand, street', mine')
           c == ToAct(hand, toAct')
           e == HandEnd(hand)
<1>1. LET after == <<TableState(hand, street, mine)>>
      IN  \/ GoesOn(<<>>, after)
          \/ Closes(<<>>, after) /\ toAct' \in {toAct} \cup Actors(mine)
          \/ FoldsOut(<<>>, after) /\ toAct' \in {toAct} \cup Actors(mine)
  BY DEF OtherLeaves
<1>2. /\ hand \in Nat \ {NoHand} /\ street \in Nat /\ toAct \in Seats \cup {"none"}
      /\ hands = hand /\ mine' = mine
      /\ hand' = hand /\ hands' = hands /\ street' = street /\ dealt' = dealt
  BY TypeFacts DEF OtherLeaves, InHand, NoHand
<1>3. /\ out = <<>> /\ UNCHANGED <<chan, view, stale, drops>>
      /\ toAct' \in Seats \cup {"none"}
  BY <1>1, <1>2 DEF GoesOn, Closes, FoldsOut, Handles, Actors, Askable, Seats
<1>4. /\ Proper(t)
      /\ turn' = Asked(toAct') /\ toAct' # "none" => Proper(c)
      /\ turn' = NoTurn => Proper(e)
  BY <1>2, <1>3, ProperWords
<1>5. t.kind = "table_state" /\ c.kind = "to_act" /\ e.kind = "hand_end"
  BY MessageFields
<1>6. t = TableState(hand, street, mine)
  BY <1>2
<1>7. /\ Word'.hand = Word.hand /\ Word'.board = Word.board /\ Word'.hole = Word.hole
      /\ Word'.folded = Word.folded
      /\ Over' = Over => Word'.showdown = Word.showdown
      /\ turn' = turn => Word'.turn = Word.turn
  BY <1>2, SameTruth
<1>8. CASE GoesOn(<<>>, <<t>>)
  <2>1. /\ InHand' /\ reopened \subseteq reopened' /\ Over' = Over
        /\ out' = <<>> \o <<t, c>> \o <<t>> /\ Proper(c)
    <3>1. /\ InHand' /\ reopened \subseteq reopened' /\ Over' = Over
          /\ toAct' \in Seats /\ turn' = Asked(toAct')
          /\ out' = <<>> \o <<t, c>> \o <<t>>
      BY <1>2, <1>8, GoingOn
    <3>2. toAct' # "none"
      BY <3>1 DEF Seats
    <3>3. QED
      BY <1>4, <3>1, <3>2
  <2> HIDE DEF t, c
  <2>2. out' = <<t, c, t>>
    BY <1>4, <2>1, ConcatEmptySeq, TwoAndOne DEF Proper
  <2>3. out' \in Seq(Messages) /\ Len(out') <= 5 /\ DOMAIN out' = 1..3
    BY <1>4, <2>1, <2>2 DEF Proper
  <2>4. \A i \in DOMAIN out' : Proper(out'[i]) /\ (out'[i].kind \in Adds => i = 1)
    BY <1>4, <1>5, <2>1, <2>2, <2>3 DEF Adds
  <2>5. FirstIsTrue(s)
    BY <1>5, <2>2, <2>3, KindFacts DEF FirstIsTrue, Adds
  <2>6. Covered
    BY <1>5, <1>7, <2>1, <2>2, <2>3, KindFacts DEF Covered, Parts
  <2>7. QED
    BY <1>2, <1>3, <2>1, <2>2, <2>3, <2>4, <2>5, <2>6, Answers
<1>9. CASE Closes(<<>>, <<t>>)
  <2>1. /\ InHand' /\ reopened \subseteq reopened' /\ Over' = Over /\ turn' = turn
        /\ out' = <<>> \o <<t>>
    BY <1>2, <1>9, ClosesRound
  <2> HIDE DEF t
  <2>2. out' = <<t>>
    BY <1>4, <2>1, ConcatEmptySeq DEF Proper
  <2>3. out' \in Seq(Messages) /\ Len(out') <= 5 /\ DOMAIN out' = 1..1
    BY <1>4, <2>1, <2>2 DEF Proper
  <2>4. \A i \in DOMAIN out' : Proper(out'[i]) /\ (out'[i].kind \in Adds => i = 1)
    BY <1>4, <1>5, <2>1, <2>2, <2>3 DEF Adds
  <2>5. FirstIsTrue(s)
    BY <1>5, <2>2, <2>3, KindFacts DEF FirstIsTrue, Adds
  <2>6. Covered
    BY <1>5, <1>7, <2>1, <2>2, <2>3, KindFacts DEF Covered, Parts
  <2>7. QED
    BY <1>2, <1>3, <2>1, <2>2, <2>3, <2>4, <2>5, <2>6, Answers
<1>10. CASE FoldsOut(<<>>, <<t>>)
  <2>1. PICK board \in {Board(hand, street'), Null} :
          /\ InHand' /\ reopened \subseteq reopened' /\ Over' /\ turn' = NoTurn
          /\ out' = <<>> \o <<Showdown(hand, board), e>> \o <<t>>
    BY <1>2, <1>10, EndsByFolding
  <2> DEFINE d == Showdown(hand, board)
  <2>2. Proper(d) /\ Proper(e) /\ d.kind = "showdown"
    BY <1>2, <1>3, <1>4, <2>1, ProperWords, MessageFields
  <2>3. out' = <<>> \o <<d, e>> \o <<t>>
    BY <2>1
  <2> HIDE DEF d, e, t
  <2>4. out' = <<d, e, t>>
    BY <1>4, <2>2, <2>3, ConcatEmptySeq, TwoAndOne DEF Proper
  <2>5. out' \in Seq(Messages) /\ Len(out') <= 5 /\ DOMAIN out' = 1..3
    BY <1>4, <2>1, <2>4, <2>2 DEF Proper
  <2>6. \A i \in DOMAIN out' : Proper(out'[i]) /\ (out'[i].kind \in Adds => i = 1)
    BY <1>4, <1>5, <2>1, <2>4, <2>2, <2>5 DEF Adds
  <2>7. FirstIsTrue(s)
    BY <1>5, <2>4, <2>2, <2>5, KindFacts DEF FirstIsTrue, Adds
  <2>8. Covered
    BY <1>5, <1>7, <2>1, <2>4, <2>2, <2>5, KindFacts DEF Covered, Parts
  <2>9. QED
    BY <1>2, <1>3, <2>1, <2>4, <2>2, <2>5, <2>6, <2>7, <2>8, Answers
<1>11. QED
  BY <1>1, <1>6, <1>8, <1>9, <1>10

LEMMA AdvanceSends ==
  ASSUME NEW s, IsView(s), Typed, InHand, Sending(s), AdvanceStreet
  PROVE  Handled(s)
<1> DEFINE p == PotUpdate(hand)
           t == TableState(hand, street', mine')
           c == ToAct(hand, toAct')
           d == Showdown(hand, Board(hand, street'))
           e == HandEnd(hand)
<1>1. /\ hand \in Nat \ {NoHand} /\ street \in Nat /\ toAct \in Seats \cup {"none"}
      /\ hands = hand /\ mine' = mine
      /\ hand' = hand /\ hands' = hands /\ dealt' = dealt
  BY TypeFacts DEF AdvanceStreet, InHand, NoHand
<1>2. \/ shown /\ street' = street /\ Reopens(<<DealNothing(hand)>>)
      \/ street' = street + 1 /\ Reopens(<<DealCommunity(hand, street')>>)
      \/ street' = street /\ toAct' = toAct /\ SettleAndBroadcast(<<>>)
  BY DEF AdvanceStreet
<1>3. /\ out = <<>> /\ UNCHANGED <<chan, view, stale, drops>>
      /\ toAct' \in Seats \cup {"none"} /\ street' \in Nat
  <2>1. \A cards : Reopens(cards) =>
          /\ out = <<>> /\ UNCHANGED <<chan, view, stale, drops>>
          /\ toAct' \in Seats \cup {"none"}
    BY DEF Reopens, GoesOn, GoesOnArmed, SettleAndBroadcast, Handles, Actors, Askable, Seats
  <2>2. \A cards : SettleAndBroadcast(cards) =>
          out = <<>> /\ UNCHANGED <<chan, view, stale, drops>>
    BY DEF SettleAndBroadcast, Handles
  <2>3. street' \in Nat
    BY <1>1, <1>2
  <2>4. QED
    BY <1>1, <1>2, <2>1, <2>2, <2>3
<1>4. /\ Proper(p) /\ Proper(t)
      /\ turn' = Asked(toAct') /\ toAct' # "none" => Proper(c)
      /\ turn' = NoTurn => Proper(e)
      /\ Over' => Proper(d)
      /\ Proper(DealNothing(hand)) /\ Proper(DealCommunity(hand, street'))
  BY <1>1, <1>3, ProperWords
<1>5. /\ p.kind = "pot_update" /\ t.kind = "table_state"
      /\ c.kind = "to_act" /\ d.kind = "showdown" /\ e.kind = "hand_end"
  BY MessageFields
<1>6. /\ Word'.hand = Word.hand /\ Word'.hole = Word.hole
      /\ Word'.folded = Word.folded
      /\ street' = street => Word'.board = Word.board
      /\ Over' = Over => Word'.showdown = Word.showdown
      /\ turn' = turn => Word'.turn = Word.turn
  BY <1>1, SameTruth
<1>7. CASE street' = street /\ toAct' = toAct /\ SettleAndBroadcast(<<>>)
  <2>1. /\ InHand' /\ reopened \subseteq reopened' /\ Over' /\ turn' = NoTurn
        /\ out' = <<>> \o <<p, d, e>>
    BY <1>1, <1>7, Settling
  <2>2. Proper(p) /\ Proper(d) /\ Proper(e)
    BY <1>4, <2>1
  <2> HIDE DEF p, d, e
  <2>3. out' = <<p, d, e>>
    BY <2>1, <2>2, ConcatEmptySeq DEF Proper
  <2>4. out' \in Seq(Messages) /\ Len(out') <= 5 /\ DOMAIN out' = 1..3
    BY <1>4, <2>1, <2>3, <2>2, <1>7 DEF Proper
  <2>5. \A i \in DOMAIN out' : Proper(out'[i]) /\ (out'[i].kind \in Adds => i = 1)
    BY <1>4, <1>5, <2>1, <2>3, <2>2, <1>7, <2>4 DEF Adds
  <2>6. FirstIsTrue(s)
    BY <1>5, <2>3, <2>2, <1>7, <2>4, KindFacts DEF FirstIsTrue, Adds
  <2>7. Covered
    BY <1>5, <1>6, <2>1, <2>3, <2>2, <1>7, <2>4, KindFacts DEF Covered, Parts
  <2>8. QED
    BY <1>1, <1>3, <2>1, <2>3, <2>2, <1>7, <2>4, <2>5, <2>6, <2>7, Answers
\* The cards the street brings, or none.
<1>8. ASSUME NEW b, Proper(b), b.kind = "deal_community", Reopens(<<b>>),
             street' \in {street, street + 1},
             ~Gone(s) => \A part \in {"board"} \ stale : Dispatch(s, b)[part] = Word'[part]
      PROVE  Handled(s)
  <2>1. \/ GoesOn(<<b>>, <<>>)
        \/ GoesOnArmed(<<b>>)
        \/ Handles(<<b>>) /\ UNCHANGED <<shown, alone, turn, reopened>>
        \/ SettleAndBroadcast(<<b>>)
    BY <1>8 DEF Reopens
  <2>2. CASE GoesOn(<<b>>, <<>>)
    <3>1. /\ InHand' /\ reopened \subseteq reopened' /\ Over' = Over
          /\ out' = <<b>> \o <<t, c>> \o <<>> /\ Proper(c)
      <4>1. /\ InHand' /\ reopened \subseteq reopened' /\ Over' = Over
            /\ toAct' \in Seats /\ turn' = Asked(toAct')
            /\ out' = <<b>> \o <<t, c>> \o <<>>
        BY <1>1, <2>2, GoingOn
      <4>2. toAct' # "none"
        BY <4>1 DEF Seats
      <4>3. QED
        BY <1>4, <4>1, <4>2
    <3> HIDE DEF t, c
    <3>2. out' = <<b, t, c>>
      BY <1>4, <1>8, <3>1, OneAndTwo, ConcatEmptySeq DEF Proper
    <3>3. out' \in Seq(Messages) /\ Len(out') <= 5 /\ DOMAIN out' = 1..3
      BY <1>4, <3>1, <3>2, <1>8 DEF Proper
    <3>4. \A i \in DOMAIN out' : Proper(out'[i]) /\ (out'[i].kind \in Adds => i = 1)
      BY <1>4, <1>5, <3>1, <3>2, <1>8, <3>3 DEF Adds
    <3>5. FirstIsTrue(s)
      BY <1>5, <3>2, <1>8, <3>3, KindFacts DEF FirstIsTrue, Adds
    <3>6. Covered
      BY <1>5, <1>6, <3>1, <3>2, <1>8, <3>3, KindFacts DEF Covered, Parts
    <3>7. QED
      BY <1>1, <1>3, <3>1, <3>2, <1>8, <3>3, <3>4, <3>5, <3>6, Answers
  <2>3. CASE GoesOnArmed(<<b>>)
    <3>1. /\ InHand' /\ reopened \subseteq reopened' /\ Over' = Over /\ turn' = turn
          /\ out' = <<b>> \o <<t>>
      BY <1>1, <2>3, GoingOnArmed
    <3> HIDE DEF t
    <3>2. out' = <<b, t>>
      BY <3>1, OneAndOne
    <3>3. out' \in Seq(Messages) /\ Len(out') <= 5 /\ DOMAIN out' = 1..2
      BY <1>4, <3>1, <3>2, <1>8 DEF Proper
    <3>4. \A i \in DOMAIN out' : Proper(out'[i]) /\ (out'[i].kind \in Adds => i = 1)
      BY <1>4, <1>5, <3>1, <3>2, <1>8, <3>3 DEF Adds
    <3>5. FirstIsTrue(s)
      BY <1>5, <3>2, <1>8, <3>3, KindFacts DEF FirstIsTrue, Adds
    <3>6. Covered
      BY <1>5, <1>6, <3>1, <3>2, <1>8, <3>3, KindFacts DEF Covered, Parts
    <3>7. QED
      BY <1>1, <1>3, <3>1, <3>2, <1>8, <3>3, <3>4, <3>5, <3>6, Answers
  <2>4. CASE Handles(<<b>>) /\ UNCHANGED <<shown, alone, turn, reopened>>
    <3>1. /\ Over' = Over /\ turn' = turn /\ reopened' = reopened
      BY <2>4 DEF Over
    <3>2. out' = <<b>>
      BY <2>4 DEF Handles
    <3>3. InHand'
      BY <1>1, <3>1, StaysInHand
    <3>4. out' \in Seq(Messages) /\ Len(out') <= 5 /\ DOMAIN out' = 1..1
      BY <1>4, <3>1, <3>2, <3>3, <1>8 DEF Proper
    <3>5. \A i \in DOMAIN out' : Proper(out'[i]) /\ (out'[i].kind \in Adds => i = 1)
      BY <1>4, <1>5, <3>1, <3>2, <3>3, <1>8, <3>4 DEF Adds
    <3>6. FirstIsTrue(s)
      BY <1>5, <3>2, <3>3, <1>8, <3>4, KindFacts DEF FirstIsTrue, Adds
    <3>7. Covered
      BY <1>5, <1>6, <3>1, <3>2, <3>3, <1>8, <3>4, KindFacts DEF Covered, Parts
    <3>8. QED
      BY <1>1, <1>3, <3>1, <3>2, <3>3, <1>8, <3>4, <3>5, <3>6, <3>7, Answers
  <2>5. CASE SettleAndBroadcast(<<b>>)
    <3>1. /\ InHand' /\ reopened \subseteq reopened' /\ Over' /\ turn' = NoTurn
          /\ out' = <<b>> \o <<p, d, e>>
      BY <1>1, <2>5, Settling
    <3>2. Proper(p) /\ Proper(d) /\ Proper(e)
      BY <1>4, <3>1
    <3> HIDE DEF p, d, e
    <3>3. out' = <<b, p, d, e>>
      BY <3>1, OneAndThree
    <3>4. out' \in Seq(Messages) /\ Len(out') <= 5 /\ DOMAIN out' = 1..4
      BY <1>4, <3>1, <3>3, <3>2, <1>8 DEF Proper
    <3>5. \A i \in DOMAIN out' : Proper(out'[i]) /\ (out'[i].kind \in Adds => i = 1)
      BY <1>4, <1>5, <3>1, <3>3, <3>2, <1>8, <3>4 DEF Adds
    <3>6. FirstIsTrue(s)
      BY <1>5, <3>3, <3>2, <1>8, <3>4, KindFacts DEF FirstIsTrue, Adds
    <3>7. Covered
      BY <1>5, <1>6, <3>1, <3>3, <3>2, <1>8, <3>4, KindFacts DEF Covered, Parts
    <3>8. QED
      BY <1>1, <1>3, <3>1, <3>3, <3>2, <1>8, <3>4, <3>5, <3>6, <3>7, Answers
  <2>6. QED
    BY <2>1, <2>2, <2>3, <2>4, <2>5
<1>9. CASE shown /\ street' = street /\ Reopens(<<DealNothing(hand)>>)
  <2> DEFINE b == DealNothing(hand)
  <2>1. b.kind = "deal_community" /\ b.board = Null /\ Proper(b)
    BY <1>4, MessageFields
  <2>2. Reopens(<<b>>)
    BY <1>9
  <2> HIDE DEF b
  <2>3. ~Gone(s) => \A part \in {"board"} \ stale : Dispatch(s, b)[part] = Word'[part]
    <3>1. SUFFICES ASSUME ~Gone(s), "board" \notin stale
                   PROVE  Dispatch(s, b).board = Word'.board
      OBVIOUS
    <3>2. s.board = Word.board
      BY <1>3, <3>1, HandlerFinds DEF Parts
    <3>3. QED
      BY <1>6, <1>9, <2>1, <3>1, <3>2, CommunityAdds
  <2>4. QED
    BY <1>8, <1>9, <2>1, <2>2, <2>3
<1>10. CASE street' = street + 1 /\ Reopens(<<DealCommunity(hand, street')>>)
  <2> DEFINE b == DealCommunity(hand, street')
  <2>1. b.kind = "deal_community" /\ Proper(b)
    BY <1>4, MessageFields
  <2>2. Reopens(<<b>>)
    BY <1>10
  <2>3. ~Gone(s) => \A part \in {"board"} \ stale : Dispatch(s, b)[part] = Word'[part]
    <3>1. SUFFICES ASSUME ~Gone(s), "board" \notin stale
                   PROVE  Dispatch(s, b).board = Word'.board
      OBVIOUS
    <3>2. s.board = Board(hand, street)
      BY <1>3, <3>1, HandlerFinds, TruthFacts DEF Parts
    <3>3. Dispatch(s, b).board = Board(hand, street')
      BY <1>1, <1>10, <3>1, <3>2, BoardIsTrue
    <3>4. QED
      BY <1>1, <3>3, TruthFactsPrime
  <2> HIDE DEF b
  <2>4. QED
    BY <1>8, <1>10, <2>1, <2>2, <2>3
<1>11. QED
  BY <1>2, <1>7, <1>9, <1>10

\* The snapshot after the hand shows a table without one.
LEMMA EndHandSends ==
  ASSUME NEW s, IsView(s), Typed, InHand, Sending(s), EndHand
  PROVE  Handled(s)
<1> DEFINE t == TableState(NoHand, 0, "out")
<1>1. /\ out = <<>> /\ out' = <<t>> /\ UNCHANGED <<chan, view, stale, drops, reopened>>
      /\ hand' = NoHand /\ street' = 0 /\ shown' = FALSE /\ alone' = FALSE /\ mine' = "out"
      /\ hands' = hands /\ turn' = turn /\ toAct' = "none" /\ advances' = 0
      /\ dealt' = dealt /\ Over
  BY DEF EndHand, Handles
<1>2. hand = hands /\ hand # NoHand /\ Loose(turn) /\ InHand' /\ ~Over'
  BY <1>1 DEF InHand, Loose, Over
<1>3. t \in Messages /\ Honest(t, Word')
  BY <1>1, MessageFacts, StateIsHonest, TruthFactsPrime DEF NoHand
<1>4. t.kind = "table_state" /\ t.hand = NoHand
  BY MessageFields
<1> HIDE DEF t
<1>5. out' \in Seq(Messages) /\ Len(out') <= 5 /\ DOMAIN out' = {1} /\ out'[1] = t
  BY <1>1, <1>3
<1>6. Truthful'
  BY <1>3, <1>5 DEF Truthful, Honest
<1>7. Word'.turn = turn /\ Word.turn = turn
  BY <1>1, TruthFacts, TruthFactsPrime
<1>8. ASSUME ~Gone(s) PROVE Repairs(s)'
  <2>1. Word'.hole = Word.hole /\ Word'.showdown = Word.showdown
    BY <1>1, <1>2, TruthFacts, TruthFactsPrime
  <2>2. ASSUME NEW part \in Parts \ stale', Silent(part)' PROVE s[part] = Word'[part]
    <3>1. part \in {"hole", "turn", "showdown"}
      BY <1>4, <1>5, <2>2, KindFacts DEF Silent, Parts
    <3>2. s[part] = Word[part]
      BY <1>1, <1>8, <2>2, HandlerFinds
    <3>3. QED
      BY <1>7, <2>1, <3>1, <3>2
  <2>3. QED
    BY <1>4, <1>5, <2>2 DEF Repairs, Adds
<1>9. ASSUME ~Gone(s), drops' = 0 PROVE InContext(s)'
  <2>1. stale' \subseteq {"turn", "showdown"} /\ ("turn" \in stale' => s.turn = NoTurn)
    BY <1>1, <1>9, HandlerFinds
  <2>2. s.turn = NoTurn \/ s.turn = turn
    BY <1>1, <1>7, <1>9, <2>1, HandlerFinds DEF Parts
  <2>3. Loose(s.turn)'
    BY <1>1, <1>2, <2>2 DEF Loose
  <2>4. QED
    BY <1>1, <1>4, <1>5, <2>1, <2>3 DEF InContext
<1>10. QED
  BY <1>1, <1>2, <1>5, <1>6, <1>8, <1>9 DEF Handled, Sending

LEMMA SnapshotSends ==
  ASSUME NEW s, IsView(s), Typed, InHand, Sending(s), Snapshot
  PROVE  Handled(s)
<1> DEFINE t == TableState(hand, street', mine')
<1>1. /\ out = <<>> /\ out' = <<t>> /\ UNCHANGED <<chan, view, stale, drops>>
      /\ UNCHANGED table
  BY DEF Snapshot, Handles, table
<1>2. /\ UNCHANGED <<hand, hands, street, shown, alone, toAct, advances, turn, mine, dealt>>
      /\ reopened' = reopened
  BY <1>1 DEF table
<1>3. InHand' /\ hand \in Nat /\ street' \in Nat /\ toAct' \in Seats \cup {"none"} /\ Over' = Over
  BY <1>2, TypeFacts DEF InHand, Over, Loose
<1>4. Proper(t) /\ t.kind = "table_state"
  BY <1>2, <1>3, ProperWords, MessageFields
<1> HIDE DEF t
<1>5. out' \in Seq(Messages) /\ Len(out') <= 5 /\ DOMAIN out' = {1} /\ out'[1] = t
  BY <1>1, <1>4 DEF Proper
<1>6. Covered
  BY <1>2, <1>3, SameTruth DEF Covered, Parts
<1>7. FirstIsTrue(s)
  BY <1>4, <1>5 DEF FirstIsTrue, Adds
<1>8. \A i \in DOMAIN out' : Proper(out'[i]) /\ (out'[i].kind \in Adds => i = 1)
  BY <1>4, <1>5 DEF Adds
<1>9. QED
  BY <1>1, <1>2, <1>3, <1>5, <1>6, <1>7, <1>8, Answers

\* A new hand: its first message clears what the view shows of the last one.
LEMMA StartHandSends ==
  ASSUME NEW s, IsView(s), Typed, InHand, Sending(s), StartHand
  PROVE  Handled(s)
<1> DEFINE h == hand'
           a == HandStart(h)
           b == DealHole(h)
           t == TableState(h, 0, mine')
           c == ToAct(h, toAct')
<1>1. /\ hand = NoHand /\ hand' = hands + 1 /\ hands' = hands + 1 /\ street' = 0
      /\ UNCHANGED <<shown, alone, reopened>>
      /\ mine' \in {"out", "in"} /\ dealt' = (mine' = "in") /\ toAct' \in Askable(mine')
      /\ turn' = [hand |-> h, seat |-> toAct']
  BY DEF StartHand
<1>2. /\ out = <<>> /\ UNCHANGED <<chan, view, stale, drops>>
      /\ out' = <<a>> \o (IF dealt' THEN <<b>> ELSE <<>>) \o <<t, c>>
  BY DEF StartHand, Handles
<1>3. h \in Nat \ {NoHand} /\ toAct' \in Seats /\ ~Over' /\ InHand' /\ Loose(turn)
  BY <1>1, TypeFacts DEF Askable, Seats, InHand, Over, NoHand
<1>4. /\ Word'.hand = h /\ Word'.board = <<>> /\ Word'.showdown = NoHand
      /\ Word'.turn = [hand |-> h, seat |-> toAct']
      /\ dealt' => Word'.hole = h
      /\ ~dealt' => Word'.hole = NoHand
  BY <1>1, <1>3, TruthFactsPrime, BoardFacts
<1>5. /\ a \in Messages /\ b \in Messages /\ t \in Messages /\ c \in Messages
      /\ a.kind = "hand_start" /\ b.kind = "deal_hole" /\ t.kind = "table_state"
      /\ c.kind = "to_act"
      /\ a.hand = h /\ b.hand = h /\ t.hand = h /\ c.hand = h
  BY <1>3, MessageFacts, MessageFields
<1>6. /\ \A part \in Decides("hand_start") \ {"hole"} : Tells(a, part, Word')
      /\ ~dealt' => Tells(a, "hole", Word')
  BY <1>4, StartIsHonest
<1>7. Honest(t, Word')
  BY <1>1, StateIsHonest, TruthFactsPrime
<1>8. Honest(c, Word')
  BY <1>4, TurnIsHonest
<1>9. dealt' => Honest(b, Word')
  BY <1>4, HoleIsHonest
<1>10. ~Gone(s) /\ drops = 0 =>
         /\ Loose(s.turn)' /\ stale' \subseteq {"turn", "showdown"}
         /\ "turn" \in stale' => s.turn = NoTurn
  <2>1. SUFFICES ASSUME ~Gone(s), drops = 0
                 PROVE  /\ Loose(s.turn)' /\ stale' \subseteq {"turn", "showdown"}
                        /\ "turn" \in stale' => s.turn = NoTurn
    OBVIOUS
  <2>2. stale \subseteq {"turn", "showdown"} /\ ("turn" \in stale => s.turn = NoTurn)
    BY <1>2, <2>1, HandlerFinds
  <2>3. "turn" \notin stale => s.turn = turn
    BY <1>2, <2>1, HandlerFinds, TruthFacts DEF Parts
  <2>4. QED
    BY <1>1, <1>2, <1>3, <2>2, <2>3 DEF Loose
<1> HIDE DEF a, b, t, c
<1>11. /\ dealt' => out' = <<a, b, t, c>>
       /\ ~dealt' => out' = <<a, t, c>>
  <2>1. <<a>> \in Seq(Messages) /\ <<a, b>> \in Seq(Messages)
    BY <1>5
  <2>2. dealt' => out' = <<a>> \o <<b>> \o <<t, c>>
    BY <1>2
  <2>3. ~dealt' => out' = <<a>> \o <<>> \o <<t, c>>
    BY <1>2
  <2>4. QED
    BY <2>1, <2>2, <2>3, OneAndOne, TwoAndTwo, OneAndTwo, ConcatEmptySeq
\* What the two lists have in common.
<1>12. /\ out' \in Seq(Messages) /\ Len(out') <= 5 /\ 1 \in DOMAIN out' /\ out'[1] = a
       /\ \A i \in DOMAIN out' : i > 1 => out'[i] \in {t, c} \/ (dealt' /\ out'[i] = b)
       /\ dealt' => 2 \in DOMAIN out' /\ out'[2] = b
       /\ \E i \in DOMAIN out' : out'[i] = t
       /\ \E i \in DOMAIN out' : out'[i] = c
       /\ \A i \in DOMAIN out' : i \in Nat \ {0}
  <2>1. CASE dealt'
    <3>1. out' = <<a, b, t, c>>
      BY <1>11, <2>1
    <3>2. out' \in Seq(Messages) /\ Len(out') <= 5 /\ DOMAIN out' = 1..4
      BY <1>5, <3>1
    <3>3. out'[1] = a /\ out'[2] = b /\ out'[3] = t /\ out'[4] = c
      BY <3>1
    <3>4. QED
      BY <2>1, <3>2, <3>3
  <2>2. CASE ~dealt'
    <3>1. out' = <<a, t, c>>
      BY <1>11, <2>2
    <3>2. out' \in Seq(Messages) /\ Len(out') <= 5 /\ DOMAIN out' = 1..3
      BY <1>5, <3>1
    <3>3. out'[1] = a /\ out'[2] = t /\ out'[3] = c
      BY <3>1
    <3>4. QED
      BY <2>2, <3>2, <3>3
  <2>3. QED
    BY <2>1, <2>2
<1>13. Truthful'
  <2>1. SUFFICES ASSUME NEW i \in DOMAIN out', NEW part \in Decides(out'[i].kind)
                 PROVE  \/ Tells(out'[i], part, Word')
                        \/ /\ part = "hole" /\ out'[i].kind = "hand_start"
                           /\ i + 1 \in DOMAIN out' /\ out'[i + 1].kind = "deal_hole"
    BY DEF Truthful
  <2>2. CASE i = 1
    <3>1. CASE part # "hole"
      BY <1>5, <1>6, <1>12, <2>2, <3>1
    <3>2. CASE part = "hole"
      BY <1>5, <1>6, <1>12, <2>2, <3>2
    <3>3. QED
      BY <3>1, <3>2
  <2>3. CASE i # 1
    <3>1. Honest(out'[i], Word')
      BY <1>7, <1>8, <1>9, <1>12, <2>3
    <3>2. QED
      BY <3>1 DEF Honest
  <2>4. QED
    BY <2>2, <2>3
<1>14. Repairs(s)'
  <2>1. \A part \in Parts : ~Silent(part)'
    BY <1>5, <1>12, KindFacts DEF Silent, Parts
  <2>2. \A i \in DOMAIN out' : out'[i].kind \notin Adds
    BY <1>5, <1>12 DEF Adds
  <2>3. QED
    BY <2>1, <2>2 DEF Repairs
<1>15. ~Gone(s) /\ drops' = 0 => InContext(s)'
  <2>1. SUFFICES ASSUME ~Gone(s), drops = 0 PROVE InContext(s)'
    BY <1>2
  <2>2. out' # <<>> /\ out'[1].kind = "hand_start"
    BY <1>5, <1>12
  <2>3. \A i \in DOMAIN out' : out'[i].hand = h /\ (out'[i].kind = "hand_start" => i = 1)
    BY <1>5, <1>12
  <2>4. QED
    BY <1>10, <2>1, <2>2, <2>3 DEF InContext
<1>16. QED
  BY <1>1, <1>3, <1>12, <1>13, <1>14, <1>15 DEF Handled, Sending
---------------------------------------------------------------------------
(* Sending a message. *)

LEMMA OutFacts ==
  ASSUME Typed, out # <<>>
  PROVE  /\ 1 \in DOMAIN out /\ Head(out) = out[1] /\ Head(out) \in Messages
         /\ Head(out).kind \in Kinds
         /\ DOMAIN out = 1..Len(out) /\ Len(out) \in Nat
         /\ Tail(out) \in Seq(Messages) /\ Len(Tail(out)) = Len(out) - 1
         /\ \A i \in DOMAIN Tail(out) : /\ i \in Nat \ {0} /\ i + 1 \in DOMAIN out
                                        /\ Tail(out)[i] = out[i + 1]
         /\ \A i \in DOMAIN out : i + 1 \in DOMAIN out => i \in DOMAIN Tail(out)
<1>1. out \in Seq(Messages)
  BY DEF Typed
<1>2. /\ Head(out) = out[1] /\ Head(out) \in Messages /\ Len(out) \in Nat \ {0}
      /\ DOMAIN out = 1..Len(out)
  BY <1>1
<1>3. /\ Tail(out) \in Seq(Messages) /\ Len(Tail(out)) = Len(out) - 1
      /\ \A i \in 1..Len(Tail(out)) : Tail(out)[i] = out[i + 1]
  BY <1>1, HeadTailProperties
<1>4. DOMAIN Tail(out) = 1..Len(Tail(out))
  BY <1>3
<1>5. Head(out).kind \in Kinds
  BY <1>2 DEF Messages
<1>6. QED
  BY <1>2, <1>3, <1>4, <1>5

LEMMA UnchangedTruth ==
  ASSUME UNCHANGED table
  PROVE  Word' = Word /\ hand' = hand /\ reopened' = reopened /\ InHand' = InHand
BY DEF table, Word, Truth, InHand, Loose, Over

\* What is still to be sent stays truthful.
LEMMA TruthfulTail ==
  ASSUME Typed, Truthful, out # <<>>, out' = Tail(out), UNCHANGED table
  PROVE  Truthful'
<1>1. SUFFICES ASSUME NEW i \in DOMAIN out', NEW part \in Decides(out'[i].kind)
               PROVE  \/ Tells(out'[i], part, Word)
                      \/ /\ part = "hole" /\ out'[i].kind = "hand_start"
                         /\ i + 1 \in DOMAIN out' /\ out'[i + 1].kind = "deal_hole"
  BY UnchangedTruth DEF Truthful
<1>2. i \in Nat /\ i + 1 \in DOMAIN out /\ out'[i] = out[i + 1]
  BY <1>1, OutFacts
<1>3. CASE Tells(out[i + 1], part, Word)
  BY <1>2, <1>3
<1>4. CASE /\ part = "hole" /\ out[i + 1].kind = "hand_start"
           /\ i + 1 + 1 \in DOMAIN out /\ out[i + 1 + 1].kind = "deal_hole"
  BY <1>2, <1>4, OutFacts
<1>5. QED
  BY <1>1, <1>2, <1>3, <1>4 DEF Truthful

LEMMA SentIsRepaired ==
  ASSUME NEW s, IsView(s), Typed, Truthful, Repairs(s), out # <<>>, out' = Tail(out),
         stale' = stale \ Decides(Head(out).kind), UNCHANGED table,
         NEW v, v = Dispatch(s, Head(out)), ~Gone(v)
  PROVE  Repairs(v)'
<1> DEFINE m == out[1]
<1>1. m = Head(out) /\ m.kind \in Kinds /\ 1 \in DOMAIN out
  BY OutFacts
<1>2. \A i \in DOMAIN out' : out'[i].kind \notin Adds
  BY OutFacts DEF Repairs
<1>3. ASSUME NEW part \in Parts \ stale', Silent(part)' PROVE v[part] = Word[part]
  <2>1. CASE part \notin Changes[m.kind]
    <3>1. part \notin stale
      BY <1>1, <1>3, <2>1, SettleFacts
    <3>2. Silent(part)
      <4> SUFFICES ASSUME NEW i \in DOMAIN out PROVE part \notin Changes[out[i].kind]
        BY DEF Silent
      <4>1. CASE i = 1
        BY <2>1, <4>1
      <4>2. CASE i # 1
        <5>1. i - 1 \in DOMAIN out' /\ out'[i - 1] = out[i]
          BY <4>2, OutFacts
        <5>2. QED
          BY <1>3, <5>1 DEF Silent
      <4>3. QED
        BY <4>1, <4>2
    <3>3. s[part] = Word[part]
      BY <1>3, <3>1, <3>2 DEF Repairs
    <3>4. QED
      BY <1>1, <1>3, <2>1, <3>3, DispatchKeeps
  <2>2. CASE part \in Changes[m.kind] /\ m.kind \in Adds
    <3>1. part \notin stale
      BY <1>1, <1>3, <2>2, SettleFacts
    <3>2. QED
      BY <1>1, <2>2, <3>1 DEF Repairs
  <2>3. CASE part \in Changes[m.kind] /\ m.kind \notin Adds
    <3>1. part \in Decides(m.kind)
      BY <1>1, <2>3, SettleFacts
    <3>2. CASE Tells(m, part, Word)
      BY <1>1, <3>2 DEF Tells
    <3>3. CASE part = "hole" /\ 2 \in DOMAIN out /\ out[2].kind = "deal_hole"
      <4>1. 1 \in DOMAIN out' /\ out'[1] = out[2]
        BY <1>1, <3>3, OutFacts
      <4>2. QED
        BY <1>3, <3>3, <4>1, KindFacts DEF Silent
    <3>4. \/ Tells(m, part, Word)
          \/ part = "hole" /\ 1 + 1 \in DOMAIN out /\ out[1 + 1].kind = "deal_hole"
      BY <1>1, <3>1 DEF Truthful
    <3>5. 1 + 1 = 2
      OBVIOUS
    <3>6. QED
      BY <3>2, <3>3, <3>4, <3>5
  <2>4. QED
    BY <2>1, <2>2, <2>3
<1>4. QED
  BY <1>2, <1>3, UnchangedTruth DEF Repairs

LEMMA SentKeepsContext ==
  ASSUME NEW s, IsView(s), Typed, InContext(s), out # <<>>, out' = Tail(out),
         stale' = stale \ Decides(Head(out).kind), UNCHANGED table,
         NEW v, v = Dispatch(s, Head(out)), ~Gone(v)
  PROVE  InContext(v)'
<1> DEFINE m == out[1]
<1>1. ~Gone(s)
  BY GoneStays
<1>2. m = Head(out) /\ m.kind \in Kinds /\ 1 \in DOMAIN out /\ m.hand = hand
  BY OutFacts DEF InContext
<1>3. \A i \in DOMAIN out' : out'[i].hand = hand /\ out'[i].kind # "hand_start"
  BY OutFacts DEF InContext
<1>4. v.hand = hand
  <2>1. CASE m.kind = "hand_start"
    BY <1>1, <1>2, <2>1, StartOnView
  <2>2. CASE m.kind = "table_state"
    BY <1>1, <1>2, <2>2, StateOnView
  <2>3. CASE m.kind \notin {"hand_start", "table_state"}
    <3>1. "hand" \notin Changes[m.kind]
      BY <1>2, <2>3, KindFacts
    <3>2. v.hand = s.hand
      BY <1>2, <3>1, DispatchKeeps DEF Parts
    <3>3. QED
      BY <2>3, <3>2 DEF InContext
  <2>4. QED
    BY <2>1, <2>2, <2>3
<1>5. ASSUME "turn" \in stale' PROVE v.turn = NoTurn
  <2>1. "turn" \in stale /\ s.turn = NoTurn
    BY <1>5 DEF InContext
  <2>2. "turn" \notin Changes[m.kind]
    BY <1>2, <1>5, SettleFacts, KindFacts DEF Adds
  <2>3. v.turn = s.turn
    BY <1>2, <2>2, DispatchKeeps DEF Parts
  <2>4. QED
    BY <2>1, <2>3
<1>6. stale' \subseteq {"turn", "showdown"}
  BY DEF InContext
<1>7. QED
  BY <1>3, <1>4, <1>5, <1>6, UnchangedTruth DEF InContext

\* A view that does not mix two hands still does not with the message that comes.
LEMMA SentIsCoherent ==
  ASSUME NEW s, IsView(s), Typed, Truthful, Repairs(s), InContext(s), Coherent(s), out # <<>>,
         ~Gone(Dispatch(s, Head(out)))
  PROVE  Coherent(Dispatch(s, Head(out)))
<1> DEFINE m == out[1]
           v == Dispatch(s, m)
<1>1. m = Head(out) /\ m.kind \in Kinds /\ 1 \in DOMAIN out /\ m.hand = hand
  BY OutFacts DEF InContext
<1> SUFFICES Coherent(v)
  BY <1>1
<1>2. ~Gone(s) /\ ~Gone(v)
  BY <1>1, GoneStays
<1>3. hand \in Nat /\ street \in Nat
  BY TypeFacts
<1>4. \A i \in DOMAIN Board(hand, street) : Board(hand, street)[i] = <<hand, i>>
  BY <1>3, BoardFacts
<1>5. ASSUME NEW part \in Decides(m.kind), m.kind # "hand_start" PROVE v[part] = Word[part]
  BY <1>2, <1>1, <1>5 DEF Truthful, Tells
<1>6. m.kind \notin {"hand_start", "table_state"} => s.hand = hand
  BY DEF InContext
<1>7. CASE m.kind = "hand_start"
  <2>1. v.board = <<>> /\ v.hole = NoHand
    BY <1>2, <1>7, StartOnView
  <2>2. v.turn = s.turn
    BY <1>2, <1>7, StartOnView DEF Parts
  <2>3. Loose(s.turn)
    BY <1>1, <1>7 DEF InContext
  <2> HIDE DEF v, m
  <2>4. QED
    BY <2>1, <2>2, <2>3 DEF Coherent, Loose
<1>8. CASE m.kind = "table_state"
  <2>1. v.hand = hand /\ v.board = Board(hand, street)
    <3>1. {"hand", "board"} \subseteq Decides(m.kind)
      BY <1>1, <1>8, SettleFacts, KindFacts DEF Adds
    <3>2. QED
      BY <1>5, <1>8, <3>1, TruthFacts
  <2>2. v.turn = s.turn /\ v.hole = s.hole
    BY <1>2, <1>8, StateOnView DEF Parts
  <2>3. s.hand = hand \/ (Loose(s.turn) /\ (hand = NoHand \/ s.hole = NoHand))
    BY <1>8 DEF InContext
  <2> HIDE DEF v, m
  <2>4. QED
    BY <1>4, <2>1, <2>2, <2>3 DEF Coherent, Loose
<1>9. CASE m.kind = "hand_end"
  <2>1. v.turn = NoTurn /\ v.hand = s.hand /\ v.board = s.board /\ v.hole = s.hole
    BY <1>2, <1>9, EndOnView DEF Parts
  <2> HIDE DEF v, m
  <2>2. QED
    BY <2>1 DEF Coherent
<1>10. CASE m.kind = "deal_hole"
  <2>1. v.hole = hand /\ v.hand = s.hand /\ v.board = s.board /\ v.turn = s.turn
    BY <1>2, <1>1, <1>10, HoleOnView DEF Parts
  <2> HIDE DEF v
  <2>2. QED
    BY <1>6, <1>10, <2>1 DEF Coherent
<1>11. CASE m.kind = "deal_community"
  <2>1. v.hole = s.hole /\ v.hand = s.hand /\ v.turn = s.turn
    BY <1>2, <1>1, <1>11, CommunityOnView DEF Parts
  <2>2. v.board = Board(hand, street)
    <3>1. "board" \in Changes[m.kind] \ stale
      BY <1>11, KindFacts DEF InContext
    <3>2. QED
      BY <1>1, <1>11, <3>1, TruthFacts DEF Repairs, Adds
  <2> HIDE DEF v
  <2>3. QED
    BY <1>4, <1>6, <1>11, <2>1, <2>2 DEF Coherent
<1>12. CASE m.kind = "action_applied"
  <2>1. v.turn = s.turn /\ v.hand = s.hand /\ v.board = s.board /\ v.hole = s.hole
    BY <1>2, <1>12, ActionOnView DEF Parts
  <2> HIDE DEF v, m
  <2>2. QED
    BY <2>1 DEF Coherent
<1>13. CASE m.kind = "to_act"
  <2>1. v.hole = s.hole /\ v.hand = s.hand /\ v.board = s.board
    BY <1>2, <1>1, <1>13, TurnOnView DEF Parts
  <2>2. v.turn = [hand |-> hand, seat |-> m.seat]
    BY <1>2, <1>1, <1>13, TurnAsks
  <2>3. v.turn.hand = hand
    BY <2>2
  <2> HIDE DEF v
  <2>4. QED
    BY <1>6, <1>13, <2>1, <2>3 DEF Coherent
<1>14. CASE m.kind = "pot_update"
  <2>1. v = s
    BY <1>14 DEF Dispatch
  <2>2. QED
    BY <1>1, <2>1
<1>15. CASE m.kind = "showdown"
  <2>1. v.hole = s.hole /\ v.hand = s.hand /\ v.turn = s.turn
    <3>1. m.board # Null
      BY <1>2, <1>15, NullShowdown, NoPageFacts
    <3>2. QED
      BY <1>2, <1>15, <3>1, ShowdownOnView DEF Parts
  <2>2. v.board = Board(hand, street)
    BY <1>1, <1>5, <1>15, SettleFacts, KindFacts, TruthFacts DEF Adds
  <2> HIDE DEF v
  <2>3. QED
    BY <1>4, <1>6, <1>15, <2>1, <2>2 DEF Coherent
<1>16. QED
  BY <1>1, <1>7, <1>8, <1>9, <1>10, <1>11, <1>12, <1>13, <1>14, <1>15, KindFacts

\* A message that does not fit leaves what it would have changed stale.
LEMMA LostIsStale ==
  ASSUME NEW s, IsView(s), Typed, Repairs(s), out # <<>>, out' = Tail(out),
         stale' = stale \cup Changes[Head(out).kind], UNCHANGED table
  PROVE  Repairs(s)'
<1> DEFINE m == out[1]
<1>1. m = Head(out) /\ m.kind \in Kinds /\ 1 \in DOMAIN out
  BY OutFacts
<1>2. \A i \in DOMAIN out' : out'[i].kind \notin Adds
  BY OutFacts DEF Repairs
<1>3. ASSUME NEW part \in Parts \ stale', Silent(part)' PROVE s[part] = Word[part]
  <2>1. part \notin stale /\ part \notin Changes[m.kind]
    BY <1>1, <1>3
  <2>2. Silent(part)
    <3> SUFFICES ASSUME NEW i \in DOMAIN out PROVE part \notin Changes[out[i].kind]
      BY DEF Silent
    <3>1. CASE i = 1
      BY <2>1, <3>1
    <3>2. CASE i # 1
      <4>1. i - 1 \in DOMAIN out' /\ out'[i - 1] = out[i]
        BY <3>2, OutFacts
      <4>2. QED
        BY <1>3, <4>1 DEF Silent
    <3>3. QED
      BY <3>1, <3>2
  <2>3. QED
    BY <1>3, <2>1, <2>2 DEF Repairs
<1>4. QED
  BY <1>2, <1>3, UnchangedTruth DEF Repairs
---------------------------------------------------------------------------
(* The inductive invariant holds at first. *)

LEMMA EmptyViewFacts ==
  /\ IsView(EmptyView) /\ DOMAIN EmptyView = Parts /\ Coherent(EmptyView)
  /\ EmptyView.hand = NoHand /\ EmptyView.hole = NoHand /\ EmptyView.turn = NoTurn
  /\ EmptyView.showdown = NoHand /\ ~Gone(EmptyView)
<1>1. /\ IsView(EmptyView) /\ DOMAIN EmptyView = Parts
      /\ EmptyView.hand = NoHand /\ EmptyView.hole = NoHand /\ EmptyView.turn = NoTurn
      /\ EmptyView.showdown = NoHand /\ EmptyView.board = <<>>
  BY DEF EmptyView, IsView, Parts
<1>2. ~Gone(EmptyView)
  <2>1. NoPage.board = Null
    BY DEF NoPage, EmptyView
  <2>2. Null # <<>>
    BY DEF Null
  <2>3. QED
    BY <1>1, <2>1, <2>2 DEF Gone
<1>3. QED
  BY <1>1, <1>2 DEF Coherent

LEMMA ConstantFacts ==
  /\ Cap \in Nat \ {0} /\ Streets \in Nat \ {0} /\ MaxHands \in Nat \ {0}
  /\ MaxAsides \in Nat \ {0} /\ MaxAdvances \in Nat \ {0} /\ MaxDrops \in Nat \ {0}
  /\ \A n \in Nat \ {0} : 0 \in 0..n /\ 1 \in 0..n /\ n \in 0..n
BY ClientAssumption

LEMMA Initially ==
  ASSUME Init
  PROVE  IInv
<1> DEFINE t == TableState(hand, street, "out")
           u == [i \in {0} |-> EmptyView]
<1>1. /\ hands = hand /\ mine = "out" /\ dealt = FALSE /\ reopened = {}
      /\ out = <<t>> /\ chan = <<>> /\ view = EmptyView /\ asides = MaxAsides /\ drops = 0
  BY DEF Init
<1>2. /\ hand \in 0..MaxHands /\ street \in 0..Streets /\ {shown, alone} \subseteq BOOLEAN
      /\ toAct \in Seats \cup {"none"} /\ betting \in {"asked", "armed", "closed"}
      /\ advances \in 0..MaxAdvances
  BY ConstantFacts DEF Init, NoHand, Seats
<1>3. /\ stale \subseteq {"turn", "showdown"}
      /\ stale # {"turn", "showdown"} => hand = NoHand /\ turn = NoTurn
      /\ hand = NoHand => ~shown /\ ~alone /\ toAct = "none" /\ advances = 0 /\ turn = NoTurn
      /\ Over => turn = NoTurn
      /\ turn = NoTurn \/ (hand = 1 /\ turn = Asked("other"))
  BY DEF Init, NoHand, Over
<1>4. hand \in Nat /\ street \in Nat
  BY <1>2, ClientAssumption
<1>5. t \in Messages /\ t.kind = "table_state" /\ t.hand = hand
  BY <1>4, MessageFacts, MessageFields
<1>6. Honest(t, Word)
  BY <1>1, StateIsHonest, TruthFacts
<1> HIDE DEF t
<1>7. out \in Seq(Messages) /\ Len(out) <= 5 /\ DOMAIN out = {1} /\ out[1] = t
  BY <1>1, <1>5
<1>8. Typed
  <2>1. /\ stale \subseteq DOMAIN view /\ DOMAIN view = DOMAIN EmptyView
    BY <1>1, <1>3, EmptyViewFacts DEF Parts
  <2>2. Len(chan) = 0 /\ DOMAIN chan = {}
    BY <1>1
  <2>3. /\ hands \in 0..MaxHands /\ drops \in 0..MaxDrops /\ Len(chan) <= Cap
        /\ turn \in [hand : 0..MaxHands, seat : Seats]
    BY <1>1, <1>2, <1>3, <2>2, ConstantFacts DEF Seats, NoTurn, Asked, NoHand
  <2>4. TypeOK
    BY <1>1, <1>2, <1>7, <2>1, <2>2, <2>3 DEF TypeOK
  <2>5. QED
    BY <1>1, <1>7, <2>4, ConstantFacts DEF Typed
<1>9. InHand
  BY <1>1, <1>3 DEF InHand, Loose
<1>10. Unfolds(u, EmptyView)
  <2>1. Len(chan) = 0 /\ 0..Len(chan) = {0} /\ 1..Len(chan) = {}
    BY <1>1
  <2>2. u[0] = EmptyView
    OBVIOUS
  <2> HIDE DEF u
  <2>3. QED
    BY <1>1, <2>1, <2>2, EmptyViewFacts DEF Unfolds
<1>11. Sending(EmptyView)
  <2>1. Truthful
    BY <1>6, <1>7 DEF Truthful, Honest
  <2>2. ASSUME NEW part \in Parts \ stale, Silent(part) PROVE EmptyView[part] = Word[part]
    <3>1. part \in {"hole", "turn", "showdown"}
      BY <1>5, <1>7, <2>2, KindFacts DEF Silent, Parts
    <3>2. Word.hole = NoHand
      BY <1>1, TruthFacts
    <3>3. part # "hole" => hand = NoHand
      BY <1>3, <2>2, <3>1
    <3>4. hand = NoHand => Word.turn = NoTurn /\ Word.showdown = NoHand
      BY <1>1, <1>3, TruthFacts
    <3>5. QED
      BY <3>1, <3>2, <3>3, <3>4, EmptyViewFacts
  <2>3. Repairs(EmptyView)
    BY <1>5, <1>7, <2>2 DEF Repairs, Adds
  <2>4. InContext(EmptyView)
    BY <1>1, <1>3, <1>5, <1>7, EmptyViewFacts DEF InContext, Loose
  <2>5. QED
    BY <2>1, <2>3, <2>4 DEF Sending
<1> HIDE DEF u
<1>12. QED
  BY <1>8, <1>9, <1>10, <1>11 DEF IInv
---------------------------------------------------------------------------
(* Every step preserves it. *)

\* A handler leaves the values what they should be.
LEMMA HandlersAreTyped ==
  ASSUME Typed, InHand, TableStep, out' \in Seq(Messages), Len(out') <= 5
  PROVE  Typed' /\ UNCHANGED <<chan, view, stale, drops>>
<1> DEFINE Turns == [hand : 0..MaxHands, seat : Seats]
<1>1. /\ hand \in 0..MaxHands /\ hands \in 0..MaxHands /\ street \in 0..Streets
      /\ shown \in BOOLEAN /\ alone \in BOOLEAN /\ dealt \in BOOLEAN
      /\ toAct \in Seats \cup {"none"} /\ turn \in Turns /\ reopened \subseteq 1..MaxHands
      /\ mine \in {"out", "in", "folded"} /\ betting \in {"asked", "armed", "closed"}
      /\ advances \in 0..MaxAdvances /\ asides \in 0..MaxAsides
      /\ Streets \in Nat /\ MaxHands \in Nat /\ MaxAsides \in Nat /\ MaxAdvances \in Nat
      /\ 0 \in 0..Streets /\ 0 \in 0..MaxHands /\ 0 \in 0..MaxAdvances
  BY ConstantFacts DEF Typed, TypeOK
<1>2. SUFFICES /\ UNCHANGED <<chan, view, stale, drops>>
               /\ hand' \in 0..MaxHands /\ hands' \in 0..MaxHands /\ street' \in 0..Streets
               /\ shown' \in BOOLEAN /\ alone' \in BOOLEAN /\ dealt' \in BOOLEAN
               /\ toAct' \in Seats \cup {"none"} /\ turn' \in Turns
               /\ reopened' \subseteq 1..MaxHands
               /\ mine' \in {"out", "in", "folded"}
               /\ betting' \in {"asked", "armed", "closed"}
               /\ advances' \in 0..MaxAdvances /\ asides' \in 0..MaxAsides
  BY DEF Typed, TypeOK
<1>3. /\ \A part : Askable(part) \subseteq Seats /\ Actors(part) \subseteq Seats \cup {"none"}
      /\ NoTurn \in Turns
      /\ \A seat \in Seats : Asked(seat) \in Turns
  BY <1>1 DEF Actors, Askable, Seats, NoTurn, NoHand, Asked
\* The handler is done with, and left the turn and the hand's end as they should be.
<1> DEFINE Leaves == /\ UNCHANGED <<chan, view, stale, drops>>
                     /\ shown' \in BOOLEAN /\ alone' \in BOOLEAN /\ turn' \in Turns
                     /\ reopened' \subseteq 1..MaxHands
                     /\ betting' \in {"asked", "armed", "closed"}
<1>4. ASSUME NEW before, NEW after, hand # NoHand PROVE GoesOn(before, after) => Leaves
  <2>1. hand \in 1..MaxHands
    BY <1>1, <1>4 DEF NoHand
  <2>2. SUFFICES ASSUME GoesOn(before, after) PROVE Leaves
    OBVIOUS
  <2>3. /\ UNCHANGED <<chan, view, stale, drops, alone, shown>> /\ toAct' \in Seats
        /\ betting' = "asked" /\ turn' = Asked(toAct') /\ reopened' \subseteq reopened \cup {hand}
    BY <1>3, <2>2 DEF GoesOn, Handles
  <2>4. QED
    BY <1>1, <1>3, <2>1, <2>3
<1>5. ASSUME NEW before, NEW after
      PROVE  /\ GoesOnArmed(before) => Leaves
             /\ Closes(before, after) => Leaves /\ advances' \in 0..MaxAdvances
             /\ FoldsOut(before, after) => Leaves /\ advances' = advances
             /\ advances > 0 /\ SettleAndBroadcast(before) =>
                  Leaves /\ advances' \in 0..MaxAdvances
  <2>1. GoesOnArmed(before) => Leaves
    BY <1>1 DEF GoesOnArmed, Handles
  <2>2. Closes(before, after) => Leaves /\ advances' \in 0..MaxAdvances
    BY <1>1 DEF Closes, Handles
  <2>3. FoldsOut(before, after) => Leaves /\ advances' = advances
    BY <1>1, <1>3 DEF FoldsOut, Handles
  <2>4. advances > 0 /\ SettleAndBroadcast(before) => Leaves /\ advances' \in 0..MaxAdvances
    BY <1>1, <1>3 DEF SettleAndBroadcast, Handles
  <2>5. QED
    BY <2>1, <2>2, <2>3, <2>4
<1> HIDE DEF Turns
<1>6. CASE StartHand
  <2>1. /\ hands < MaxHands /\ hand' = hands + 1 /\ hands' = hands + 1 /\ street' = 0
        /\ betting' = "asked" /\ mine' \in {"out", "in"}
        /\ UNCHANGED <<shown, alone, advances, asides, reopened>>
        /\ dealt' \in BOOLEAN /\ toAct' \in Askable(mine')
        /\ turn' = [hand |-> hands + 1, seat |-> toAct']
        /\ UNCHANGED <<chan, view, stale, drops>>
    BY <1>6 DEF StartHand, Handles
  <2>2. hands + 1 \in 0..MaxHands /\ toAct' \in Seats
    BY <1>1, <1>3, <2>1
  <2>3. turn' \in Turns
    BY <2>1, <2>2 DEF Turns
  <2>4. QED
    BY <1>1, <2>1, <2>2, <2>3
<1>7. CASE Act
  <2>1. PICK folds \in BOOLEAN :
          LET before == <<Applied(hand, toAct, folds), PotUpdate(hand)>>
          IN  /\ mine' = IF toAct = "me" /\ folds THEN "folded" ELSE mine
              /\ \/ /\ advances' = advances /\ toAct' \in Askable(mine')
                    /\ GoesOn(before, <<>>) \/ GoesOnArmed(before)
                 \/ /\ toAct' \in {"none", toAct}
                    /\ Closes(before, <<>>) \/ FoldsOut(before, <<>>)
    BY <1>7 DEF Act, GoesOn, GoesOnArmed
  <2>2. hand # NoHand /\ UNCHANGED <<hand, hands, street, dealt, asides>>
    BY <1>7 DEF Act, InHand
  <2>3. Leaves /\ advances' \in 0..MaxAdvances
    <3> HIDE DEF Leaves
    <3>1. QED
      BY <1>1, <1>4, <1>5, <2>1, <2>2
  <2>4. toAct' \in Seats \cup {"none"} /\ mine' \in {"out", "in", "folded"}
    BY <1>1, <1>3, <2>1
  <2>5. QED
    BY <1>1, <2>2, <2>3, <2>4
<1>8. CASE OtherLeaves
  <2>1. \E after : \/ /\ advances' = advances /\ toAct' \in Askable(mine')
                      /\ GoesOn(<<>>, after)
                   \/ /\ toAct' \in {toAct} \cup Actors(mine)
                      /\ Closes(<<>>, after) \/ FoldsOut(<<>>, after)
    BY <1>8 DEF OtherLeaves, GoesOn
  <2>2. /\ hand # NoHand /\ UNCHANGED <<hand, hands, street, mine, dealt>>
        /\ asides > 0 /\ asides' = asides - 1
    BY <1>8 DEF OtherLeaves
  <2>3. Leaves /\ advances' \in 0..MaxAdvances
    <3> HIDE DEF Leaves
    <3>1. QED
      BY <1>1, <1>4, <1>5, <2>1, <2>2
  <2>4. toAct' \in Seats \cup {"none"} /\ asides' \in 0..MaxAsides
    BY <1>1, <1>3, <2>1, <2>2
  <2>5. QED
    BY <1>1, <2>2, <2>3, <2>4
<1>9. CASE AdvanceStreet
  <2>1. /\ hand # NoHand /\ advances > 0 /\ UNCHANGED <<hand, hands, mine, dealt, asides>>
        /\ street' = street \/ (street < Streets /\ street' = street + 1)
    BY <1>9, <1>1 DEF AdvanceStreet, InHand
  <2>2. advances - 1 \in 0..MaxAdvances /\ street' \in 0..Streets
    BY <1>1, <2>1
  <2>3. \A cards : SettleAndBroadcast(cards) => Leaves /\ advances' \in 0..MaxAdvances
    BY <1>5, <2>1
  <2>4. ASSUME NEW cards, Reopens(cards)
        PROVE  Leaves /\ advances' \in 0..MaxAdvances /\ toAct' \in Seats \cup {"none"}
    <3>1. CASE advances' = advances - 1 /\ (GoesOn(cards, <<>>) \/ GoesOnArmed(cards))
      <4>1. toAct' \in Askable(mine')
        BY <3>1 DEF GoesOn, GoesOnArmed
      <4>2. Leaves
        <5> HIDE DEF Leaves
        <5>1. QED
          BY <1>4, <1>5, <2>1, <3>1
      <4>3. QED
        BY <1>3, <2>2, <3>1, <4>1, <4>2
    <3>2. CASE /\ betting' = "closed" /\ Handles(cards) /\ toAct' \in Actors(mine)
               /\ UNCHANGED <<advances, shown, alone, turn, reopened>>
      BY <1>1, <1>3, <3>2 DEF Handles
    <3>3. CASE toAct' \in Actors(mine) /\ SettleAndBroadcast(cards)
      BY <1>3, <2>3, <3>3
    <3>4. QED
      BY <2>4, <3>1, <3>2, <3>3 DEF Reopens
  <2>5. \/ Reopens(<<DealNothing(hand)>>) \/ Reopens(<<DealCommunity(hand, street')>>)
        \/ toAct' = toAct /\ SettleAndBroadcast(<<>>)
    BY <1>9 DEF AdvanceStreet
  <2>6. Leaves /\ advances' \in 0..MaxAdvances /\ toAct' \in Seats \cup {"none"}
    <3> HIDE DEF Leaves
    <3>1. QED
      BY <1>1, <2>3, <2>4, <2>5
  <2>7. QED
    BY <1>1, <2>1, <2>2, <2>6
<1>10. CASE EndHand
  BY <1>1, <1>10 DEF EndHand, Handles, NoHand
<1>11. CASE Snapshot
  BY <1>1, <1>11 DEF Snapshot, Handles, table
<1>12. QED
  BY <1>6, <1>7, <1>8, <1>9, <1>10, <1>11 DEF TableStep

LEMMA TableKeepsIInv ==
  ASSUME IInv, TableStep
  PROVE  IInv'
<1>1. PICK u, s : Unfolds(u, s) /\ Sending(s)
  BY DEF IInv
<1>2. Typed /\ InHand
  BY DEF IInv
<1>3. IsView(s)
  <2>1. Len(chan) \in 0..Len(chan)
    BY <1>2 DEF Typed
  <2>2. QED
    BY <1>1, <2>1 DEF Unfolds
<1>4. Handled(s)
  BY <1>1, <1>2, <1>3, StartHandSends, ActSends, OtherLeavesSends, AdvanceSends, EndHandSends,
     SnapshotSends DEF TableStep
<1>5. Typed' /\ UNCHANGED <<chan, view, stale, drops>>
  BY <1>2, <1>4, HandlersAreTyped DEF Handled
<1>6. Unfolds(u, s)'
  <2>1. \A v : Coherent(v) => Coherent(v)'
    BY <1>4 DEF Handled, Coherent
  <2>2. QED
    BY <1>1, <1>5, <2>1 DEF Unfolds
<1>7. QED
  BY <1>4, <1>5, <1>6 DEF IInv, Handled

\* How a trace ends and where it stays a view.
LEMMA TraceFacts ==
  ASSUME IInv
  PROVE  \E u, s : /\ Unfolds(u, s) /\ Sending(s) /\ IsView(s)
                   /\ drops = 0 => Gone(s) \/ Coherent(s)
<1>1. PICK u, s : Unfolds(u, s) /\ Sending(s)
  BY DEF IInv
<1>2. Len(chan) \in 0..Len(chan)
  BY DEF IInv, Typed
<1>3. QED
  BY <1>1, <1>2 DEF Unfolds

LEMMA KindsOfMessages ==
  ASSUME NEW c \in Seq(Messages)
  PROVE  \A i \in DOMAIN c : c[i].kind \in Kinds
<1>1. \A m \in Messages : m.kind \in Kinds
  BY DEF Messages
<1>2. \A i \in DOMAIN c : c[i] \in Messages
  OBVIOUS
<1>3. QED
  BY <1>1, <1>2

\* A message that fits: the trace gets longer by what it makes of the last view.
LEMMA SentKeepsIInv ==
  ASSUME IInv, out # <<>>, out' = Tail(out), HasRoom(chan), chan' = Append(chan, Head(out)),
         stale' = stale \ Decides(Head(out).kind),
         UNCHANGED <<table, drops, view, asides>>
  PROVE  IInv'
<1>1. PICK u, s : /\ Unfolds(u, s) /\ Sending(s) /\ IsView(s)
                  /\ drops = 0 => Gone(s) \/ Coherent(s)
  BY TraceFacts
<1>2. Typed /\ InHand /\ UNCHANGED table
  BY DEF IInv
<1> PICK m, n : m = Head(out) /\ n = Len(chan)
  OBVIOUS
<1> PICK v : v = Dispatch(s, m)
  OBVIOUS
<1> DEFINE w == [i \in 0..(n + 1) |-> IF i <= n THEN u[i] ELSE v]
<1>3. m \in Messages /\ m.kind \in Kinds
  BY <1>2, OutFacts
<1>4. IsView(v)
  BY <1>1, <1>3, DispatchKeeps
<1>5. Gone(s) => Gone(v)
  BY GoneStays
<1>6. drops = 0 => Gone(v) \/ Coherent(v)
  BY <1>1, <1>2, <1>5, SentIsCoherent DEF Sending
<1>7. Sending(v)'
  <2>1. Truthful' /\ (Gone(v) \/ Repairs(v)')
    BY <1>1, <1>2, <1>5, TruthfulTail, SentIsRepaired DEF Sending
  <2>2. drops' = 0 => Gone(v) \/ InContext(v)'
    BY <1>1, <1>2, <1>5, SentKeepsContext DEF Sending
  <2>3. QED
    BY <2>1, <2>2 DEF Sending
<1>8. n \in Nat /\ n < Cap /\ chan \in Seq(Messages)
  BY <1>2 DEF Typed, HasRoom
<1>9. /\ chan' \in Seq(Messages) /\ Len(chan') = n + 1 /\ DOMAIN chan' = 1..(n + 1)
      /\ \A i \in 1..n : chan'[i] = chan[i]
      /\ chan'[n + 1] = m
  BY <1>3, <1>8
<1>10. Unfolds(w, v)'
  <2>1. /\ w[0] = u[0] /\ w[n + 1] = v
        /\ \A i \in 0..n : w[i] = u[i]
        /\ \A i \in 0..(n + 1) : i \in 0..n \/ i = n + 1
        /\ n \in 0..n
    BY <1>8
  <2> HIDE DEF w
  <2>2. \A i \in 0..(n + 1) : IsView(w[i])
    BY <1>1, <1>4, <2>1 DEF Unfolds
  <2>3. \A i \in 1..(n + 1) : w[i] = Dispatch(w[i - 1], chan'[i])
    <3>1. ASSUME NEW i \in 1..n PROVE w[i] = Dispatch(w[i - 1], chan'[i])
      <4>1. i \in 0..n /\ i - 1 \in 0..n
        BY <1>8
      <4>2. u[i] = Dispatch(u[i - 1], chan[i])
        BY <1>1 DEF Unfolds
      <4>3. QED
        BY <1>9, <2>1, <4>1, <4>2
    <3>2. w[n + 1] = Dispatch(w[n], chan'[n + 1])
      <4>1. w[n] = s
        BY <1>1, <2>1 DEF Unfolds
      <4>2. QED
        BY <1>9, <2>1, <4>1
    <3>3. \A i \in 1..(n + 1) : i \in 1..n \/ (i = n + 1 /\ i - 1 = n)
      BY <1>8
    <3>4. QED
      BY <3>1, <3>2, <3>3
  <2>4. drops = 0 => \A i \in 0..(n + 1) : Gone(w[i]) \/ Coherent(w[i])
    BY <1>1, <1>6, <2>1 DEF Unfolds
  <2>5. w[0] = view
    BY <1>1, <2>1 DEF Unfolds
  <2>6. \A x : Coherent(x) => Coherent(x)'
    BY <1>2 DEF Coherent, table
  <2>7. QED
    BY <1>9, <2>1, <2>2, <2>3, <2>4, <2>5, <2>6 DEF Unfolds
<1>11. Typed'
  <2>1. out' \in Seq(Messages) /\ Len(out') <= 5
    BY <1>2, OutFacts DEF Typed, TypeOK
  <2>2. \A i \in DOMAIN chan' : chan'[i].kind \in Kinds
    BY <1>9, KindsOfMessages
  <2>3. Len(chan') <= Cap
    BY <1>8, <1>9, ConstantFacts
  <2>4. stale' \subseteq DOMAIN view' /\ DOMAIN view' = DOMAIN EmptyView
    BY <1>2 DEF Typed, TypeOK
  <2>5. TypeOK'
    BY <1>2, <2>1, <2>2, <2>3, <2>4 DEF Typed, TypeOK, table
  <2>6. QED
    BY <1>2, <1>9, <2>1, <2>5 DEF Typed
<1>12. InHand'
  BY <1>2, UnchangedTruth
<1> HIDE DEF w
<1>13. QED
  BY <1>7, <1>10, <1>11, <1>12 DEF IInv

\* A message that does not fit: from then on views may mix hands.
LEMMA LostKeepsIInv ==
  ASSUME IInv, out # <<>>, out' = Tail(out), drops < MaxDrops, drops' = drops + 1,
         stale' = stale \cup Changes[Head(out).kind],
         UNCHANGED <<table, chan, view, asides>>
  PROVE  IInv'
<1>1. PICK u, s : Unfolds(u, s) /\ Sending(s) /\ IsView(s)
  BY TraceFacts
<1>2. Typed /\ InHand /\ UNCHANGED table
  BY DEF IInv
<1>3. drops' \in 0..MaxDrops /\ drops' # 0
  BY <1>2, ConstantFacts, TypeFacts
<1>4. Sending(s)'
  BY <1>1, <1>2, <1>3, TruthfulTail, LostIsStale DEF Sending
<1>5. Unfolds(u, s)'
  BY <1>1, <1>3 DEF Unfolds
<1>6. Typed'
  <2>1. out' \in Seq(Messages) /\ Len(out') <= 5
    BY <1>2, OutFacts DEF Typed, TypeOK
  <2>2. stale' \subseteq DOMAIN view' /\ DOMAIN view' = DOMAIN EmptyView
    BY <1>2, OutFacts, SettleFacts, EmptyViewFacts DEF Typed, TypeOK
  <2>3. TypeOK'
    BY <1>2, <1>3, <2>1, <2>2 DEF Typed, TypeOK, table
  <2>4. QED
    BY <1>2, <2>1, <2>3 DEF Typed
<1>7. InHand'
  BY <1>2, UnchangedTruth
<1>8. QED
  BY <1>4, <1>5, <1>6, <1>7 DEF IInv

\* The client applies a message: the trace loses its first view.
LEMMA ReceiveKeepsIInv ==
  ASSUME IInv, Receive
  PROVE  IInv'
<1>1. PICK u, s : Unfolds(u, s) /\ Sending(s) /\ IsView(s)
  BY TraceFacts
<1>2. Typed /\ InHand
  BY DEF IInv
<1>3. /\ chan # <<>> /\ chan' = Tail(chan) /\ view' = Dispatch(view, Head(chan))
      /\ UNCHANGED <<table, out, asides, stale, drops>>
  BY DEF Receive
<1> PICK n : n = Len(chan)
  OBVIOUS
<1> DEFINE w == [i \in 0..(n - 1) |-> u[i + 1]]
<1>4. n \in Nat \ {0} /\ chan \in Seq(Messages) /\ Head(chan) = chan[1]
  BY <1>2, <1>3 DEF Typed
<1>5. /\ chan' \in Seq(Messages) /\ Len(chan') = n - 1
      /\ \A i \in 1..(n - 1) : chan'[i] = chan[i + 1]
  BY <1>3, <1>4, HeadTailProperties
<1>6. Unfolds(w, s)'
  <2>1. /\ \A i \in 0..(n - 1) : w[i] = u[i + 1] /\ i + 1 \in 0..n
        /\ w[0] = u[1] /\ w[n - 1] = u[n] /\ 1 \in 1..n
    BY <1>4
  <2> HIDE DEF w
  <2>2. w[0] = view'
    BY <1>1, <1>3, <1>4, <2>1 DEF Unfolds
  <2>3. w[n - 1] = s
    BY <1>1, <2>1 DEF Unfolds
  <2>4. \A i \in 0..(n - 1) : IsView(w[i])
    BY <1>1, <2>1 DEF Unfolds
  <2>5. ASSUME NEW i \in 1..(n - 1) PROVE w[i] = Dispatch(w[i - 1], chan'[i])
    <3>1. /\ i \in 0..(n - 1) /\ i - 1 \in 0..(n - 1) /\ i + 1 \in 1..n
          /\ (i - 1) + 1 = i /\ (i + 1) - 1 = i
      BY <1>4
    <3>2. u[i + 1] = Dispatch(u[i], chan[i + 1])
      BY <1>1, <3>1 DEF Unfolds
    <3>3. w[i] = u[i + 1] /\ w[i - 1] = u[i]
      BY <2>1, <3>1
    <3>4. QED
      BY <1>5, <3>2, <3>3
  <2>6. drops = 0 => \A i \in 0..(n - 1) : Gone(w[i]) \/ Coherent(w[i])
    BY <1>1, <2>1 DEF Unfolds
  <2>7. \A x : Coherent(x) => Coherent(x)'
    BY <1>3 DEF Coherent, table
  <2>8. QED
    BY <1>3, <1>5, <2>2, <2>3, <2>4, <2>5, <2>6, <2>7 DEF Unfolds
<1>7. Typed'
  <2>1. DOMAIN view' = DOMAIN EmptyView
    <3>1. IsView(view)
      BY <1>2, EmptyViewFacts DEF Typed, TypeOK, IsView
    <3>2. Head(chan).kind \in Kinds
      BY <1>4, KindsOfMessages
    <3>3. QED
      BY <1>3, <3>1, <3>2, DispatchKeeps, EmptyViewFacts DEF IsView
  <2>2. Len(chan') <= Cap
    BY <1>2, <1>4, <1>5, ConstantFacts DEF Typed, TypeOK
  <2>3. \A i \in DOMAIN chan' : chan'[i].kind \in Kinds
    BY <1>5, KindsOfMessages
  <2>4. TypeOK'
    BY <1>2, <1>3, <2>1, <2>2, <2>3 DEF Typed, TypeOK, table
  <2>5. QED
    BY <1>2, <1>3, <1>5, <2>4 DEF Typed
<1>8. Sending(s)'
  <2>1. Word' = Word /\ hand' = hand /\ reopened' = reopened
    BY <1>3, UnchangedTruth
  <2>2. Truthful'
    BY <1>1, <1>3, <2>1 DEF Sending, Truthful
  <2>3. Repairs(s) => Repairs(s)'
    BY <1>3, <2>1 DEF Repairs, Silent
  <2>4. QED
    BY <1>1, <1>3, <2>1, <2>2, <2>3 DEF Sending, InContext, Loose
<1>9. InHand'
  BY <1>2, <1>3, UnchangedTruth
<1> HIDE DEF w
<1>10. QED
  BY <1>6, <1>7, <1>8, <1>9 DEF IInv

LEMMA StutterKeepsIInv ==
  ASSUME IInv, UNCHANGED client
  PROVE  IInv'
<1>1. PICK u, s : Unfolds(u, s) /\ Sending(s)
  BY DEF IInv
<1>2. UNCHANGED <<table, out, chan, view, asides, stale, drops>>
  BY DEF client
<1>3. Word' = Word /\ hand' = hand /\ reopened' = reopened /\ InHand' = InHand
  BY <1>2, UnchangedTruth
<1>4. Unfolds(u, s)'
  BY <1>1, <1>2, <1>3 DEF Unfolds, Coherent
<1>5. Sending(s)'
  <2>1. Truthful'
    BY <1>1, <1>2, <1>3 DEF Sending, Truthful
  <2>2. Repairs(s) => Repairs(s)'
    BY <1>2, <1>3 DEF Repairs, Silent
  <2>3. QED
    BY <1>1, <1>2, <1>3, <2>1, <2>2 DEF Sending, InContext, Loose
<1>6. Typed' /\ InHand'
  BY <1>2, <1>3 DEF IInv, Typed, TypeOK, table
<1>7. QED
  BY <1>4, <1>5, <1>6 DEF IInv

LEMMA StepKeepsIInv ==
  ASSUME IInv, [Next]_client
  PROVE  IInv'
<1>1. CASE TableStep
  BY <1>1, TableKeepsIInv
<1>2. CASE SendTo
  <2>1. out # <<>> /\ out' = Tail(out) /\ UNCHANGED <<table, view, asides>>
    BY <1>2 DEF SendTo
  <2>2. CASE HasRoom(chan)
    <3>1. /\ chan' = Append(chan, Head(out)) /\ drops' = drops
          /\ stale' = stale \ Decides(Head(out).kind)
      BY <1>2, <2>2 DEF SendTo
    <3>2. QED
      BY <2>1, <2>2, <3>1, SentKeepsIInv
  <2>3. CASE ~HasRoom(chan)
    <3>1. /\ drops < MaxDrops /\ drops' = drops + 1 /\ chan' = chan
          /\ stale' = stale \cup Changes[Head(out).kind]
      BY <1>2, <2>3 DEF SendTo
    <3>2. QED
      BY <2>1, <3>1, LostKeepsIInv
  <2>4. QED
    BY <2>2, <2>3
<1>3. CASE Receive
  BY <1>3, ReceiveKeepsIInv
<1>4. CASE UNCHANGED client
  BY <1>4, StutterKeepsIInv
<1>5. QED
  BY <1>1, <1>2, <1>3, <1>4 DEF Next
---------------------------------------------------------------------------
(* What follows. *)

\* The inductive invariant: whatever is still on its way to a client, the handler at
\* work (table.go sendTo) and the channel (session.go) together lead its view to the
\* truth, but for the parts a dropped message would have changed.
THEOREM Invariance == Spec => []IInv
<1>1. Init => IInv
  BY Initially
<1>2. IInv /\ [Next]_client => IInv'
  BY StepKeepsIInv
<1>3. QED
  BY <1>1, <1>2, PTL DEF Spec

\* The variables keep to their types, and the channel of a session to its capacity
\* (ws/session.go), however many messages the actor sends.
THEOREM TypeCorrect == Spec => []TypeOK
<1>1. IInv => TypeOK
  BY DEF IInv, Typed
<1>2. QED
  BY <1>1, Invariance, PTL

\* A client whose channel has been emptied shows the table as it is, except for what a
\* message dropped by sendTo (table.go) would have changed and none sent since settles,
\* and for the turn of a hand that went on after its end: for any capacity of the channel
\* and any number of messages dropped.
THEOREM ViewsCatchUp == Spec => []CatchesUp
<1>1. ASSUME IInv PROVE CatchesUp
  <2>1. SUFFICES ASSUME out = <<>>, chan = <<>>, ~Gone(view), NEW part \in DOMAIN view \ stale
                 PROVE  \/ view[part] = Truth[part]
                        \/ part = "turn" /\ view.turn.hand \in reopened
    BY DEF CatchesUp
  <2>2. PICK u, s : Unfolds(u, s) /\ Sending(s) /\ IsView(s)
    BY <1>1, TraceFacts
  <2>3. s = view
    BY <2>1, <2>2 DEF Unfolds
  <2>4. part \in Parts
    BY <1>1, <2>1, EmptyViewFacts DEF IInv, Typed, TypeOK
  <2>5. view[part] = Word[part]
    BY <2>1, <2>2, <2>3, <2>4, HandlerFinds
  <2>6. Truth.turn = NoTurn \/ Truth.turn = turn
    BY DEF Truth
  <2>7. CASE Word[part] = Truth[part]
    BY <2>5, <2>7
  <2>8. CASE part = "turn" /\ Word[part] # Truth[part]
    <3>1. view.turn = turn
      BY <2>5, <2>8, TruthFacts
    <3>2. Loose(turn) /\ Truth.turn = NoTurn
      BY <1>1, <2>6, <2>8, TruthFacts DEF IInv, InHand, Truth
    <3>3. QED
      BY <2>1, <2>8, <3>1, <3>2 DEF Loose
  <2>9. part # "turn" => Word[part] = Truth[part]
    BY <2>4 DEF Word, Truth, Parts
  <2>10. QED
    BY <2>7, <2>8, <2>9
<1>2. QED
  BY <1>1, Invariance, PTL

\* As long as sendTo drops nothing, no view mixes two hands, however many messages lie
\* between the table and it, but for the turn of a hand that went on after its end: the
\* reducers of session.ts need no hand id to tell the hands apart, only advanceStreet one.
THEOREM ViewsShowOneHand == Spec => []OneHandShown
<1>1. ASSUME IInv PROVE OneHandShown
  <2>1. PICK u, s : Unfolds(u, s)
    BY <1>1 DEF IInv
  <2>2. 0 \in 0..Len(chan)
    BY <1>1 DEF IInv, Typed
  <2>3. drops = 0 => Gone(view) \/ Coherent(view)
    BY <2>1, <2>2 DEF Unfolds
  <2>4. QED
    BY <2>3 DEF Coherent, OneHandShown
<1>2. QED
  BY <1>1, Invariance, PTL
===========================================================================
