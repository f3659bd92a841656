----------------------------- MODULE Client -----------------------------
(* What one player sees: the messages of a table actor                      *)
(* (server/internal/table/table.go), the session's bounded channel, which   *)
(* drops what does not fit, and the store of the web client                 *)
(* (web/src/store/session.ts), which folds the messages into a view.        *)
(* The table is abstracted to what its messages tell: which hand is played, *)
(* how far its board is, whose turn was announced, and how "me" stands in   *)
(* it.  Module Table has the handlers in full.                              *)
EXTENDS Integers, Sequences

CONSTANTS
  Cap,             \* capacity of the channel (32)
  Streets,         \* streets dealt after the blinds (3)
  MaxHands,        \* bound on the hands
  MaxAsides,       \* bound on the snapshots that no action of the hand causes
  MaxAdvances,     \* bound on the scheduled advanceStreetCmds
  MaxDrops         \* bound on the messages dropped

ASSUME ClientAssumption ==
  {Cap, Streets, MaxHands, MaxAsides, MaxAdvances, MaxDrops} \subseteq Nat \ {0}

Seats == {"me", "other"}
NoHand == 0
NoTurn == [hand |-> NoHand, seat |-> "other"]

VARIABLES
  hand,        \* the hand in play, NoHand between hands
  hands,       \* hands started since the player sat down
  street,      \* streets dealt in it
  shown,       \* its stage is showdown
  alone,       \* at most one player in it has not folded
  toAct,       \* hand.toAct, whose actions are accepted, "none" when that seat may not act
  betting,     \* "asked": a seat has been asked to act; "armed": the next one has armed
               \* a pre-action, which comes without a to_act; "closed"
  advances,    \* advanceStreetCmds scheduled for it
  turn,        \* what the last to_act or hand_end said
  mine,        \* the player's part in it: "out", "in" or "folded"
  dealt,       \* the player was dealt into the last hand started
  out,         \* messages the handler at work has still to send
  chan,        \* Session.sendCh
  view,        \* the store of the client, while its page stands
  asides,      \* snapshots left that no action of the hand causes
  stale,       \* history: parts of the view a dropped message would have changed
  reopened,    \* history: hands in which a seat was asked after they were settled
  drops        \* messages dropped so far

table == <<hand, hands, street, shown, alone, toAct, betting, advances, turn, mine, dealt,
           reopened>>
client == <<table, out, chan, view, asides, stale, drops>>
---------------------------------------------------------------------------
(* Messages.  A card of the board is the hand and the street it came on. *)

Board(h, n) == IF h = NoHand THEN <<>> ELSE [i \in 1..n |-> <<h, i>>]
\* What a nil slice becomes on its way (null), which no reducer takes for an empty one.
Null == <<<<NoHand, 0>>>>
Message(kind, h) == [kind |-> kind, hand |-> h, board |-> <<>>, seat |-> "other", folded |-> FALSE]

HandStart(h) == Message("hand_start", h)
DealHole(h) == Message("deal_hole", h)
DealCommunity(h, n) == [Message("deal_community", h) EXCEPT !.board = <<<<h, n>>>>]
DealNothing(h) == [Message("deal_community", h) EXCEPT !.board = Null]
ToAct(h, seat) == [Message("to_act", h) EXCEPT !.seat = seat]
Applied(h, seat, folds) ==
  [Message("action_applied", h) EXCEPT !.seat = seat, !.folded = folds]
PotUpdate(h) == Message("pot_update", h)
Showdown(h, board) == [Message("showdown", h) EXCEPT !.board = board]
HandEnd(h) == Message("hand_end", h)
TableState(h, n, part) ==
  [Message("table_state", h) EXCEPT !.board = Board(h, n), !.folded = (part = "folded")]

\* What a message changes in the view, and what it settles whatever came before.
Changes == [hand_start |-> {"hand", "board", "hole", "showdown"}, deal_hole |-> {"hole"},
            deal_community |-> {"board"}, to_act |-> {"turn"}, action_applied |-> {"folded"},
            pot_update |-> {}, showdown |-> {"board", "showdown"}, hand_end |-> {"turn"},
            table_state |-> {"hand", "board", "folded"}]
Decides(kind) == IF kind \in {"deal_community", "action_applied"} THEN {} ELSE Changes[kind]
Kinds == DOMAIN Changes
---------------------------------------------------------------------------
(* The reducers of the store, as App.tsx dispatches to them. *)

EmptyView == [hand |-> NoHand, board |-> <<>>, hole |-> NoHand, turn |-> NoTurn,
              folded |-> FALSE, showdown |-> NoHand]

\* Mutants of ApplyTableState: the board or the seats are kept.
KeepsBoard(v, m) == [v EXCEPT !.hand = m.hand, !.folded = m.folded]
KeepsSeats(v, m) == [v EXCEPT !.hand = m.hand, !.board = m.board]
ApplyTableState(v, m) ==
  [v EXCEPT !.hand = m.hand, !.board = m.board, !.folded = m.folded]
ApplyHandStart(v, m) ==
  [v EXCEPT !.hand = m.hand, !.board = <<>>, !.hole = NoHand, !.showdown = NoHand]
\* Mutant of ApplyHandEnd: the turn stays.
KeepsTurn(v, m) == v
ApplyHandEnd(v, m) == [v EXCEPT !.turn = NoTurn]
ApplyHole(v, m) == [v EXCEPT !.hole = m.hand]
ApplyCommunity(v, m) == IF m.board = Null THEN v ELSE [v EXCEPT !.board = @ \o m.board]
ApplyAction(v, m) == [v EXCEPT !.folded = @ \/ (m.seat = "me" /\ m.folded)]
ApplyToAct(v, m) == [v EXCEPT !.turn = [hand |-> m.hand, seat |-> m.seat]]
\* The page throws as it draws a null board (Table.tsx): it is taken down, and nothing is
\* applied any more.
NoPage == [EmptyView EXCEPT !.board = Null]
Gone(v) == v = NoPage
ApplyShowdown(v, m) ==
  IF m.board = Null THEN NoPage ELSE [v EXCEPT !.showdown = m.hand, !.board = m.board]

Dispatch(v, m) ==
  IF Gone(v) THEN v ELSE
  CASE m.kind = "table_state" -> ApplyTableState(v, m)
    [] m.kind = "hand_start" -> ApplyHandStart(v, m)
    [] m.kind = "hand_end" -> ApplyHandEnd(v, m)
    [] m.kind = "deal_hole" -> ApplyHole(v, m)
    [] m.kind = "deal_community" -> ApplyCommunity(v, m)
    [] m.kind = "action_applied" -> ApplyAction(v, m)
    [] m.kind = "to_act" -> ApplyToAct(v, m)
    [] m.kind = "showdown" -> ApplyShowdown(v, m)
    [] OTHER -> v          \* pot_update: the pot is not modelled
---------------------------------------------------------------------------
Over == shown \/ alone
Asked(seat) == [hand |-> hand, seat |-> seat]

\* The player has just been seated, between hands or in the middle of one: the
\* snapshot shows the table, but not whose turn it is, nor who has just won.
Init ==
  /\ \/ /\ hand = NoHand /\ street = 0 /\ shown = FALSE /\ alone = FALSE
        /\ toAct = "none" /\ betting = "closed" /\ advances = 0
        /\ turn = NoTurn /\ stale = {}
     \/ /\ hand = 1 /\ street \in 0..Streets
        /\ shown \in BOOLEAN /\ alone \in BOOLEAN
        /\ toAct \in {"other", "none"} /\ betting \in {"asked", "closed"}
        /\ advances \in 0..MaxAdvances
        /\ betting = "asked" => toAct = "other" /\ ~alone
        /\ turn = IF Over THEN NoTurn ELSE Asked("other")
        /\ stale = {"turn", "showdown"}
  /\ hands = hand /\ mine = "out" /\ dealt = FALSE /\ reopened = {}
  /\ out = <<TableState(hand, street, "out")>> /\ chan = <<>>
  /\ view = EmptyView /\ asides = MaxAsides /\ drops = 0

\* A handler of the actor: it starts when the one before has sent everything.
Handles(messages) ==
  /\ out = <<>>
  /\ out' = messages
  /\ UNCHANGED <<chan, view, stale, drops>>

\* Who can be next to act: anybody in the hand, or nobody.
Askable(part) == IF part = "in" THEN Seats ELSE {"other"}
Actors(part) == Askable(part) \cup {"none"}

StartHand ==
  /\ hand = NoHand /\ hands < MaxHands
  /\ hand' = hands + 1 /\ hands' = hands + 1
  /\ street' = 0 /\ betting' = "asked"
  /\ mine' \in {"out", "in"} /\ dealt' = (mine' = "in")
  /\ toAct' \in Askable(mine') /\ turn' = [hand |-> hand', seat |-> toAct']
  /\ Handles(<<HandStart(hand')>> \o (IF dealt' THEN <<DealHole(hand')>> ELSE <<>>)
             \o <<TableState(hand', 0, mine'), ToAct(hand', toAct')>>)
  /\ UNCHANGED <<shown, alone, advances, asides, reopened>>

\* maybeFinishStreetOrHand, with what it broadcasts.  The turn goes on, at once when the
\* next seat has armed a pre-action.
GoesOn(before, after) ==
  /\ ~alone /\ UNCHANGED <<alone, shown>>
  /\ toAct' \in Askable(mine') /\ betting' = "asked" /\ turn' = Asked(toAct')
  /\ reopened' = IF Over THEN reopened \cup {hand} ELSE reopened
  /\ Handles(before \o <<TableState(hand, street', mine'), ToAct(hand, toAct')>> \o after)
GoesOnArmed(before) ==
  /\ ~alone /\ UNCHANGED <<alone, shown, turn, reopened>>
  /\ toAct' \in Askable(mine') /\ betting' = "armed"
  /\ Handles(before \o <<TableState(hand, street', mine')>>)
\* The round is closed: the next street is scheduled, once more if it already was.
Closes(before, after) ==
  /\ ~alone /\ UNCHANGED <<alone, shown, turn, reopened>>
  /\ advances < MaxAdvances /\ advances' = advances + 1
  /\ betting' = "closed"
  /\ Handles(before \o after)
\* One player is left: endByFoldOut, every time.  Before the flop the community is nil,
\* and the page draws it unless the next message comes first.
FoldsOut(before, after) ==
  /\ alone' = TRUE /\ UNCHANGED <<shown, advances, reopened>>
  /\ betting' = "closed" /\ turn' = NoTurn
  /\ \E board \in {Board(hand, street)} \cup IF street = 0 THEN {Null} ELSE {} :
       Handles(before \o <<Showdown(hand, board), HandEnd(hand)>> \o after)

\* applyActionAndBroadcast, for a player, the turn timer, or a pre-action; the latter
\* continues the handler that found it.  The seat last to act may act again after the
\* round is closed, and after the hand is settled.
Act ==
  /\ toAct # "none"
  /\ UNCHANGED <<hand, hands, street, dealt, asides>>
  /\ \E folds \in BOOLEAN :
       LET before == <<Applied(hand, toAct, folds), PotUpdate(hand)>>
       IN  /\ mine' = IF toAct = "me" /\ folds THEN "folded" ELSE mine
           /\ \/ UNCHANGED advances /\ (GoesOn(before, <<>>) \/ GoesOnArmed(before))
              \/ /\ toAct' \in {"none"} \cup IF folds THEN {} ELSE {toAct}
                 /\ \/ Closes(before, <<>>)
                    \/ (folds \/ alone) /\ FoldsOut(before, <<>>)

\* leaveCmd of another player who has not folded; the snapshot comes last.
\* A pre-action it sets off is left to the case of an action.
OtherLeaves ==
  /\ hand # NoHand /\ betting # "armed"
  /\ alone => mine # "in"
  /\ asides > 0 /\ asides' = asides - 1
  /\ UNCHANGED <<hand, hands, street, mine, dealt>>
  /\ LET after == <<TableState(hand, street, mine)>>
     IN  \/ UNCHANGED advances /\ GoesOn(<<>>, after)
         \/ /\ toAct' \in {toAct} \cup IF toAct = "me" THEN {} ELSE Actors(mine)
            /\ (Closes(<<>>, after) \/ FoldsOut(<<>>, after))

\* settleAndBroadcast: an open turn stays open.
SettleAndBroadcast(before) ==
  /\ shown' = TRUE /\ advances' = advances - 1
  /\ turn' = NoTurn /\ UNCHANGED <<alone, betting, reopened>>
  /\ Handles(before \o <<PotUpdate(hand), Showdown(hand, Board(hand, street')), HandEnd(hand)>>)

\* resetForNextStreet, and betting again or the next street; past the river the one
\* after, for ever.
Reopens(cards) ==
  \/ /\ advances' = advances - 1 /\ (GoesOn(cards, <<>>) \/ GoesOnArmed(cards))
  \/ /\ toAct' \in Actors(mine)
     /\ \/ /\ street' < Streets \/ shown
           /\ betting' = "closed" /\ Handles(cards)
           /\ UNCHANGED <<advances, shown, alone, turn, reopened>>
        \/ street' = Streets /\ ~shown /\ SettleAndBroadcast(cards)

\* advanceStreet, for any advanceStreetCmd of the hand.
AdvanceStreet ==
  /\ advances > 0 /\ betting # "armed"
  /\ UNCHANGED <<hand, hands, mine, dealt, asides>>
  /\ \/ shown /\ street' = street /\ Reopens(<<DealNothing(hand)>>)
     \/ /\ ~shown /\ street < Streets
        /\ street' = street + 1 /\ Reopens(<<DealCommunity(hand, street')>>)
     \/ ~shown /\ street = Streets /\ UNCHANGED <<street, toAct>> /\ SettleAndBroadcast(<<>>)

\* cleanupHand
EndHand ==
  /\ Over /\ betting # "armed"
  /\ hand' = NoHand /\ street' = 0 /\ shown' = FALSE /\ alone' = FALSE
  /\ toAct' = "none" /\ betting' = "closed" /\ advances' = 0 /\ mine' = "out"
  /\ Handles(<<TableState(NoHand, 0, "out")>>)
  /\ UNCHANGED <<hands, turn, dealt, asides, reopened>>

\* Somebody sits down, out or in, or leaves without being in the hand.
Snapshot ==
  /\ betting # "armed"
  /\ asides > 0 /\ asides' = asides - 1
  /\ Handles(<<TableState(hand, street, mine)>>)
  /\ UNCHANGED table

\* sendTo, one message after the other, while the writer empties the channel.
\* Mutant of HasRoom: one too many.
HasRoomInclusive(q) == Len(q) <= Cap
HasRoom(q) == Len(q) < Cap
SendTo ==
  /\ out # <<>>
  /\ out' = Tail(out)
  /\ LET m == Head(out)
     IN  IF HasRoom(chan)
         THEN /\ chan' = Append(chan, m)
              /\ stale' = stale \ Decides(m.kind)
              /\ UNCHANGED drops
         ELSE /\ drops < MaxDrops /\ drops' = drops + 1
              /\ stale' = stale \cup Changes[m.kind]
              /\ UNCHANGED chan
  /\ UNCHANGED <<table, view, asides>>

\* The writer sends the next message and the client's handler applies it.
Receive ==
  /\ chan # <<>>
  /\ chan' = Tail(chan)
  /\ view' = Dispatch(view, Head(chan))
  /\ UNCHANGED <<table, out, asides, stale, drops>>

TableStep == StartHand \/ Act \/ OtherLeaves \/ AdvanceStreet \/ EndHand \/ Snapshot
Next == TableStep \/ SendTo \/ Receive
Spec == Init /\ [][Next]_client
\* The actor finishes its handlers and the writer its channel.
FairSpec == Spec /\ WF_client(SendTo) /\ WF_client(Receive)
---------------------------------------------------------------------------
(* Properties. *)

\* What the view should be once everything sent has arrived.
Truth ==
  [hand |-> hand, board |-> Board(hand, street),
   hole |-> IF dealt THEN hands ELSE NoHand,
   turn |-> IF hand = NoHand \/ Over THEN NoTurn ELSE turn,
   folded |-> mine = "folded",
   showdown |-> IF Over \/ hand = NoHand THEN hands ELSE NoHand]

\* The channel keeps to its capacity; the rest says what the values look like.
TypeOK ==
  /\ hand \in 0..MaxHands /\ hands \in 0..MaxHands /\ street \in 0..Streets
  /\ {shown, alone, dealt} \subseteq BOOLEAN /\ toAct \in Seats \cup {"none"}
  /\ betting \in {"asked", "armed", "closed"} /\ advances \in 0..MaxAdvances
  /\ turn \in [hand : 0..MaxHands, seat : Seats] /\ mine \in {"out", "in", "folded"}
  /\ Len(chan) <= Cap /\ Len(out) <= 5
  /\ \A i \in DOMAIN chan : chan[i].kind \in Kinds
  /\ stale \subseteq DOMAIN view /\ DOMAIN view = DOMAIN EmptyView
  /\ reopened \subseteq 1..MaxHands /\ drops \in 0..MaxDrops

\* A slow client catches up (table.go sendTo drops what does not fit): each part of the
\* view agrees with the table once the channel is empty, unless a message about it was
\* dropped and none that settles it has been sent since.  So a snapshot repairs the
\* board, the hand and the seats, but hole cards, turn and showdown wait for their own.
\* Only the turn of a hand that went on after its end stays shown.
CatchesUp ==
  out = <<>> /\ chan = <<>> /\ ~Gone(view) =>
    \A part \in DOMAIN view \ stale :
      \/ view[part] = Truth[part]
      \/ part = "turn" /\ view.turn.hand \in reopened

\* As long as nothing is dropped the view never mixes two hands, however far it is
\* behind: what is on the board, whose turn it is and the hand id an action is sent
\* with belong together (ActionBar.tsx), and so do the player's own cards; but for the
\* turn of a hand that went on after its end.
OneHandShown ==
  drops = 0 /\ ~Gone(view) =>
    /\ view.turn = NoTurn \/ view.turn.hand \in {view.hand} \cup reopened
    /\ \A i \in DOMAIN view.board : view.board[i] = <<view.hand, i>>
    /\ view.hand # NoHand => view.hole \in {NoHand, view.hand}

\* Each time the server waits for this player the action bar comes up, also if the turn
\* has passed meanwhile, and what it sends names that hand, unless messages were dropped.
MyTurn(h) == hand = h /\ betting = "asked" /\ toAct = "me" /\ ~Over
BarShown(h) == view.turn = [hand |-> h, seat |-> "me"] /\ ~view.folded /\ view.hand = h
TurnShown ==
  \A h \in 1..MaxHands : MyTurn(h) ~> (BarShown(h) \/ Gone(view) \/ drops > 0)
===========================================================================
