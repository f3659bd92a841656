------------------------- MODULE HistoryProofs -------------------------
(* Theorems about module History, for any number of hands, savers per hand, *)
(* actions and deadlines, as long as a save is given up before the hand it  *)
(* belongs to is cleared.                                                   *)
EXTENDS History, TLAPS

\* A saver exists only for a settlement whose record has been finalised, and only a
\* settled hand is stored; so no saver reads, and no document holds, a hand still played.
AfterSettlement ==
  /\ \A s \in Savers : saver[s] # "none" => s[2] <= record[s[1]].result
  /\ \A h \in stored : record[h].result > 0

\* A record is finalised for the hand in play: the first time nobody reads it yet, and
\* later its hand counts as touched.
InFinalize ==
  filling => /\ hand \in Hands /\ record[hand].result > 0
             /\ record[hand].result > 1 => hand \in touched
             /\ \A s \in Savers : saver[s] # "none" /\ s[1] = hand => s[2] < record[hand].result

ReadFrontOf(s) == saver[s] \in {"front", "actions", "sent", "late"}
ReadActionsOf(s) == saver[s] \in {"actions", "sent", "late"}
ReadBackOf(s) == saver[s] \in {"sent", "late"}
Fair(s, r) == r # 0 /\ (r = Half => s[1] \in touched)

\* What is marshalled, and the record itself, is no shorter than the timeline was when
\* the hand was settled, and has a result; half a one only of a hand settled again.
Complete ==
  /\ \A h \in Hands : record[h].result > 0 => record[h].actions >= closedAt[h]
  /\ \A s \in Savers : /\ ReadFrontOf(s) => Fair(s, payload[s].front)
                       /\ ReadActionsOf(s) => payload[s].actions >= closedAt[s[1]]
                       /\ ReadBackOf(s) => Fair(s, payload[s].back)

\* What is marshalled of a hand left alone is the record.
Faithful ==
  \A s \in Savers : s[1] \notin touched =>
    /\ ReadFrontOf(s) => payload[s].front = record[s[1]].result
    /\ ReadActionsOf(s) => payload[s].actions = record[s[1]].actions
    /\ ReadBackOf(s) => payload[s].back = record[s[1]].result

\* While no hand is settled twice, who is at work saves the hand in play, and has been
\* at it for as long as that hand is settled.
InTime ==
  (\A h \in Hands : record[h].result <= 1)
    => \A s \in Savers : saver[s] \in Alive => s[1] = hand /\ age[s] >= since

\* The inductive invariant.
IInv == /\ TypeOK /\ AfterSettlement /\ InFinalize /\ Complete /\ Faithful /\ InTime
        /\ NothingUnfinished /\ SavedIsFinal
------------------------------------------------------------------------
\* The record of one hand changes, and no other one.
Rewritten(h, a, r) ==
  /\ record' \in [Hands -> Records]
  /\ record'[h].actions = a /\ record'[h].result = r
  /\ \A g \in Hands \ {h} : record'[g] = record[g]

LEMMA InitHolds == Init => IInv
<1> SUFFICES ASSUME Init PROVE IInv
  OBVIOUS
<1>1. Blank \in Records /\ BlankDoc \in Documents /\ 0 \in 0..SaveTimeout /\ 0 \in 0..EndDelay
      /\ 0 \in 0..MaxActions /\ 0 \in 0..MaxHands
  BY HistoryAssumption DEF Blank, BlankDoc, Records, Documents, Results
<1>2. TypeOK
  BY <1>1 DEF Init, TypeOK, States
<1>3. AfterSettlement /\ InFinalize /\ NothingUnfinished /\ SavedIsFinal
  BY DEF Init, AfterSettlement, InFinalize, NothingUnfinished, SavedIsFinal
<1>4. Complete /\ Faithful /\ InTime
  BY DEF Init, Complete, Faithful, InTime, ReadFrontOf, ReadActionsOf, ReadBackOf, Alive, Blank
<1> QED
  BY <1>2, <1>3, <1>4 DEF IInv

LEMMA SaverIsOfHand == \A s \in Savers : s[1] \in Hands /\ s[2] \in 1..MaxFinals
  BY DEF Savers

\* Whoever saves a hand, the hand is settled.
LEMMA SavedIsSettled ==
  ASSUME IInv, NEW s \in Savers, saver[s] # "none"
  PROVE  s[1] \in Hands /\ record[s[1]].result \in Nat /\ record[s[1]].result > 0
<1>1. s[1] \in Hands /\ s[2] \in Nat /\ s[2] > 0
  BY SaverIsOfHand, HistoryAssumption
<1>2. record[s[1]] \in Records
  BY <1>1 DEF IInv, TypeOK
<1>3. record[s[1]].result \in Nat
  BY <1>2 DEF Records
<1>4. s[2] <= record[s[1]].result
  BY DEF IInv, AfterSettlement
<1> QED
  BY <1>1, <1>3, <1>4

\* What a saver finds of the result: the record's, or half a one of a hand settled again.
LEMMA FoundResult ==
  ASSUME IInv, NEW s \in Savers, saver[s] # "none"
  PROVE  /\ Result(s[1]) \in Results /\ Fair(s, Result(s[1]))
         /\ s[1] \notin touched => Result(s[1]) = record[s[1]].result
<1>1. s[1] \in Hands /\ record[s[1]].result \in Nat /\ record[s[1]].result > 0
      /\ s[2] \in Nat /\ s[2] > 0
  BY SavedIsSettled, SaverIsOfHand, HistoryAssumption
<1>2. record[s[1]].result \in Results
  BY <1>1 DEF IInv, TypeOK, Records, Results
<1>3. filling /\ s[1] = hand => s[1] \in touched
  BY <1>1 DEF IInv, InFinalize
<1>4. Half \in Results /\ Half # 0 /\ Half \notin Nat
  BY DEF Results, Half
<1> QED
  BY <1>1, <1>2, <1>3, <1>4 DEF Result, Fair

LEMMA ActKeeps == IInv /\ Act => IInv'
<1> SUFFICES ASSUME IInv, Act PROVE IInv'
  OBVIOUS
<1> USE HistoryAssumption DEF IInv, Act, Playing, Ended
<1>1. Rewritten(hand, record[hand].actions + 1, record[hand].result)
  <2>1. record \in [Hands -> Records] /\ hand \in Hands /\ record[hand].actions < MaxActions
        /\ record' = [record EXCEPT ![hand].actions = @ + 1]
    BY DEF TypeOK
  <2> HIDE DEF IInv, Act
  <2>2. record[hand].actions + 1 \in 0..MaxActions
    BY <2>1 DEF Records
  <2> QED
    BY <2>1, <2>2 DEF Rewritten, Records
<1>2. TypeOK'
  <2>1. touched' \subseteq Hands
    BY DEF TypeOK
  <2> QED
    BY <1>1, <2>1 DEF TypeOK, Rewritten
<1>3. AfterSettlement' /\ InFinalize'
  BY <1>1, SaverIsOfHand DEF AfterSettlement, InFinalize, TypeOK, Rewritten
<1>4. touched \subseteq touched'
  OBVIOUS
<1>5. Complete'
  <2>1. \A h \in Hands : record[h].actions \in Nat /\ closedAt[h] \in Nat
    BY DEF TypeOK, Records
  <2>2. \A h \in Hands : record'[h].actions >= record[h].actions /\ record'[h].result = record[h].result
    BY <1>1, <2>1 DEF Rewritten
  <2>3. \A h \in Hands : record'[h].actions \in Nat
    BY <1>1 DEF Rewritten, Records
  <2> QED
    BY <1>4, <2>1, <2>2, <2>3 DEF Complete, Fair, ReadFrontOf, ReadActionsOf, ReadBackOf
<1>6. Faithful'
  <2> SUFFICES ASSUME NEW s \in Savers, s[1] \notin touched', ReadFrontOf(s)
               PROVE  s[1] \notin touched /\ s[1] # hand
    BY <1>1, SaverIsOfHand
       DEF Faithful, Rewritten, ReadFrontOf, ReadActionsOf, ReadBackOf
  <2>1. saver[s] # "none"
    BY DEF ReadFrontOf
  <2>2. record[s[1]].result > 0
    BY <2>1, SavedIsSettled
  <2> QED
    BY <2>2
<1>7. InTime'
  BY <1>1, SaverIsOfHand DEF InTime, TypeOK, Rewritten
<1>8. NothingUnfinished'
  BY <1>4 DEF NothingUnfinished
<1>9. SavedIsFinal'
  BY <1>1 DEF SavedIsFinal, AfterSettlement, TypeOK, Rewritten
<1> QED
  BY <1>2, <1>3, <1>5, <1>6, <1>7, <1>8, <1>9 DEF IInv

\* The hand is settled: nobody has read it, and it is not stored.
LEMMA FinishKeeps == IInv /\ Finish => IInv'
<1> SUFFICES ASSUME IInv, Finish PROVE IInv'
  OBVIOUS
<1> USE HistoryAssumption DEF IInv, Finish, Playing, Ended, BeginRecord
<1>1. Rewritten(hand, record[hand].actions, record[hand].result + 1) /\ record[hand].result = 0
  BY DEF Rewritten, TypeOK, Records, Hands
<1>2. \A s \in Savers : s[1] = hand => saver[s] = "none"
  <2> HIDE DEF IInv, Finish
  <2> SUFFICES ASSUME NEW s \in Savers, s[1] = hand, saver[s] # "none" PROVE FALSE
    OBVIOUS
  <2> QED
    BY <1>1, SavedIsSettled
<1>3. hand \notin stored
  BY <1>1 DEF AfterSettlement
<1>4. closedAt' \in [Hands -> 0..MaxActions] /\ closedAt'[hand] = record[hand].actions
      /\ \A h \in Hands \ {hand} : closedAt'[h] = closedAt[h]
  BY DEF TypeOK, Records, Hands
<1>5. TypeOK'
  BY <1>1, <1>4 DEF TypeOK, Rewritten
<1>6. AfterSettlement' /\ InFinalize'
  <2>1. \A h \in Hands : record'[h].result >= record[h].result /\ record'[h].result \in Nat
    BY <1>1 DEF Rewritten, TypeOK, Records
  <2> QED
    BY <1>1, <1>2, <1>3, <2>1, SaverIsOfHand DEF AfterSettlement, InFinalize, Rewritten, TypeOK
<1>7. Complete'
  <2>1. \A h \in Hands : record'[h].result > 0 => record'[h].actions >= closedAt'[h]
    BY <1>1, <1>4 DEF Complete, Rewritten, TypeOK, Records
  <2>2. \A s \in Savers : saver[s] # "none" => closedAt'[s[1]] = closedAt[s[1]]
    BY <1>2, <1>4, SaverIsOfHand
  <2> QED
    BY <2>1, <2>2 DEF Complete, Fair, ReadFrontOf, ReadActionsOf, ReadBackOf
<1>8. Faithful'
  BY <1>1, <1>2, SaverIsOfHand
     DEF Faithful, Rewritten, ReadFrontOf, ReadActionsOf, ReadBackOf
<1>9. InTime'
  <2> SUFFICES ASSUME \A h \in Hands : record'[h].result <= 1,
                      NEW s \in Savers, saver[s] \in Alive
               PROVE  FALSE
    BY DEF InTime
  <2>1. \A h \in Hands : record[h].result <= 1
    BY <1>1 DEF Rewritten
  <2>2. s[1] = hand
    BY <2>1 DEF InTime
  <2> QED
    BY <1>2, <2>2 DEF Alive
<1>10. NothingUnfinished' /\ SavedIsFinal'
  BY <1>1, <1>3, <1>4 DEF NothingUnfinished, SavedIsFinal, Rewritten, TypeOK
<1> QED
  BY <1>5, <1>6, <1>7, <1>8, <1>9, <1>10

LEMMA FinishAgainKeeps == IInv /\ FinishAgain => IInv'
<1> SUFFICES ASSUME IInv, FinishAgain PROVE IInv'
  OBVIOUS
<1> USE HistoryAssumption DEF IInv, FinishAgain, Playing, Ended, BeginRecord
<1>1. Rewritten(hand, record[hand].actions, record[hand].result + 1)
      /\ record[hand].result \in 1..MaxFinals
  <2>1. record[hand] \in Records /\ record[hand].result > 0 /\ record[hand].result < MaxFinals
    BY DEF TypeOK, Records
  <2>2. record[hand].result + 1 \in 0..MaxFinals
    BY <2>1 DEF Records
  <2> QED
    BY <2>1, <2>2 DEF Rewritten, TypeOK, Records
<1>2. \A h \in Hands : record'[h].actions = record[h].actions
  BY <1>1 DEF Rewritten
<1>3. \A h \in Hands : record'[h].result >= record[h].result /\ record'[h].result \in Nat
                        /\ record[h].result \in Nat /\ (h # hand => record'[h] = record[h])
  BY <1>1 DEF Rewritten, TypeOK, Records
<1>4. TypeOK'
  BY <1>1 DEF TypeOK, Rewritten
<1>5. AfterSettlement'
  BY <1>1, <1>3, SaverIsOfHand DEF AfterSettlement, TypeOK, Rewritten
<1>6. InFinalize'
  <2>1. \A s \in Savers : saver[s] # "none" /\ s[1] = hand => s[2] <= record[hand].result
    BY DEF AfterSettlement
  <2> QED
    BY <1>1, <2>1, SaverIsOfHand DEF InFinalize, Rewritten
<1>7. Complete'
  BY <1>1, <1>2, <1>3, SaverIsOfHand
     DEF Complete, Fair, ReadFrontOf, ReadActionsOf, ReadBackOf
<1>8. Faithful'
  BY <1>3, SaverIsOfHand DEF Faithful, ReadFrontOf, ReadActionsOf, ReadBackOf
<1>9. InTime'
  BY <1>1 DEF InTime, Rewritten, TypeOK
<1>10. NothingUnfinished' /\ SavedIsFinal'
  BY <1>3 DEF NothingUnfinished, SavedIsFinal, TypeOK
<1> QED
  BY <1>4, <1>5, <1>6, <1>7, <1>8, <1>9, <1>10

\* A finalised record gets its saver, and the others go on.
LEMMA PersistKeeps == IInv /\ Persist => IInv'
<1> SUFFICES ASSUME IInv, Persist PROVE IInv'
  OBVIOUS
<1> USE HistoryAssumption DEF IInv, Persist, Spawn
<1> DEFINE new == <<hand, record[hand].result>>
<1>1. hand \in Hands /\ record[hand].result \in 1..MaxFinals
  BY DEF InFinalize, TypeOK, Records
<1>2. new \in Savers /\ saver'[new] = "started" /\ age'[new] = 0
      /\ \A s \in Savers \ {new} : saver'[s] = saver[s] /\ age'[s] = age[s]
  BY <1>1 DEF Savers, TypeOK
<1>3. TypeOK'
  <2>1. saver' \in [Savers -> States] /\ age' \in [Savers -> 0..SaveTimeout]
        /\ since' \in 0..EndDelay
    BY <1>2 DEF TypeOK, States
  <2> QED
    BY <2>1 DEF TypeOK
<1>4. AfterSettlement' /\ InFinalize'
  BY <1>1, <1>2 DEF AfterSettlement, InFinalize
<1>5. Complete' /\ Faithful'
  BY <1>2 DEF Complete, Faithful, Fair, ReadFrontOf, ReadActionsOf, ReadBackOf
<1>6. InTime'
  <2> SUFFICES ASSUME \A h \in Hands : record[h].result <= 1,
                      NEW s \in Savers, saver'[s] \in Alive
               PROVE  s = new /\ since' = 0
    BY <1>2 DEF InTime, TypeOK
  <2>1. record[hand].result = 1 /\ since' = 0
    BY <1>1
  <2>2. s # new => s[1] = hand /\ saver[s] # "none"
    BY <1>2 DEF InTime, Alive
  <2>3. s # new => s[2] < 1 /\ s[2] \in 1..MaxFinals
    BY <2>1, <2>2, SaverIsOfHand DEF InFinalize
  <2> QED
    BY <2>1, <2>3
<1>7. NothingUnfinished' /\ SavedIsFinal'
  BY DEF NothingUnfinished, SavedIsFinal
<1> QED
  BY <1>3, <1>4, <1>5, <1>6, <1>7

\* A hand is cleared only after its saver is done.
LEMMA ActorKeeps == IInv /\ (StartHand \/ EndHand \/ Cancel) => IInv'
<1> SUFFICES ASSUME IInv, StartHand \/ EndHand \/ Cancel PROVE IInv'
  OBVIOUS
<1> USE HistoryAssumption DEF IInv, StartHand, EndHand, Cancel, Playing
<1>1. TypeOK'
  <2>1. /\ server' \in {"up", "closing", "gone"}
        /\ hands' \in 0..MaxHands /\ hand' \in Hands \cup {NoHand} /\ since' \in 0..EndDelay
    BY DEF TypeOK, Hands, NoHand
  <2> QED
    BY <2>1 DEF TypeOK
<1>2. AfterSettlement' /\ NothingUnfinished' /\ SavedIsFinal'
  BY DEF AfterSettlement, NothingUnfinished, SavedIsFinal
<1>3. Complete' /\ Faithful'
  BY DEF Complete, Faithful, Fair, ReadFrontOf, ReadActionsOf, ReadBackOf
<1>4. InFinalize'
  <2>1. NoHand \notin Hands
    BY DEF NoHand, Hands
  <2>2. filling => UNCHANGED <<filling, hand, record, touched, saver>>
    BY <2>1 DEF InFinalize
  <2>3. filling' = filling
    OBVIOUS
  <2> QED
    BY <2>2, <2>3 DEF InFinalize
<1>5. InTime'
  <2>1. CASE StartHand
    BY <2>1, SaverIsOfHand DEF InTime, Hands, NoHand
  <2>2. CASE EndHand
    <3> SUFFICES ASSUME \A h \in Hands : record[h].result <= 1,
                        NEW s \in Savers, saver[s] \in Alive
                 PROVE  FALSE
      BY <2>2 DEF InTime
    <3>1. age[s] >= since /\ age[s] <= SaveTimeout /\ age[s] \in Nat
      BY DEF InTime, TypeOK
    <3> QED
      BY <2>2, <3>1 DEF Over, TypeOK
  <2>3. CASE Cancel
    BY <2>3 DEF InTime
  <2> QED
    BY <2>1, <2>2, <2>3
<1> QED
  BY <1>1, <1>2, <1>3, <1>4, <1>5

\* Any step that leaves the actor alone and only lets savers go on, return or be cut off.
LEMMA TickKeeps == IInv /\ Tick => IInv'
<1> SUFFICES ASSUME IInv, Tick PROVE IInv'
  OBVIOUS
<1> USE HistoryAssumption DEF IInv, Tick, Ended
<1>1. \A s \in Savers : saver[s] \in Alive => age[s] < SaveTimeout
  BY DEF Expired, TypeOK
<1>2. age' \in [Savers -> 0..SaveTimeout]
  BY <1>1 DEF TypeOK
<1>3. since' \in 0..EndDelay /\ since' <= since + 1
  BY DEF TypeOK
<1>4. TypeOK'
  BY <1>2, <1>3 DEF TypeOK
<1>5. /\ AfterSettlement' /\ InFinalize' /\ Complete' /\ Faithful'
      /\ NothingUnfinished' /\ SavedIsFinal'
  BY DEF AfterSettlement, InFinalize, Complete, Faithful, NothingUnfinished, SavedIsFinal,
     Fair, ReadFrontOf, ReadActionsOf, ReadBackOf
<1>6. InTime'
  BY <1>2, <1>3 DEF InTime, TypeOK
<1> QED
  BY <1>4, <1>5, <1>6

LEMMA ExitKeeps == IInv /\ Exit => IInv'
<1> SUFFICES ASSUME IInv, Exit PROVE IInv'
  OBVIOUS
<1> USE HistoryAssumption DEF IInv, Exit
<1>1. \A s \in Savers : /\ saver'[s] \in States \ Alive /\ age'[s] = 0
                        /\ saver'[s] = saver[s] \/ (saver[s] = "sent" /\ saver'[s] = "late")
                           \/ (saver[s] \in Alive /\ saver'[s] = "failed")
  BY DEF TypeOK, States, Alive
<1>2. saver' \in [Savers -> States] /\ age' \in [Savers -> 0..SaveTimeout]
  BY <1>1 DEF States
<1>3. TypeOK'
  BY <1>2 DEF TypeOK
<1>4. AfterSettlement' /\ InFinalize' /\ NothingUnfinished' /\ SavedIsFinal'
  BY <1>1 DEF AfterSettlement, InFinalize, NothingUnfinished, SavedIsFinal, Alive
<1>5. Complete' /\ Faithful'
  BY <1>1 DEF Complete, Faithful, Fair, ReadFrontOf, ReadActionsOf, ReadBackOf, Alive
<1>6. InTime'
  BY <1>1 DEF InTime
<1> QED
  BY <1>3, <1>4, <1>5, <1>6

\* A saver reads on: what it finds at that moment.
LEMMA ReadKeeps == ASSUME NEW s \in Savers PROVE IInv /\ Read(s) => IInv'
<1> SUFFICES ASSUME IInv, Read(s) PROVE IInv'
  OBVIOUS
<1> USE HistoryAssumption DEF Captured, Saved
<1> DEFINE r == record[s[1]]
           f == Result(s[1])
<1>1. /\ saver[s] \in {"started", "front", "actions"}
      /\ UNCHANGED <<server, mongo, hand, hands, record, filling, since, age, stored, docs,
                     closedAt, touched>>
  BY DEF Read, ReadFront, ReadActions, ReadBack
<1>2. s[1] \in Hands /\ r \in Records /\ r.actions \in 0..MaxActions /\ r.actions >= closedAt[s[1]]
  BY <1>1, SaverIsOfHand, SavedIsSettled DEF IInv, Complete, TypeOK, Records
<1>3. f \in Results /\ Fair(s, f) /\ (s[1] \notin touched => f = r.result)
  BY <1>1, FoundResult
<1>4. payload[s] \in Documents /\ payload \in [Savers -> Documents] /\ saver \in [Savers -> States]
  BY DEF IInv, TypeOK
<1>5. /\ payload' \in [Savers -> Documents] /\ saver' \in [Savers -> States]
      /\ \A t \in Savers \ {s} : saver'[t] = saver[t] /\ payload'[t] = payload[t]
  BY <1>2, <1>3, <1>4 DEF Read, ReadFront, ReadActions, ReadBack, States, Documents
<1>6. \/ saver'[s] = "front" /\ payload'[s].front = f
      \/ /\ saver[s] = "front" /\ saver'[s] = "actions"
         /\ payload'[s].front = payload[s].front /\ payload'[s].actions = r.actions
      \/ /\ saver[s] = "actions" /\ saver'[s] = "sent"
         /\ payload'[s].front = payload[s].front /\ payload'[s].actions = payload[s].actions
         /\ payload'[s].back = f
  BY <1>4 DEF Read, ReadFront, ReadActions, ReadBack, Documents
<1>7. TypeOK'
  BY <1>1, <1>5 DEF IInv, TypeOK
<1>8. AfterSettlement' /\ InFinalize' /\ NothingUnfinished' /\ SavedIsFinal'
  BY <1>1, <1>5, <1>6 DEF IInv, AfterSettlement, InFinalize, NothingUnfinished, SavedIsFinal
<1>9. Complete'
  BY <1>1, <1>2, <1>3, <1>5, <1>6
     DEF IInv, Complete, Fair, ReadFrontOf, ReadActionsOf, ReadBackOf
<1>10. Faithful'
  BY <1>1, <1>2, <1>3, <1>5, <1>6
     DEF IInv, Faithful, ReadFrontOf, ReadActionsOf, ReadBackOf
<1>11. InTime'
  BY <1>1, <1>5, <1>6 DEF IInv, InTime, Alive
<1> QED
  BY <1>7, <1>8, <1>9, <1>10, <1>11 DEF IInv

\* A saver returns, and what it sent stays as it was or is forgotten.
LEMMA DoneKeeps ==
  ASSUME NEW s \in Savers, NEW state \in {"landed", "late", "failed"},
         IInv, Done(s, state), state = "late" => saver[s] = "sent", saver[s] # "none",
         UNCHANGED <<mongo, hand, hands, record, filling, since, server, closedAt, touched>>
  PROVE  /\ AfterSettlement' \/ stored' # stored
         /\ InFinalize'
         /\ Complete' /\ Faithful' /\ InTime'
         /\ saver' \in [Savers -> States] /\ payload' \in [Savers -> Documents]
         /\ age' \in [Savers -> 0..SaveTimeout]
<1>1. BlankDoc \in Documents
  BY HistoryAssumption DEF BlankDoc, Documents, Results
<1>2. /\ saver' \in [Savers -> States] /\ payload' \in [Savers -> Documents]
      /\ age' \in [Savers -> 0..SaveTimeout]
  BY <1>1, HistoryAssumption DEF IInv, Done, TypeOK, States
<1>3. /\ saver'[s] = state
      /\ state = "late" => payload'[s] = payload[s]
      /\ \A t \in Savers \ {s} : saver'[t] = saver[t] /\ payload'[t] = payload[t] /\ age'[t] = age[t]
  BY DEF IInv, Done, TypeOK
<1>4. Complete'
  BY <1>3 DEF IInv, Complete, Fair, ReadFrontOf, ReadActionsOf, ReadBackOf
<1>5. Faithful'
  BY <1>3 DEF IInv, Faithful, ReadFrontOf, ReadActionsOf, ReadBackOf
<1>6. InTime'
  BY <1>3 DEF IInv, InTime, Alive
<1>7. (AfterSettlement' \/ stored' # stored) /\ InFinalize'
  BY <1>3 DEF IInv, AfterSettlement, InFinalize
<1> QED
  BY <1>2, <1>4, <1>5, <1>6, <1>7

LEMMA ReturnKeeps ==
  ASSUME NEW s \in Savers PROVE IInv /\ (Drop(s) \/ Fail(s) \/ GiveUp(s)) => IInv'
<1> SUFFICES ASSUME IInv, Drop(s) \/ Fail(s) \/ GiveUp(s) PROVE IInv'
  OBVIOUS
<1>1. PICK state \in {"landed", "late", "failed"} :
         Done(s, state) /\ (state = "late" => saver[s] = "sent")
  BY DEF Drop, Fail, GiveUp
<1>2. /\ saver[s] # "none"
      /\ UNCHANGED <<server, mongo, hand, hands, record, filling, since, stored, docs,
                     closedAt, touched>>
  BY DEF Drop, Fail, GiveUp, Expired, Alive
<1>3. /\ AfterSettlement' /\ InFinalize' /\ Complete' /\ Faithful' /\ InTime'
      /\ saver' \in [Savers -> States] /\ payload' \in [Savers -> Documents]
      /\ age' \in [Savers -> 0..SaveTimeout]
  BY <1>1, <1>2, DoneKeeps
<1>4. TypeOK' /\ NothingUnfinished' /\ SavedIsFinal'
  BY <1>2, <1>3 DEF IInv, TypeOK, NothingUnfinished, SavedIsFinal
<1> QED
  BY <1>3, <1>4 DEF IInv

LEMMA LandKeeps == ASSUME NEW s \in Savers PROVE IInv /\ Land(s) => IInv'
<1> SUFFICES ASSUME IInv, Land(s) PROVE IInv'
  OBVIOUS
<1> USE HistoryAssumption DEF Land, Captured, Saved
<1>1. /\ InFinalize' /\ Complete' /\ Faithful' /\ InTime'
      /\ saver' \in [Savers -> States] /\ payload' \in [Savers -> Documents]
      /\ age' \in [Savers -> 0..SaveTimeout]
  BY DoneKeeps
<1>2. s[1] \in Hands /\ payload[s] \in Documents /\ record[s[1]] \in Records
      /\ record[s[1]].result > 0 /\ ReadFrontOf(s) /\ ReadActionsOf(s) /\ ReadBackOf(s)
  BY SaverIsOfHand, SavedIsSettled
     DEF IInv, TypeOK, ReadFrontOf, ReadActionsOf, ReadBackOf
<1>3. /\ docs' \in [Hands -> Documents] /\ docs'[s[1]] = payload[s]
      /\ \A h \in Hands \ {s[1]} : docs'[h] = docs[h]
  BY <1>2 DEF IInv, TypeOK
<1>4. stored' = stored \cup {s[1]} /\ stored' \subseteq Hands
  BY <1>2 DEF IInv, TypeOK
<1>5. TypeOK'
  BY <1>1, <1>3, <1>4 DEF IInv, TypeOK
<1>6. AfterSettlement'
  BY <1>2, <1>4 DEF IInv, AfterSettlement, Done, TypeOK
<1>7. NothingUnfinished'
  <2>1. /\ payload[s].actions >= closedAt[s[1]]
        /\ Fair(s, payload[s].front) /\ Fair(s, payload[s].back)
    BY <1>2 DEF IInv, Complete
  <2> QED
    BY <1>3, <1>4, <2>1 DEF IInv, NothingUnfinished, TypeOK, Fair
<1>8. SavedIsFinal'
  <2>1. s[1] \notin touched =>
          payload[s] = [front |-> record[s[1]].result, actions |-> record[s[1]].actions,
                        back |-> record[s[1]].result]
    BY <1>2 DEF IInv, Faithful, Documents
  <2> QED
    BY <1>3, <1>4, <2>1 DEF IInv, SavedIsFinal, TypeOK
<1> QED
  BY <1>1, <1>5, <1>6, <1>7, <1>8 DEF IInv

\* The invariant is inductive, by the lemmas above for each action.
LEMMA Inductive == IInv /\ [Next]_history => IInv'
<1> SUFFICES ASSUME IInv, [Next]_history PROVE IInv'
  OBVIOUS
<1>1. CASE UNCHANGED history
  BY <1>1 DEF history, IInv, TypeOK, AfterSettlement, InFinalize, Complete, Faithful, InTime,
     NothingUnfinished, SavedIsFinal, Fair, ReadFrontOf, ReadActionsOf, ReadBackOf
<1>2. CASE ActorStep \/ Cancel
  BY <1>2, ActorKeeps, ActKeeps, FinishKeeps, FinishAgainKeeps, PersistKeeps DEF ActorStep
<1>3. CASE Exit \/ Tick
  BY <1>3, ExitKeeps, TickKeeps
<1>4. ASSUME NEW s \in Savers, SaverStep(s) \/ DatabaseStep(s) PROVE IInv'
  BY <1>4, ReadKeeps, ReturnKeeps, LandKeeps DEF SaverStep, DatabaseStep
<1> QED
  BY <1>1, <1>2, <1>3, <1>4 DEF Next

LEMMA InvariantHolds == Spec => []IInv
  BY InitHolds, Inductive, PTL DEF Spec
------------------------------------------------------------------------
\* Every variable keeps its type, and no saver outlives its timeout, whatever the
\* database does and whenever the process is stopped (table.go:839-851).
THEOREM TypeCorrect == Spec => []TypeOK
<1>1. IInv => TypeOK
  BY DEF IInv
<1> QED
  BY <1>1, InvariantHolds, PTL

\* A document shows a hand from its blinds to its settlement or later, never a hand
\* that is still played, and half a result only of a hand that was settled again, for any
\* interleaving of any number of savers with the writes of the actor.
THEOREM DocumentsAreComplete == Spec => []NothingUnfinished
<1>1. IInv => NothingUnfinished
  BY DEF IInv
<1> QED
  BY <1>1, InvariantHolds, PTL

\* The document of a hand that is left alone once settled is its record, although the
\* record is marshalled without a lock.
THEOREM DocumentsAreFinal == Spec => []SavedIsFinal
<1>1. IInv => SavedIsFinal
  BY DEF IInv
<1> QED
  BY <1>1, InvariantHolds, PTL

\* One saver at a time unless a hand is settled twice: a slow database cannot pile up
\* goroutines, because handHistorySaveTimeout is below handEndDelay.
THEOREM SaversDoNotPileUp == Spec => []NoPileUp
<1>1. IInv => NoPileUp
  <2> SUFFICES ASSUME IInv, \A h \in Hands : record[h].result <= 1,
                      NEW s \in Savers, NEW t \in Savers,
                      saver[s] \in Alive, saver[t] \in Alive
               PROVE  s = t
    BY DEF NoPileUp
  <2>1. s[1] = t[1]
    BY DEF IInv, InTime
  <2>2. s[2] = 1 /\ t[2] = 1
    <3>1. \A u \in Savers : saver[u] \in Alive => u[2] <= record[u[1]].result /\ u[2] \in 1..MaxFinals
                            /\ record[u[1]].result <= 1 /\ record[u[1]].result \in Nat
      BY SaverIsOfHand DEF IInv, AfterSettlement, Alive, TypeOK, Records
    <3> QED
      BY <3>1
  <2>3. s = <<s[1], s[2]>> /\ t = <<t[1], t[2]>>
    BY DEF Savers
  <2> QED
    BY <2>1, <2>2, <2>3
<1> QED
  BY <1>1, InvariantHolds, PTL
========================================================================
