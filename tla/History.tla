----------------------------- MODULE History -----------------------------
(* The record of a hand and its way into the database:                      *)
(* server/internal/table (hand.record, persistHandRecord) and               *)
(* server/internal/store.  The actor fills the record of the hand in play;  *)
(* each time the hand is settled it spawns a saver, a goroutine that        *)
(* marshals the live record and upserts it under the hand's id, and gives   *)
(* up after two seconds.  Savers, the actor and the database run            *)
(* concurrently, and nothing orders them.                                   *)
(* Of a record only the length of its timeline and the number of times it   *)
(* was finalised are kept; a finalisation writes its fields one after the   *)
(* other.  Time passes in ticks of half a second.                           *)
EXTENDS Integers

CONSTANTS
  MaxHands,        \* bound on the hands of the table
  MaxActions,      \* bound on the timeline of a record
  MaxFinals,       \* bound on how often one hand is settled
  SaveTimeout,     \* handHistorySaveTimeout: 4 ticks in the code
  EndDelay,        \* handEndDelay: 5 ticks
  LateHands        \* the hands that may go on after their end (see Table)

ASSUME HistoryAssumption ==
  /\ {MaxHands, MaxActions, MaxFinals, SaveTimeout, EndDelay} \subseteq Nat \ {0}
  /\ SaveTimeout < EndDelay
  /\ LateHands \subseteq 1..MaxHands

Hands == 1..MaxHands
NoHand == 0
Records == [actions : 0..MaxActions, result : 0..MaxFinals]
Blank == [actions |-> 0, result |-> 0]

\* A document holds the fields finalizeRecord writes that the marshaller meets before
\* the timeline (front: EndedAt, StackOut, Community, HoleCards), the timeline, and
\* those behind it (back: Pots, Winners, Reason).  Half stands for any part of a result
\* that is being replaced by the next.
Half == -1
Results == 0..MaxFinals \cup {Half}
Documents == [front : Results, actions : 0..MaxActions, back : Results]
BlankDoc == [front |-> 0, actions |-> 0, back |-> 0]

\* Saver <<h, n>> is the one spawned when hand h is settled for the n-th time.
Savers == Hands \X (1..MaxFinals)
States == {"none", "started", "front", "actions", "sent", "landed", "late", "failed"}
Alive == {"started", "front", "actions", "sent"}

VARIABLES
  server,      \* "up", "closing" once the context is cancelled, "gone"
  mongo,       \* the store is Mongo; otherwise it drops every record
  hand,        \* the hand in play, NoHand between hands
  hands,       \* hands started so far
  record,      \* record[h]: hand.record, which only the actor writes
  filling,     \* finalizeRecord is under way: the actor writes the result of its hand
  since,       \* ticks since the hand in play was first settled
  saver,       \* saver[s]: how far it got
  payload,     \* payload[s]: what it has marshalled so far
  age,         \* age[s]: ticks since it was spawned
  stored,      \* the hands the database has a document of
  docs,        \* docs[h]: that document
  closedAt,    \* history: length of the timeline when the hand was first settled
  touched      \* history: the hands whose record changed after that

history == <<server, mongo, hand, hands, record, filling, since, saver, payload, age,
             stored, docs, closedAt, touched>>
---------------------------------------------------------------------------
\* buildHandHistoryStore: without an address, or when the dial fails, the no-op store.
Init ==
  /\ server = "up" /\ mongo \in BOOLEAN
  /\ hand = NoHand /\ hands = 0 /\ since = 0
  /\ record = [h \in Hands |-> Blank] /\ filling = FALSE
  /\ saver = [s \in Savers |-> "none"]
  /\ payload = [s \in Savers |-> BlankDoc]
  /\ age = [s \in Savers |-> 0]
  /\ stored = {} /\ docs = [h \in Hands |-> BlankDoc]
  /\ closedAt = [h \in Hands |-> 0] /\ touched = {}
---------------------------------------------------------------------------
(* The actor. *)

\* The actor takes its next command, of the hand in play.
Playing == server = "up" /\ hand \in Hands /\ ~filling
Ended == record[hand].result > 0

StartHand ==
  /\ server = "up" /\ hand = NoHand /\ hands < MaxHands
  /\ hands' = hands + 1 /\ hand' = hands + 1
  /\ UNCHANGED <<server, mongo, record, filling, since, saver, payload, age, stored,
                 docs, closedAt, touched>>

\* recordAction: blinds, streets and actions lengthen the timeline.  Once the hand is
\* settled only a late action of the seat last to act does.
Act ==
  /\ Playing
  /\ Ended => hand \in LateHands
  /\ record[hand].actions < MaxActions
  /\ record' = [record EXCEPT ![hand].actions = @ + 1]
  /\ touched' = IF Ended THEN touched \cup {hand} ELSE touched
  /\ UNCHANGED <<server, mongo, hand, hands, filling, since, saver, payload, age, stored,
                 docs, closedAt>>

\* persistHandRecord, the last thing done when the hand is settled.
\* Mutant of Spawn: a hand settled for the first time is not saved.
SpawnLater(s) == IF s[2] > 1 THEN /\ saver' = [saver EXCEPT ![s] = "started"]
                                  /\ age' = [age EXCEPT ![s] = 0]
                 ELSE UNCHANGED <<saver, age>>
Spawn(s) ==
  /\ saver' = [saver EXCEPT ![s] = "started"]
  /\ age' = [age EXCEPT ![s] = 0]

\* finalizeRecord, from its first write to its last; the savers of earlier settlements
\* of the hand may be reading.  Mutant: the hand is saved before it is finalised.
SavedFirst ==
  /\ record' = [record EXCEPT ![hand].result = @ + 1]
  /\ filling' = TRUE
  /\ Spawn(<<hand, record[hand].result + 1>>)
BeginRecord ==
  /\ record' = [record EXCEPT ![hand].result = @ + 1]
  /\ filling' = TRUE
  /\ UNCHANGED <<saver, age>>

\* endByFoldOut or settleAndBroadcast.
Finish ==
  /\ Playing /\ ~Ended
  /\ BeginRecord
  /\ closedAt' = [closedAt EXCEPT ![hand] = record[hand].actions]
  /\ UNCHANGED <<server, mongo, hand, hands, since, payload, stored, docs, touched>>

\* The same again, within the hand's end: a player left, or a late action closed it.
FinishAgain ==
  /\ Playing /\ Ended
  /\ hand \in LateHands
  /\ record[hand].result < MaxFinals
  /\ BeginRecord
  /\ touched' = touched \cup {hand}
  /\ UNCHANGED <<server, mongo, hand, hands, since, payload, stored, docs, closedAt>>

\* The record is finalised and its saver spawned.  endHandCmd is scheduled the first
\* time; later ones find the hand gone.
Persist ==
  /\ server # "gone" /\ filling
  /\ filling' = FALSE
  /\ since' = IF record[hand].result = 1 THEN 0 ELSE since
  /\ Spawn(<<hand, record[hand].result>>)
  /\ UNCHANGED <<server, mongo, hand, hands, record, payload, stored, docs, closedAt, touched>>

\* endHandCmd, scheduled when the hand was first settled.
\* Mutant of Over: the hand is cleared as soon as its saver has to be done.
OverSoon == since >= SaveTimeout
Over == since >= EndDelay
EndHand ==
  /\ Playing /\ Ended
  /\ Over
  /\ hand' = NoHand /\ since' = 0
  /\ UNCHANGED <<server, mongo, hands, record, filling, saver, payload, age, stored,
                 docs, closedAt, touched>>

\* The signal cancels the context; the actor stops where it is, its savers go on.
Cancel ==
  /\ server = "up"
  /\ server' = "closing"
  /\ UNCHANGED <<mongo, hand, hands, record, filling, since, saver, payload, age, stored,
                 docs, closedAt, touched>>

\* main returns, or the process is killed, whatever its goroutines are doing; what was
\* sent may still be carried out.
Exit ==
  /\ server # "gone"
  /\ server' = "gone"
  /\ saver' = [s \in Savers |-> CASE saver[s] = "sent" -> "late"
                                  [] saver[s] \in Alive \ {"sent"} -> "failed"
                                  [] OTHER -> saver[s]]
  /\ age' = [s \in Savers |-> 0]
  /\ UNCHANGED <<mongo, hand, hands, record, filling, since, payload, stored, docs,
                 closedAt, touched>>
---------------------------------------------------------------------------
(* The savers and the database. *)

Saved(s) == s[1]
\* The goroutine returns; what it sent is kept only while it may still be carried out.
Done(s, state) ==
  /\ saver' = [saver EXCEPT ![s] = state]
  /\ age' = [age EXCEPT ![s] = 0]
  /\ payload' = IF state = "late" THEN payload ELSE [payload EXCEPT ![s] = BlankDoc]

\* The record a saver marshals: the pointer it was given when it was spawned.
\* Mutant: the table's hand of the moment.
CapturedNow(s) == IF hand \in Hands THEN hand ELSE Saved(s)
Captured(s) == Saved(s)

\* The no-op store is done at once.
Drop(s) ==
  /\ saver[s] = "started" /\ ~mongo
  /\ Done(s, "landed")
  /\ UNCHANGED <<server, mongo, hand, hands, record, filling, since, stored, docs,
                 closedAt, touched>>

\* The record is marshalled field by field while the actor may be writing it.
Result(h) == IF filling /\ h = hand THEN Half ELSE record[h].result
ReadFront(s) ==
  /\ saver[s] = "started" /\ mongo
  /\ saver' = [saver EXCEPT ![s] = "front"]
  /\ payload' = [payload EXCEPT ![s].front = Result(Captured(s))]
ReadActions(s) ==
  /\ saver[s] = "front"
  /\ saver' = [saver EXCEPT ![s] = "actions"]
  /\ payload' = [payload EXCEPT ![s].actions = record[Captured(s)].actions]
ReadBack(s) ==
  /\ saver[s] = "actions"
  /\ saver' = [saver EXCEPT ![s] = "sent"]
  /\ payload' = [payload EXCEPT ![s].back = Result(Captured(s))]
Read(s) ==
  /\ ReadFront(s) \/ ReadActions(s) \/ ReadBack(s)
  /\ UNCHANGED <<server, mongo, hand, hands, record, filling, since, age, stored, docs,
                 closedAt, touched>>

\* ReplaceOne with upsert: the last to land wins.  It may land after its saver gave up.
Land(s) ==
  /\ saver[s] \in {"sent", "late"}
  /\ Done(s, "landed")
  /\ stored' = stored \cup {Captured(s)}
  /\ docs' = [docs EXCEPT ![Captured(s)] = payload[s]]
  /\ UNCHANGED <<server, mongo, hand, hands, record, filling, since, closedAt, touched>>

\* The database refuses the write, or never got it; the error is logged.
Fail(s) ==
  /\ saver[s] = "sent"
  /\ Done(s, "failed")
  /\ UNCHANGED <<server, mongo, hand, hands, record, filling, since, stored, docs,
                 closedAt, touched>>

\* context.WithTimeout.  Mutant of Expired: one tick too late.
ExpiredAfter(s) == saver[s] \in Alive /\ age[s] > SaveTimeout
Expired(s) == saver[s] \in Alive /\ age[s] = SaveTimeout
GiveUp(s) ==
  /\ Expired(s)
  /\ Done(s, IF saver[s] = "sent" THEN "late" ELSE "failed")
  /\ UNCHANGED <<server, mongo, hand, hands, record, filling, since, stored, docs,
                 closedAt, touched>>

\* Half a second passes, unless a deadline is due.
Tick ==
  /\ server # "gone"
  /\ \A s \in Savers : ~Expired(s)
  /\ since' = IF hand \in Hands /\ Ended /\ since < EndDelay THEN since + 1 ELSE since
  /\ age' = [s \in Savers |-> IF saver[s] \in Alive THEN age[s] + 1 ELSE 0]
  /\ UNCHANGED <<server, mongo, hand, hands, record, filling, saver, payload, stored, docs,
                 closedAt, touched>>
---------------------------------------------------------------------------
ActorStep == StartHand \/ Act \/ Finish \/ FinishAgain \/ Persist \/ EndHand
SaverStep(s) == Drop(s) \/ Read(s) \/ GiveUp(s)
DatabaseStep(s) == Land(s) \/ Fail(s)
Next == \/ ActorStep \/ Cancel \/ Exit \/ Tick
        \/ \E s \in Savers : SaverStep(s) \/ DatabaseStep(s)

Spec == Init /\ [][Next]_history
\* Goroutines run and time passes; players and the database owe nothing.
FairSpec == Spec /\ WF_history(Tick) /\ \A s \in Savers : WF_history(SaverStep(s))
---------------------------------------------------------------------------
(* Properties. *)

\* Among the rest: no saver outlives its timeout.
TypeOK ==
  /\ server \in {"up", "closing", "gone"} /\ mongo \in BOOLEAN
  /\ hand \in Hands \cup {NoHand} /\ hands \in 0..MaxHands
  /\ record \in [Hands -> Records] /\ filling \in BOOLEAN
  /\ since \in 0..EndDelay
  /\ saver \in [Savers -> States] /\ payload \in [Savers -> Documents]
  /\ age \in [Savers -> 0..SaveTimeout]
  /\ stored \subseteq Hands /\ docs \in [Hands -> Documents]
  /\ closedAt \in [Hands -> 0..MaxActions] /\ touched \subseteq Hands

\* No document shows a hand before its end: it has a result and every action up to the
\* first settlement, and half a result only if the hand was settled again, however
\* marshalling, finalising, late writes and the next hand interleave.
NothingUnfinished ==
  \A h \in stored :
    /\ docs[h].front # 0 /\ docs[h].back # 0 /\ docs[h].actions >= closedAt[h]
    /\ Half \in {docs[h].front, docs[h].back} => h \in touched

\* A hand that is left alone once it is settled is stored as it ended, and stays so,
\* although its record is marshalled without a lock and while the next hand is played.
SavedIsFinal ==
  \A h \in stored \ touched :
    docs[h] = [front |-> record[h].result, actions |-> record[h].actions,
               back |-> record[h].result]

\* "a slow Mongo can't pile up goroutines" (table.go:141-142): when no hand is settled
\* twice, there is one saver at a time, whatever the database does.
NoPileUp ==
  (\A h \in Hands : record[h].result <= 1)
    => \A s, t \in Savers : saver[s] \in Alive /\ saver[t] \in Alive => s = t

\* A settled hand is stored, or the loss of a save is logged, unless the process ends
\* first: no saver waits for ever.
Stored ==
  \A h \in Hands :
    (mongo /\ (Result(h) > 0 \/ record[h].result > 1))
      ~> \/ h \in stored \/ server = "gone"
         \/ \E s \in Savers : Saved(s) = h /\ saver[s] \in {"late", "failed"}
===========================================================================
