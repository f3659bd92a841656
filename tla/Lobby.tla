----------------------------- MODULE Lobby -----------------------------
(* Sessions, manager and tables: server/internal/ws/handler.go and          *)
(* server/internal/table/manager.go.  A session has two goroutines: the     *)
(* reader handles one frame of the client after the other and posts         *)
(* commands to table actors; the writer drains the session's bounded send   *)
(* channel into the socket.  The manager finds a table with room, or makes  *)
(* one.  Of a table only the chairs and the command queue matter here; its  *)
(* play (module Table) shows as broadcasts and as chairs taken away.        *)
EXTENDS Integers, Sequences, FiniteSets

CONSTANTS
  Sessions,        \* connections, each used once: who comes back is a new one
  Nobody,          \* the session of an empty chair
  Stakes,          \* the blinds a client may ask for
  Chairs,          \* chairs of a table (6 in the code)
  SendCap,         \* capacity of a session's send channel (32)
  QueueCap,        \* capacity of a table's command queue (64)
  MaxTables,       \* bound on the tables made
  MaxLogins,       \* bound on the logins of one connection
  Options          \* what clients do: see below

\* "resit": a client asks for a table although it is seated; "relogin": it logs in
\* again; "stray": while seated, it sends what is answered with an error.  Otherwise a
\* client is polite: it logs in once, and asks for a table when it has no chair.
AllOptions == {"resit", "relogin", "stray"}

ASSUME LobbyAssumption ==
  /\ Nobody \notin Sessions
  /\ Stakes # {}
  /\ {Chairs, SendCap, QueueCap, MaxLogins} \subseteq Nat \ {0}
  /\ MaxTables \in Nat
  /\ Options \subseteq AllOptions

Tables == 1..MaxTables
NoTable == 0
TableOrNone == 0..MaxTables

\* A user id is the connection it was given to and the count of its logins; 0 is none.
Users == [session : Sessions, login : 1..MaxLogins]
Free == [session |-> Nobody, login |-> 0]
ChairNumbers == 1..Chairs

Kinds == {"sit", "leave", "play"}
Commands == [kind : Kinds, user : Users]
Posts == [table : TableOrNone, kind : Kinds]
NoPost == [table |-> NoTable, kind |-> "play"]

VARIABLES
  conn,        \* the socket: "open" or "lost"
  pc,          \* where the reader is: see Places
  post,        \* the table and command the reader is posting
  login,       \* session.userID, as the count of logins
  at,          \* session.table
  sent,        \* messages waiting in sendCh
  writer,      \* "up" or "down"
  made,        \* tables made so far; stake[t] is Table.Blinds
  stake,
  chairs,      \* Table.seats
  count,       \* Table.seatedCount, which is all the manager sees of the chairs
  queue,       \* Table.cmdIn
  overtaken    \* history: since the manager gave a table to the client, which waits to
               \* sit there, another client has taken a chair at that table

lobby == <<conn, pc, post, login, at, sent, writer, made, stake, chairs, count, queue,
           overtaken>>

\* "posting" and "leaving" wait for room in a queue, the latter as the last thing the
\* handler does; "sitting" waits for the actor; "replying" waits for room in sendCh.
Places == {"reading", "posting", "sitting", "replying", "leaving", "gone"}
---------------------------------------------------------------------------
User(c) == [session |-> c, login |-> login[c]]
SeatedAt(t) == {k \in ChairNumbers : chairs[t][k] # Free}
ChairsOf(t, u) == {k \in ChairNumbers : chairs[t][k] = u}
HasChair(c) == \E t \in Tables, k \in ChairNumbers : chairs[t][k].session = c
HasItsChair(c) == \E t \in Tables : t = at[c] /\ ChairsOf(t, User(c)) # {}
FirstOf(K) == CHOOSE k \in K : \A o \in K : k <= o

\* sendTo: a message to a session whose channel is full is dropped.
\* Mutant of Deliver: the actor waits until there is room.
DeliverAll(S) == /\ \A c \in S : sent[c] < SendCap
                 /\ sent' = [c \in Sessions |-> IF c \in S THEN sent[c] + 1 ELSE sent[c]]
Deliver(S) ==
  sent' = [c \in Sessions |-> IF c \in S /\ sent[c] < SendCap THEN sent[c] + 1 ELSE sent[c]]
Seated(seats) == {c \in Sessions : \E k \in ChairNumbers : seats[k].session = c}

Init ==
  /\ conn = [c \in Sessions |-> "open"]
  /\ pc = [c \in Sessions |-> "reading"]
  /\ post = [c \in Sessions |-> NoPost]
  /\ login = [c \in Sessions |-> 0]
  /\ at = [c \in Sessions |-> NoTable]
  /\ sent = [c \in Sessions |-> 0]
  /\ writer = [c \in Sessions |-> "up"]
  /\ made = 0
  /\ stake = [t \in Tables |-> CHOOSE b \in Stakes : TRUE]
  /\ chairs = [t \in Tables |-> [k \in ChairNumbers |-> Free]]
  /\ queue = [t \in Tables |-> <<>>]
  /\ count = [t \in Tables |-> 0]
  /\ overtaken = [c \in Sessions |-> FALSE]
---------------------------------------------------------------------------
(* The reader.  It takes a frame only while the socket is open. *)

Receives(c) == pc[c] = "reading" /\ conn[c] = "open"

\* A new user id, whatever the session is doing; the reply goes through sendCh.
Login(c) ==
  /\ Receives(c)
  /\ login[c] = 0 \/ "relogin" \in Options
  /\ login[c] < MaxLogins
  /\ login' = [login EXCEPT ![c] = @ + 1]
  /\ pc' = [pc EXCEPT ![c] = "replying"]
  /\ UNCHANGED <<conn, post, at, sent, writer, made, stake, chairs, count, queue,
                 overtaken>>

\* Frames the reader answers with an error itself: bad ones, and commands sent
\* before a login or without a table.
Stray(c) ==
  /\ Receives(c)
  /\ "stray" \in Options \/ ~HasItsChair(c)
  /\ pc' = [pc EXCEPT ![c] = "replying"]
  /\ UNCHANGED <<conn, post, login, at, sent, writer, made, stake, chairs, count, queue,
                 overtaken>>

\* Mutant of HasRoom: one message more than the channel holds.
HasRoomInclusive(c) == sent[c] <= SendCap
HasRoom(c) == sent[c] < SendCap

Reply(c) ==
  /\ pc[c] = "replying"
  /\ HasRoom(c)
  /\ sent' = [sent EXCEPT ![c] = @ + 1]
  /\ pc' = [pc EXCEPT ![c] = "reading"]
  /\ UNCHANGED <<conn, post, login, at, writer, made, stake, chairs, count, queue,
                 overtaken>>

\* FindOrCreate, under the manager's mutex: any table of the stake whose counter is below
\* the number of chairs, or else a new one.  The chairs themselves are the actor's.
WithRoom(b) == {t \in 1..made : stake[t] = b /\ count[t] < Chairs}
FindOrCreate(b, t) ==
  \/ t \in WithRoom(b) /\ UNCHANGED <<made, stake>>
  \/ /\ WithRoom(b) = {}
     /\ t = made + 1
     /\ made' = t
     /\ stake' = [stake EXCEPT ![t] = b]

Sit(c) ==
  /\ Receives(c)
  /\ login[c] > 0
  /\ "resit" \in Options \/ ~HasItsChair(c)
  /\ \E b \in Stakes, t \in Tables :
       /\ FindOrCreate(b, t)
       /\ post' = [post EXCEPT ![c] = [table |-> t, kind |-> "sit"]]
  /\ pc' = [pc EXCEPT ![c] = "posting"]
  /\ UNCHANGED <<conn, login, at, sent, writer, chairs, count, queue, overtaken>>

\* Actions, pre-actions, sitting out and in: posted, and never waited for.
Play(c) ==
  /\ Receives(c)
  /\ at[c] # NoTable
  /\ post' = [post EXCEPT ![c] = [table |-> at[c], kind |-> "play"]]
  /\ pc' = [pc EXCEPT ![c] = "posting"]
  /\ UNCHANGED <<conn, login, at, sent, writer, made, stake, chairs, count, queue,
                 overtaken>>

Leave(c) ==
  /\ Receives(c)
  /\ at[c] # NoTable
  /\ post' = [post EXCEPT ![c] = [table |-> at[c], kind |-> "leave"]]
  /\ pc' = [pc EXCEPT ![c] = "posting"]
  /\ UNCHANGED <<conn, login, at, sent, writer, made, stake, chairs, count, queue,
                 overtaken>>

\* Mutant of Posted: into a full queue, nowhere, as the table's own timers do.
PostedOrLost(c) ==
  /\ queue' = IF Len(queue[post[c].table]) >= QueueCap THEN queue
              ELSE [queue EXCEPT ![post[c].table] =
                      Append(@, [kind |-> post[c].kind, user |-> User(c)])]
  /\ at' = IF post[c].kind = "leave" THEN [at EXCEPT ![c] = NoTable] ELSE at
  /\ post' = [post EXCEPT ![c] = NoPost]
  /\ UNCHANGED <<conn, login, made, stake, chairs, count, overtaken>>
\* The command is in the queue; who left has no table, who sits waits for the answer.
Posted(c) ==
  /\ Len(queue[post[c].table]) < QueueCap
  /\ queue' = [queue EXCEPT ![post[c].table] =
                 Append(@, [kind |-> post[c].kind, user |-> User(c)])]
  /\ at' = IF post[c].kind = "leave" THEN [at EXCEPT ![c] = NoTable] ELSE at
  /\ post' = [post EXCEPT ![c] = NoPost]
  /\ UNCHANGED <<conn, login, made, stake, chairs, count, overtaken>>

Post(c) ==
  /\ pc[c] = "posting"
  /\ Posted(c)
  /\ pc' = [pc EXCEPT ![c] = IF post[c].kind = "sit" THEN "sitting" ELSE "reading"]
  /\ UNCHANGED <<sent, writer>>

\* Read fails: the handler leaves the session's table, if any, and returns, which
\* stops the writer.
\* Mutant of LastWords: the handler just returns.
NoLastWords(c) == "gone"
LastWords(c) == IF at[c] # NoTable THEN "leaving" ELSE "gone"
Disconnect(c) ==
  /\ pc[c] = "reading"
  /\ conn[c] = "lost"
  /\ pc' = [pc EXCEPT ![c] = LastWords(c)]
  /\ post' = IF pc'[c] = "gone" THEN post
             ELSE [post EXCEPT ![c] = [table |-> at[c], kind |-> "leave"]]
  /\ IF pc'[c] = "gone"
     THEN writer' = [writer EXCEPT ![c] = "down"] /\ sent' = [sent EXCEPT ![c] = 0]
     ELSE UNCHANGED <<writer, sent>>
  /\ UNCHANGED <<conn, login, at, made, stake, chairs, count, queue,
                 overtaken>>

PostLast(c) ==
  /\ pc[c] = "leaving"
  /\ Posted(c)
  /\ pc' = [pc EXCEPT ![c] = "gone"]
  /\ sent' = [sent EXCEPT ![c] = 0]
  /\ writer' = [writer EXCEPT ![c] = "down"]
---------------------------------------------------------------------------
(* The socket and the writer. *)

\* The client closes its page, or the network fails.
Lose(c) ==
  /\ conn[c] = "open"
  /\ conn' = [conn EXCEPT ![c] = "lost"]
  /\ UNCHANGED <<pc, post, login, at, sent, writer, made, stake, chairs, count, queue,
                 overtaken>>

Write(c) ==
  /\ writer[c] = "up" /\ sent[c] > 0
  /\ conn[c] = "open"
  /\ sent' = [sent EXCEPT ![c] = @ - 1]
  /\ UNCHANGED <<conn, pc, post, login, at, writer, made, stake, chairs, count, queue,
                 overtaken>>

\* A write fails, or takes five seconds: the writer stops, and the socket is closed.
WriteFails(c) ==
  /\ writer[c] = "up" /\ sent[c] > 0
  /\ sent' = [sent EXCEPT ![c] = @ - 1]
  /\ writer' = [writer EXCEPT ![c] = "down"]
  /\ conn' = [conn EXCEPT ![c] = "lost"]
  /\ UNCHANGED <<pc, post, login, at, made, stake, chairs, count, queue,
                 overtaken>>
---------------------------------------------------------------------------
(* The table actor takes the command at the head of its queue. *)

Heads(t, kind) == queue[t] # <<>> /\ Head(queue[t]).kind = kind

\* The client asks for a chair at the table: it posts its sit, or the sit is queued.
WaitsAt(c, t) ==
  \/ pc[c] = "posting" /\ post[c] = [table |-> t, kind |-> "sit"]
  \/ /\ pc[c] = "sitting"
     /\ \E i \in DOMAIN queue[t] : queue[t][i].kind = "sit" /\ queue[t][i].user.session = c

\* sitCmd: the first free chair, if any.  The counter is written after the chair, by the
\* same goroutine; who reads one does not read the other.  The session goes on with the
\* answer: it only sets what nobody else reads, so its next step is taken with this one.
HandleSit(t) ==
  /\ Heads(t, "sit")
  /\ queue' = [queue EXCEPT ![t] = Tail(@)]
  /\ LET u == Head(queue[t]).user
         free == ChairNumbers \ SeatedAt(t)
     IN  /\ IF free = {}
            THEN /\ pc' = [pc EXCEPT ![u.session] = "replying"]
                 /\ overtaken' = [overtaken EXCEPT ![u.session] = FALSE]
                 /\ UNCHANGED <<at, chairs, count, sent>>
            ELSE /\ chairs' = [chairs EXCEPT ![t][FirstOf(free)] = u]
                 /\ count' = [count EXCEPT ![t] = @ + 1]
                 /\ Deliver(Seated(chairs'[t]))
                 /\ at' = [at EXCEPT ![u.session] = t]
                 /\ pc' = [pc EXCEPT ![u.session] = "reading"]
                 /\ overtaken' = [c \in Sessions |->
                       c # u.session /\ (overtaken[c] \/ WaitsAt(c, t))]
  /\ UNCHANGED <<conn, post, login, writer, made, stake>>

\* Mutant of CountWithout: every leave counts, also of one who has lost the chair.
CountAlwaysLess(t, mine) == count[t] - 1
CountWithout(t, mine) == IF mine = {} THEN count[t] ELSE count[t] - 1

HandleLeave(t) ==
  /\ Heads(t, "leave")
  /\ queue' = [queue EXCEPT ![t] = Tail(@)]
  /\ LET mine == ChairsOf(t, Head(queue[t]).user)
     IN  /\ IF mine = {} THEN UNCHANGED <<chairs, sent>>
            ELSE /\ chairs' = [chairs EXCEPT ![t][FirstOf(mine)] = Free]
                 /\ Deliver(Seated(chairs'[t]))
         /\ count' = [count EXCEPT ![t] = CountWithout(t, mine)]
  /\ UNCHANGED <<conn, pc, post, login, at, writer, made, stake, overtaken>>

\* Any other command: broadcast to all, answered with an error, or ignored.
HandlePlay(t) ==
  /\ Heads(t, "play")
  /\ queue' = [queue EXCEPT ![t] = Tail(@)]
  /\ Deliver(Seated(chairs[t])) \/ UNCHANGED sent
  /\ UNCHANGED <<conn, pc, post, login, at, writer, made, stake, chairs, count, overtaken>>

\* The end of a hand: a player without chips, or away too long, loses the chair.
Evict(t) ==
  /\ \E k \in SeatedAt(t) : chairs' = [chairs EXCEPT ![t][k] = Free]
  /\ count' = [count EXCEPT ![t] = @ - 1]
  /\ Deliver(Seated(chairs[t]))
  /\ UNCHANGED <<conn, pc, post, login, at, writer, made, stake, queue, overtaken>>

\* The table's own commands: streets, turns and timeouts are broadcast.
Talk(t) ==
  /\ Deliver(Seated(chairs[t]))
  /\ UNCHANGED <<conn, pc, post, login, at, writer, made, stake, chairs, count, queue,
                 overtaken>>
---------------------------------------------------------------------------
ReaderStep(c) == Reply(c) \/ Post(c) \/ Disconnect(c) \/ PostLast(c)
ClientStep(c) == Login(c) \/ Stray(c) \/ Sit(c) \/ Play(c) \/ Leave(c) \/ Lose(c)
WriterStep(c) == Write(c) \/ WriteFails(c)
ActorStep(t) == HandleSit(t) \/ HandleLeave(t) \/ HandlePlay(t)
TableStep(t) == Evict(t) \/ Talk(t)

Next == \/ \E c \in Sessions : ReaderStep(c) \/ ClientStep(c) \/ WriterStep(c)
        \/ \E t \in Tables : ActorStep(t) \/ TableStep(t)

\* The goroutines run.  A channel serves blocked senders in turn, so who waits for
\* room gets it if there is room again and again; clients and tables owe nothing.
Fairness ==
  /\ \A c \in Sessions : SF_lobby(ReaderStep(c)) /\ WF_lobby(WriterStep(c))
  /\ \A t \in Tables : WF_lobby(ActorStep(t))

Spec == Init /\ [][Next]_lobby
FairSpec == Spec /\ Fairness
===========================================================================
