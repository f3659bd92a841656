-------------------------- MODULE LobbyProofs --------------------------
(* Theorems about the lobby, for any sessions, tables, chairs and capacities.  *)
(* The first and the last hold whatever clients do, the others for polite ones. *)
EXTENDS LobbyProperties, TLAPS, SequenceTheorems, FiniteSetTheorems,
        WellFoundedInduction

\* The counter the manager reads is the number of occupied chairs.
Counted == \A t \in Tables : count[t] = Cardinality(SeatedAt(t))

\* A table that is not made yet has nothing in it, and nobody is at one.
Fresh ==
  /\ \A t \in Tables : t > made => /\ queue[t] = <<>>
                                   /\ \A k \in ChairNumbers : chairs[t][k] = Free
  /\ \A c \in Sessions : at[c] <= made

\* Who has a table or posts a command has logged in, and what is posted has an address.
Purpose ==
  \A c \in Sessions :
    /\ at[c] # NoTable => login[c] > 0
    /\ pc[c] \in {"posting", "leaving"} => login[c] > 0 /\ post[c].table \in 1..made

\* No command and no chair bears a user id that was not given out.
Known ==
  \A t \in Tables :
    /\ \A i \in 1..Len(queue[t]) : queue[t][i].user.login <= login[queue[t][i].user.session]
    /\ \A k \in ChairNumbers :
         chairs[t][k] # Free => chairs[t][k].login <= login[chairs[t][k].session]

Inv == TypeOK /\ Counted /\ Fresh /\ Purpose /\ Known
---------------------------------------------------------------------------
(* Types, one value at a time. *)

LEMMA ConstantTypes ==
  /\ Chairs \in Nat \ {0} /\ SendCap \in Nat \ {0} /\ QueueCap \in Nat \ {0}
  /\ MaxLogins \in Nat \ {0} /\ MaxTables \in Nat /\ Nobody \notin Sessions
  /\ \A t \in Tables : t \in Nat /\ t # NoTable /\ t \in TableOrNone
BY LobbyAssumption DEF Tables, NoTable, TableOrNone

LEMMA SessionTypes ==
  ASSUME TypeOK, NEW c \in Sessions
  PROVE  /\ pc[c] \in Places /\ login[c] \in Nat /\ login[c] <= MaxLogins
         /\ at[c] \in Nat /\ at[c] <= MaxTables
         /\ post[c].table \in Nat /\ post[c].table <= MaxTables /\ post[c].kind \in Kinds
         /\ sent[c] \in Nat /\ sent[c] <= SendCap
         /\ login[c] > 0 => User(c) \in Users
         /\ at[c] # NoTable => at[c] \in Tables
<1>1. /\ post[c] \in Posts /\ pc[c] \in Places /\ login[c] \in 0..MaxLogins
      /\ at[c] \in TableOrNone /\ sent[c] \in 0..SendCap
  BY DEF TypeOK
<1>2. post[c].table \in TableOrNone /\ post[c].kind \in Kinds
  BY <1>1 DEF Posts
<1>3. login[c] > 0 => User(c) \in Users
  BY <1>1, ConstantTypes DEF User, Users
<1>. QED
  BY <1>1, <1>2, <1>3, ConstantTypes DEF TableOrNone, Tables, NoTable

LEMMA CommandTypes ==
  ASSUME TypeOK, NEW t \in Tables, NEW i \in 1..Len(queue[t])
  PROVE  /\ queue[t][i] \in Commands
         /\ queue[t][i].kind \in Kinds /\ queue[t][i].user \in Users
         /\ queue[t][i].user.session \in Sessions
         /\ queue[t][i].user.login \in Nat \ {0}
<1>1. queue[t] \in Seq(Commands)
  BY DEF TypeOK
<1>2. queue[t][i] \in Commands
  BY <1>1, LenProperties
<1>. QED
  BY <1>2 DEF Commands, Users

LEMMA ChairTypes ==
  ASSUME TypeOK, NEW t \in Tables, NEW k \in ChairNumbers, chairs[t][k] # Free
  PROVE  /\ chairs[t][k] \in Users
         /\ chairs[t][k].session \in Sessions
         /\ chairs[t][k].login \in Nat \ {0}
<1>1. chairs[t][k] \in Users
  BY DEF TypeOK
<1>. QED
  BY <1>1 DEF Users

LEMMA QueueTypes ==
  ASSUME TypeOK, NEW t \in Tables
  PROVE  queue[t] \in Seq(Commands) /\ Len(queue[t]) \in Nat /\ Len(queue[t]) <= QueueCap
<1>1. queue[t] \in Seq(Commands) /\ Len(queue[t]) <= QueueCap
  BY DEF TypeOK
<1>. QED
  BY <1>1, LenProperties
---------------------------------------------------------------------------
(* What the two ends of a queue do. *)

LEMMA Appended ==
  ASSUME TypeOK, NEW t \in Tables, NEW m \in Commands, Len(queue[t]) < QueueCap,
         queue' = [queue EXCEPT ![t] = Append(@, m)]
  PROVE  /\ queue' \in [Tables -> Seq(Commands)]
         /\ \A s \in Tables : Len(queue'[s]) <= QueueCap
         /\ \A s \in Tables : s # t => queue'[s] = queue[s]
         /\ Len(queue'[t]) = Len(queue[t]) + 1
         /\ \A i \in 1..Len(queue[t]) : queue'[t][i] = queue[t][i]
         /\ queue'[t][Len(queue[t]) + 1] = m
<1>1. queue \in [Tables -> Seq(Commands)] /\ \A s \in Tables : Len(queue[s]) <= QueueCap
  BY DEF TypeOK
<1>2. QueueCap \in Nat
  BY LobbyAssumption
<1>3. /\ Append(queue[t], m) \in Seq(Commands)
      /\ Len(Append(queue[t], m)) = Len(queue[t]) + 1
      /\ \A i \in 1..Len(queue[t]) : Append(queue[t], m)[i] = queue[t][i]
      /\ Append(queue[t], m)[Len(queue[t]) + 1] = m
  BY <1>1, AppendProperties
<1>4. queue'[t] = Append(queue[t], m) /\ \A s \in Tables : s # t => queue'[s] = queue[s]
  BY <1>1
<1>5. queue' \in [Tables -> Seq(Commands)]
  BY <1>1, <1>3
<1>6. Len(queue[t]) \in Nat
  BY <1>1, LenProperties
<1>. QED
  BY <1>1, <1>2, <1>3, <1>4, <1>5, <1>6

LEMMA Popped ==
  ASSUME TypeOK, NEW t \in Tables, queue[t] # <<>>,
         queue' = [queue EXCEPT ![t] = Tail(@)]
  PROVE  /\ queue' \in [Tables -> Seq(Commands)]
         /\ \A s \in Tables : Len(queue'[s]) <= QueueCap
         /\ \A s \in Tables : s # t => queue'[s] = queue[s]
         /\ Len(queue[t]) \in Nat \ {0}
         /\ Len(queue'[t]) = Len(queue[t]) - 1
         /\ \A i \in 1..(Len(queue[t]) - 1) : queue'[t][i] = queue[t][i + 1]
         /\ Head(queue[t]) = queue[t][1]
         /\ Head(queue[t]) \in Commands
<1>1. queue \in [Tables -> Seq(Commands)] /\ \A s \in Tables : Len(queue[s]) <= QueueCap
  BY DEF TypeOK
<1>2. QueueCap \in Nat
  BY LobbyAssumption
<1>3. /\ Head(queue[t]) \in Commands
      /\ Tail(queue[t]) \in Seq(Commands)
      /\ Len(Tail(queue[t])) = Len(queue[t]) - 1
      /\ \A i \in 1..Len(Tail(queue[t])) : Tail(queue[t])[i] = queue[t][i + 1]
  BY <1>1, HeadTailProperties
<1>4. queue'[t] = Tail(queue[t]) /\ \A s \in Tables : s # t => queue'[s] = queue[s]
  BY <1>1
<1>5. queue' \in [Tables -> Seq(Commands)]
  BY <1>1, <1>3
<1>6. Len(queue[t]) \in Nat \ {0}
  BY <1>1, EmptySeq, LenProperties
<1>7. Head(queue[t]) = queue[t][1]
  BY <1>1, HeadTailProperties
<1>. QED
  BY <1>1, <1>2, <1>3, <1>4, <1>5, <1>6, <1>7
---------------------------------------------------------------------------
(* What hardly changes. *)

LEMMA InitInv == Init => Inv
<1>. SUFFICES ASSUME Init PROVE Inv
  OBVIOUS
<1>1. Stakes # {} /\ {Chairs, SendCap, QueueCap, MaxLogins} \subseteq Nat \ {0} /\ MaxTables \in Nat
  BY LobbyAssumption
<1>2. (CHOOSE b \in Stakes : TRUE) \in Stakes
  BY <1>1
<1>3. queue = [t \in Tables |-> <<>>] /\ chairs = [t \in Tables |-> [k \in ChairNumbers |-> Free]]
  BY DEF Init
<1>4. queue \in [Tables -> Seq(Commands)] /\ \A t \in Tables : Len(queue[t]) = 0
  BY <1>3, EmptySeq
<1>5. chairs \in [Tables -> [ChairNumbers -> Users \cup {Free}]]
  BY <1>3
<1>6. TypeOK
  BY <1>1, <1>2, <1>4, <1>5 DEF Init, TypeOK, Places, Posts, NoPost, NoTable, TableOrNone, Kinds
<1>10. Counted
  <2>1. \A t \in Tables : SeatedAt(t) = {}
    BY <1>3 DEF SeatedAt
  <2>. QED
    BY <2>1, FS_EmptySet DEF Init, Counted
<1>7. Fresh
  BY <1>3 DEF Init, Fresh, NoTable
<1>8. Purpose
  BY DEF Init, Purpose, NoTable
<1>9. Known
  BY <1>3, <1>4 DEF Known
<1>. QED
  BY <1>6, <1>7, <1>8, <1>9, <1>10 DEF Inv

\* A reply, a frame that changes nothing, the socket, the writer, a broadcast.
LEMMA QuietInv ==
  ASSUME Inv,
         UNCHANGED <<post, login, at, made, stake, chairs, count, queue, overtaken>>,
         conn' \in [Sessions -> {"open", "lost"}],
         pc' \in [Sessions -> Places],
         \A c \in Sessions : pc'[c] \in {"posting", "leaving"} => pc'[c] = pc[c],
         sent' \in [Sessions -> 0..SendCap],
         writer' \in [Sessions -> {"up", "down"}]
  PROVE  Inv'
<1>1. TypeOK'
  BY DEF Inv, TypeOK
<1>2. Counted' /\ Fresh' /\ Known'
  BY DEF Inv, Counted, SeatedAt, Fresh, Known
<1>3. Purpose'
  BY DEF Inv, Purpose
<1>. QED
  BY <1>1, <1>2, <1>3 DEF Inv

LEMMA DeliverTyped == ASSUME TypeOK, NEW S, Deliver(S) PROVE sent' \in [Sessions -> 0..SendCap]
<1>1. SendCap \in Nat \ {0}
  BY LobbyAssumption
<1>. QED
  BY <1>1 DEF TypeOK, Deliver

LEMMA QuietSteps ==
  ASSUME Inv, NEW c \in Sessions, Stray(c) \/ Reply(c) \/ Lose(c) \/ WriterStep(c)
  PROVE  Inv'
<1>1. TypeOK /\ SendCap \in Nat \ {0}
  BY LobbyAssumption DEF Inv
<1>2. CASE Stray(c)
  <2>1. pc' \in [Sessions -> Places] /\ UNCHANGED <<conn, sent, writer>>
    BY <1>1, <1>2 DEF Stray, TypeOK, Places
  <2>. QED
    BY <1>1, <1>2, <2>1, QuietInv DEF Stray, TypeOK
<1>3. CASE Reply(c)
  <2>1. pc' \in [Sessions -> Places] /\ sent' \in [Sessions -> 0..SendCap]
    BY <1>1, <1>3 DEF Reply, HasRoom, TypeOK, Places
  <2>. QED
    BY <1>1, <1>3, <2>1, QuietInv DEF Reply, TypeOK
<1>4. CASE Lose(c)
  <2>1. conn' \in [Sessions -> {"open", "lost"}] /\ UNCHANGED <<pc, sent, writer>>
    BY <1>1, <1>4 DEF Lose, TypeOK
  <2>. QED
    BY <1>1, <1>4, <2>1, QuietInv DEF Lose, TypeOK
<1>5. CASE WriterStep(c)
  <2>1. sent' = [sent EXCEPT ![c] = @ - 1] /\ sent[c] > 0
    BY <1>5 DEF WriterStep, Write, WriteFails
  <2>2. sent' \in [Sessions -> 0..SendCap]
    BY <1>1, <2>1 DEF TypeOK
  <2>3. /\ conn' \in [Sessions -> {"open", "lost"}] /\ pc' = pc
        /\ writer' \in [Sessions -> {"up", "down"}]
    BY <1>1, <1>5 DEF WriterStep, Write, WriteFails, TypeOK
  <2>. QED
    BY <1>1, <1>5, <2>2, <2>3, QuietInv DEF WriterStep, Write, WriteFails, TypeOK
<1>. QED
  BY <1>2, <1>3, <1>4, <1>5
---------------------------------------------------------------------------
(* The reader. *)

LEMMA LoginInv == ASSUME Inv, NEW c \in Sessions, Login(c) PROVE Inv'
<1>1. TypeOK /\ MaxLogins \in Nat \ {0}
  BY LobbyAssumption DEF Inv
<1>2. /\ login' \in [Sessions -> 0..MaxLogins] /\ pc' \in [Sessions -> Places]
      /\ \A d \in Sessions : login[d] <= login'[d]
      /\ \A d \in Sessions : pc'[d] \in {"posting", "leaving"} => pc'[d] = pc[d]
  BY <1>1 DEF Login, TypeOK, Places
<1>3. UNCHANGED <<conn, post, at, sent, writer, made, stake, chairs, count, queue, overtaken>>
  BY DEF Login
<1>4. TypeOK'
  BY <1>1, <1>2, <1>3 DEF TypeOK
<1>5. Counted' /\ Fresh'
  BY <1>3 DEF Inv, Counted, SeatedAt, Fresh
<1>6. Purpose'
  BY <1>1, <1>2, <1>3 DEF Inv, Purpose, TypeOK
<1>7. Known'
  <2>. SUFFICES ASSUME NEW t \in Tables
       PROVE  /\ \A i \in 1..Len(queue[t]) :
                   queue[t][i].user.login <= login'[queue[t][i].user.session]
              /\ \A k \in ChairNumbers :
                   chairs[t][k] # Free => chairs[t][k].login <= login'[chairs[t][k].session]
    BY <1>3 DEF Known
  <2>1. \A d \in Sessions : login[d] \in Nat /\ login'[d] \in Nat
    BY <1>1, <1>2, SessionTypes
  <2>2. ASSUME NEW i \in 1..Len(queue[t])
        PROVE  queue[t][i].user.login <= login'[queue[t][i].user.session]
    <3>. DEFINE u == queue[t][i].user
    <3>1. u.session \in Sessions /\ u.login \in Nat
      BY <1>1, CommandTypes
    <3>2. u.login <= login[u.session]
      BY DEF Inv, Known
    <3>3. login[u.session] <= login'[u.session]
      BY <1>2, <3>1
    <3>. HIDE DEF u
    <3>4. u.login <= login'[u.session]
      BY <2>1, <3>1, <3>2, <3>3
    <3>. QED
      BY <3>4 DEF u
  <2>3. ASSUME NEW k \in ChairNumbers, chairs[t][k] # Free
        PROVE  chairs[t][k].login <= login'[chairs[t][k].session]
    <3>. DEFINE u == chairs[t][k]
    <3>1. u.session \in Sessions /\ u.login \in Nat
      BY <1>1, <2>3, ChairTypes
    <3>2. u.login <= login[u.session]
      BY <2>3 DEF Inv, Known
    <3>3. login[u.session] <= login'[u.session]
      BY <1>2, <3>1
    <3>. HIDE DEF u
    <3>4. u.login <= login'[u.session]
      BY <2>1, <3>1, <3>2, <3>3
    <3>. QED
      BY <3>4 DEF u
  <2>. QED
    BY <2>2, <2>3
<1>. QED
  BY <1>4, <1>5, <1>6, <1>7 DEF Inv

LEMMA ManagerFacts ==
  ASSUME Inv, NEW b \in Stakes, NEW t \in Tables, FindOrCreate(b, t)
  PROVE  /\ made' \in 0..MaxTables /\ made <= made' /\ t \in 1..made'
         /\ stake' \in [Tables -> Stakes]
         /\ count[t] < Chairs
<1>1. TypeOK /\ Chairs \in Nat \ {0} /\ MaxTables \in Nat
  BY LobbyAssumption DEF Inv
<1>2. CASE t \in WithRoom(b) /\ UNCHANGED <<made, stake>>
  BY <1>1, <1>2 DEF WithRoom, TypeOK
<1>3. CASE t = made + 1 /\ made' = t /\ stake' = [stake EXCEPT ![t] = b]
  <2>1. \A k \in ChairNumbers : chairs[t][k] = Free
    BY <1>1, <1>3 DEF Inv, Fresh, TypeOK
  <2>2. Cardinality(SeatedAt(t)) = 0
    BY <2>1, FS_EmptySet DEF SeatedAt
  <2>. QED
    BY <1>1, <1>3, <2>2 DEF TypeOK, Tables, Inv, Counted
<1>. QED
  BY <1>2, <1>3 DEF FindOrCreate

LEMMA SitInv == ASSUME Inv, NEW c \in Sessions, Sit(c) PROVE Inv'
<1>1. TypeOK
  BY DEF Inv
<1>2. PICK b \in Stakes, t \in Tables :
        /\ FindOrCreate(b, t)
        /\ post' = [post EXCEPT ![c] = [table |-> t, kind |-> "sit"]]
  BY DEF Sit
<1>3. /\ made' \in 0..MaxTables /\ made <= made' /\ t \in 1..made'
      /\ stake' \in [Tables -> Stakes]
  BY <1>2, ManagerFacts
<1>6. /\ pc' = [pc EXCEPT ![c] = "posting"] /\ login[c] > 0
      /\ UNCHANGED <<conn, login, at, sent, writer, chairs, count, queue, overtaken>>
  BY DEF Sit
<1>7. post' \in [Sessions -> Posts] /\ post'[c].table = t
      /\ \A d \in Sessions : d # c => post'[d] = post[d]
  BY <1>1, <1>2 DEF TypeOK, Posts, Kinds, Tables, TableOrNone
<1>8. pc' \in [Sessions -> Places] /\ \A d \in Sessions : d # c => pc'[d] = pc[d]
  BY <1>1, <1>6 DEF TypeOK, Places
<1>9. TypeOK'
  BY <1>1, <1>3, <1>6, <1>7, <1>8 DEF TypeOK
<1>10. Fresh'
  <2>1. made \in Nat /\ made' \in Nat /\ \A d \in Sessions : at[d] \in Nat
    BY <1>1, <1>3 DEF TypeOK, TableOrNone
  <2>2. \A s \in Tables : s \in Nat /\ (s > made' => s > made)
    BY <1>3, <2>1 DEF Tables
  <2>3. \A s \in Tables : s > made => /\ queue[s] = <<>>
                                      /\ \A k \in ChairNumbers : chairs[s][k] = Free
    BY DEF Inv, Fresh
  <2>4. \A d \in Sessions : at[d] <= made'
    BY <1>3, <2>1 DEF Inv, Fresh
  <2>5. queue' = queue /\ chairs' = chairs /\ at' = at
    BY <1>6
  <2>. QED
    BY <2>2, <2>3, <2>4, <2>5 DEF Fresh
<1>11. Purpose'
  <2>1. made \in Nat /\ made' \in Nat
    BY <1>1, <1>3 DEF TypeOK
  <2>. QED
    BY <1>3, <1>6, <1>7, <1>8, <2>1 DEF Inv, Purpose
<1>12. Known' /\ Counted'
  BY <1>6 DEF Inv, Known, Counted, SeatedAt
<1>. QED
  BY <1>9, <1>10, <1>11, <1>12 DEF Inv

LEMMA AskInv == ASSUME Inv, NEW c \in Sessions, Play(c) \/ Leave(c) PROVE Inv'
<1>1. TypeOK
  BY DEF Inv
<1>2. PICK kind \in Kinds : post' = [post EXCEPT ![c] = [table |-> at[c], kind |-> kind]]
  BY DEF Play, Leave, Kinds
<1>3. /\ at[c] # NoTable /\ pc' = [pc EXCEPT ![c] = "posting"]
      /\ UNCHANGED <<conn, login, at, sent, writer, made, stake, chairs, count, queue, overtaken>>
  BY DEF Play, Leave
<1>4. login[c] > 0 /\ at[c] \in 1..made
  BY <1>1, <1>3 DEF Inv, Purpose, Fresh, TypeOK, TableOrNone, NoTable
<1>5. TypeOK'
  BY <1>1, <1>2, <1>3 DEF TypeOK, Posts, Places
<1>6. Counted' /\ Fresh' /\ Known'
  BY <1>3 DEF Inv, Counted, SeatedAt, Fresh, Known
<1>7. Purpose'
  BY <1>1, <1>2, <1>3, <1>4 DEF Inv, Purpose, TypeOK
<1>. QED
  BY <1>5, <1>6, <1>7 DEF Inv

LEMMA PostedInv ==
  ASSUME Inv, NEW c \in Sessions, pc[c] \in {"posting", "leaving"}, Posted(c),
         pc' \in [Sessions -> Places],
         \A d \in Sessions : pc'[d] \in {"posting", "leaving"} => d # c /\ pc'[d] = pc[d],
         sent' \in [Sessions -> 0..SendCap],
         writer' \in [Sessions -> {"up", "down"}]
  PROVE  Inv'
<1>. DEFINE t == post[c].table
            m == [kind |-> post[c].kind, user |-> User(c)]
<1>1. TypeOK /\ login[c] > 0 /\ t \in 1..made
  BY DEF Inv, Purpose
<1>2. t \in Tables /\ m \in Commands
  <2>1. made \in 0..MaxTables
    BY <1>1 DEF TypeOK
  <2>2. t \in Tables
    BY <1>1, <2>1, ConstantTypes DEF Tables
  <2>3. post[c].kind \in Kinds /\ User(c) \in Users
    BY <1>1, SessionTypes
  <2>. QED
    BY <2>2, <2>3 DEF Commands
<1>3. /\ Len(queue[t]) < QueueCap
      /\ queue' = [queue EXCEPT ![t] = Append(@, m)]
      /\ at' = IF post[c].kind = "leave" THEN [at EXCEPT ![c] = NoTable] ELSE at
      /\ post' = [post EXCEPT ![c] = NoPost]
      /\ UNCHANGED <<conn, login, made, stake, chairs, count, overtaken>>
  BY DEF Posted
<1>. HIDE DEF m, t
<1>4. /\ queue' \in [Tables -> Seq(Commands)]
      /\ \A s \in Tables : Len(queue'[s]) <= QueueCap
      /\ \A s \in Tables : s # t => queue'[s] = queue[s]
      /\ Len(queue'[t]) = Len(queue[t]) + 1
      /\ \A i \in 1..Len(queue[t]) : queue'[t][i] = queue[t][i]
      /\ queue'[t][Len(queue[t]) + 1] = m
  BY <1>1, <1>2, <1>3, Appended
<1>5. /\ at' \in [Sessions -> TableOrNone] /\ post' \in [Sessions -> Posts]
      /\ \A d \in Sessions : at'[d] \in {at[d], NoTable} /\ (d # c => post'[d] = post[d])
  <2>1. at \in [Sessions -> TableOrNone] /\ post \in [Sessions -> Posts]
    BY <1>1 DEF TypeOK
  <2>2. NoTable \in TableOrNone /\ NoPost \in Posts
    BY ConstantTypes DEF TableOrNone, NoTable, NoPost, Posts, Kinds
  <2>3. at' = [at EXCEPT ![c] = NoTable] \/ at' = at
    BY <1>3
  <2>. QED
    BY <1>3, <2>1, <2>2, <2>3
<1>6. TypeOK'
  BY <1>1, <1>3, <1>4, <1>5 DEF TypeOK
<1>7. Fresh'
  <2>1. \A s \in Tables : s > made => s # t
    BY <1>1 DEF Tables, TypeOK
  <2>2. \A d \in Sessions : at'[d] <= made
    <3>1. \A d \in Sessions : at[d] <= made
      BY DEF Inv, Fresh
    <3>2. made \in Nat
      BY <1>1 DEF TypeOK
    <3>. QED
      BY <1>5, <3>1, <3>2 DEF NoTable
  <2>. QED
    BY <1>3, <1>4, <2>1, <2>2 DEF Inv, Fresh
<1>8. Purpose'
  BY <1>3, <1>5 DEF Inv, Purpose
<1>9. Known'
  <2>1. m.user.login <= login[m.user.session]
    BY <1>1 DEF m, User, TypeOK
  <2>2. \A s \in Tables : Len(queue[s]) \in Nat
    BY <1>1, LenProperties DEF TypeOK
  <2>3. \A s \in Tables : \A i \in 1..Len(queue'[s]) :
          queue'[s][i].user.login <= login[queue'[s][i].user.session]
    <3>. TAKE s \in Tables
    <3>1. CASE s # t
      BY <1>4, <3>1 DEF Inv, Known
    <3>2. CASE s = t
      <4>. TAKE i \in 1..Len(queue'[s])
      <4>1. i \in 1..Len(queue[t]) \/ i = Len(queue[t]) + 1
        BY <1>2, <1>4, <2>2, <3>2
      <4>. QED
        BY <1>2, <1>4, <2>1, <3>2, <4>1 DEF Inv, Known
    <3>. QED
      BY <3>1, <3>2
  <2>. QED
    BY <1>3, <2>3 DEF Inv, Known
<1>10. Counted'
  BY <1>3 DEF Inv, Counted, SeatedAt
<1>. QED
  BY <1>6, <1>7, <1>8, <1>9, <1>10 DEF Inv

LEMMA PostInv == ASSUME Inv, NEW c \in Sessions, Post(c) \/ PostLast(c) PROVE Inv'
<1>1. TypeOK
  BY DEF Inv
<1>2. pc[c] \in {"posting", "leaving"} /\ Posted(c)
  BY DEF Post, PostLast
<1>3. PICK place \in {"sitting", "reading", "gone"} : pc' = [pc EXCEPT ![c] = place]
  BY DEF Post, PostLast
<1>4. /\ pc' \in [Sessions -> Places]
      /\ \A d \in Sessions : pc'[d] \in {"posting", "leaving"} => d # c /\ pc'[d] = pc[d]
  BY <1>1, <1>3 DEF TypeOK, Places
<1>5. sent' \in [Sessions -> 0..SendCap] /\ writer' \in [Sessions -> {"up", "down"}]
  <2>1. /\ sent \in [Sessions -> 0..SendCap] /\ writer \in [Sessions -> {"up", "down"}]
        /\ 0 \in 0..SendCap
    BY <1>1, ConstantTypes DEF TypeOK
  <2>2. \/ sent' = sent /\ writer' = writer
        \/ sent' = [sent EXCEPT ![c] = 0] /\ writer' = [writer EXCEPT ![c] = "down"]
    BY DEF Post, PostLast
  <2>. QED
    BY <2>1, <2>2
<1>. QED
  BY <1>2, <1>4, <1>5, PostedInv

LEMMA DisconnectInv == ASSUME Inv, NEW c \in Sessions, Disconnect(c) PROVE Inv'
<1>1. TypeOK
  BY DEF Inv
<1>2. UNCHANGED <<conn, login, at, made, stake, chairs, count, queue, overtaken>>
  BY DEF Disconnect
<1>3. CASE at[c] # NoTable
  <2>1. /\ pc' = [pc EXCEPT ![c] = "leaving"]
        /\ pc'[c] = "leaving"
        /\ post' = [post EXCEPT ![c] = [table |-> at[c], kind |-> "leave"]]
        /\ UNCHANGED <<writer, sent>>
    BY <1>1, <1>3 DEF Disconnect, LastWords, TypeOK
  <2>2. login[c] > 0 /\ at[c] \in 1..made
    BY <1>1, <1>3 DEF Inv, Purpose, Fresh, TypeOK, TableOrNone, NoTable
  <2>3. TypeOK'
    BY <1>1, <1>2, <2>1 DEF TypeOK, Posts, Places, Kinds
  <2>4. Counted' /\ Fresh' /\ Known'
    BY <1>2 DEF Inv, Counted, SeatedAt, Fresh, Known
  <2>5. Purpose'
    BY <1>1, <1>2, <2>1, <2>2 DEF Inv, Purpose, TypeOK
  <2>. QED
    BY <2>3, <2>4, <2>5 DEF Inv
<1>4. CASE at[c] = NoTable
  <2>1. pc' = [pc EXCEPT ![c] = "gone"] /\ pc'[c] = "gone"
    BY <1>1, <1>4 DEF Disconnect, LastWords, TypeOK
  <2>2. /\ post' = post
        /\ sent' = [sent EXCEPT ![c] = 0] /\ writer' = [writer EXCEPT ![c] = "down"]
    BY <2>1 DEF Disconnect
  <2>3. /\ conn' \in [Sessions -> {"open", "lost"}]
        /\ sent' \in [Sessions -> 0..SendCap] /\ writer' \in [Sessions -> {"up", "down"}]
    BY <1>1, <1>2, <2>2, ConstantTypes DEF TypeOK
  <2>4. /\ pc' \in [Sessions -> Places]
        /\ \A d \in Sessions : pc'[d] \in {"posting", "leaving"} => pc'[d] = pc[d]
    BY <1>1, <2>1 DEF TypeOK, Places
  <2>. QED
    BY <1>2, <2>2, <2>3, <2>4, QuietInv
<1>. QED
  BY <1>3, <1>4
---------------------------------------------------------------------------
(* The tables. *)

LEMMA FirstIn ==
  ASSUME NEW K \in SUBSET ChairNumbers, K # {}
  PROVE  FirstOf(K) \in K
<1>. DEFINE R == {ss \in Nat \X Nat : ss[1] < ss[2]}
<1>1. K \subseteq Nat
  BY ConstantTypes DEF ChairNumbers
<1>2. IsWellFoundedOn(R, Nat)
  BY NatLessThanWellFounded DEF OpToRel
<1>3. PICK k \in K : \A o \in K : ~(<<o, k>> \in R)
  <2>. HIDE DEF R
  <2>. QED
    BY <1>1, <1>2, WFMin
<1>4. \A o \in K : k <= o
  <2>. SUFFICES ASSUME NEW o \in K, o < k PROVE FALSE
    BY <1>1
  <2>1. <<o, k>> \in Nat \X Nat
    BY <1>1
  <2>. QED
    BY <1>3, <2>1
<1>. QED
  BY <1>4 DEF FirstOf

LEMMA UserNotFree == ASSUME NEW u \in Users PROVE u # Free
BY ConstantTypes DEF Users, Free

LEMMA SeatedFinite ==
  ASSUME NEW S \in SUBSET ChairNumbers
  PROVE  IsFiniteSet(S) /\ Cardinality(S) \in 0..Chairs
<1>1. Chairs \in Nat /\ IsFiniteSet(1..Chairs) /\ Cardinality(1..Chairs) = Chairs
  BY ConstantTypes, FS_Interval
<1>2. IsFiniteSet(S) /\ Cardinality(S) <= Chairs /\ Cardinality(S) \in Nat
  BY <1>1, FS_Subset, FS_CardinalityType DEF ChairNumbers
<1>. QED
  BY <1>1, <1>2

\* The counter follows the chairs, one up or one down.
LEMMA ChairTaken ==
  ASSUME Inv, NEW t \in Tables, NEW k \in ChairNumbers, k \notin SeatedAt(t),
         NEW u \in Users, u # Free,
         chairs' = [chairs EXCEPT ![t][k] = u], count' = [count EXCEPT ![t] = @ + 1]
  PROVE  count' \in [Tables -> 0..Chairs] /\ Counted'
<1>1. /\ chairs \in [Tables -> [ChairNumbers -> Users \cup {Free}]]
      /\ count \in [Tables -> 0..Chairs] /\ \A s \in Tables : count[s] = Cardinality(SeatedAt(s))
  BY DEF Inv, TypeOK, Counted
<1>2. SeatedAt(t)' = SeatedAt(t) \cup {k} /\ \A s \in Tables : s # t => SeatedAt(s)' = SeatedAt(s)
  BY <1>1 DEF SeatedAt
<1>3. \A s \in Tables : SeatedAt(s) \in SUBSET ChairNumbers /\ SeatedAt(s)' \in SUBSET ChairNumbers
  BY DEF SeatedAt
<1>4. Cardinality(SeatedAt(t)') = Cardinality(SeatedAt(t)) + 1
  BY <1>2, <1>3, SeatedFinite, FS_AddElement
<1>5. \A s \in Tables : count'[s] = Cardinality(SeatedAt(s)')
  BY <1>1, <1>2, <1>4
<1>6. \A s \in Tables : Cardinality(SeatedAt(s)') \in 0..Chairs
  BY <1>3, SeatedFinite
<1>7. count' = [s \in Tables |-> Cardinality(SeatedAt(s)')]
  BY <1>1, <1>5
<1>. QED
  BY <1>5, <1>6, <1>7 DEF Counted

LEMMA ChairLeft ==
  ASSUME Inv, NEW t \in Tables, NEW k \in SeatedAt(t),
         chairs' = [chairs EXCEPT ![t][k] = Free], count' = [count EXCEPT ![t] = @ - 1]
  PROVE  count' \in [Tables -> 0..Chairs] /\ Counted'
<1>1. /\ chairs \in [Tables -> [ChairNumbers -> Users \cup {Free}]]
      /\ count \in [Tables -> 0..Chairs] /\ \A s \in Tables : count[s] = Cardinality(SeatedAt(s))
  BY DEF Inv, TypeOK, Counted
<1>2. SeatedAt(t)' = SeatedAt(t) \ {k} /\ \A s \in Tables : s # t => SeatedAt(s)' = SeatedAt(s)
  BY <1>1 DEF SeatedAt
<1>3. \A s \in Tables : SeatedAt(s) \in SUBSET ChairNumbers /\ SeatedAt(s)' \in SUBSET ChairNumbers
  BY DEF SeatedAt
<1>4. Cardinality(SeatedAt(t)') = Cardinality(SeatedAt(t)) - 1
  BY <1>2, <1>3, SeatedFinite, FS_RemoveElement
<1>5. \A s \in Tables : count'[s] = Cardinality(SeatedAt(s)')
  BY <1>1, <1>2, <1>4
<1>6. \A s \in Tables : Cardinality(SeatedAt(s)') \in 0..Chairs
  BY <1>3, SeatedFinite
<1>7. count' = [s \in Tables |-> Cardinality(SeatedAt(s)')]
  BY <1>1, <1>5
<1>. QED
  BY <1>5, <1>6, <1>7 DEF Counted

LEMMA PoppedInv ==
  ASSUME Inv, NEW t \in Tables, queue[t] # <<>>,
         queue' = [queue EXCEPT ![t] = Tail(@)],
         UNCHANGED <<conn, post, login, writer, made, stake>>,
         pc' \in [Sessions -> Places],
         \A c \in Sessions : pc'[c] \in {"posting", "leaving"} => pc'[c] = pc[c],
         at' \in [Sessions -> TableOrNone],
         \A c \in Sessions : at'[c] = at[c] \/ (at'[c] = t /\ c = Head(queue[t]).user.session),
         sent' \in [Sessions -> 0..SendCap],
         chairs' \in [Tables -> [ChairNumbers -> Users \cup {Free}]],
         \A s \in Tables, k \in ChairNumbers :
           \/ chairs'[s][k] \in {chairs[s][k], Free}
           \/ s = t /\ chairs'[s][k] = Head(queue[t]).user,
         overtaken' \in [Sessions -> BOOLEAN],
         count' \in [Tables -> 0..Chairs], Counted'
  PROVE  Inv'
<1>. DEFINE u == Head(queue[t]).user
<1>1. TypeOK /\ made \in Nat
  BY DEF Inv, TypeOK
<1>2. /\ queue' \in [Tables -> Seq(Commands)]
      /\ \A s \in Tables : Len(queue'[s]) <= QueueCap
      /\ \A s \in Tables : s # t => queue'[s] = queue[s]
      /\ Len(queue[t]) \in Nat \ {0}
      /\ Len(queue'[t]) = Len(queue[t]) - 1
      /\ \A i \in 1..(Len(queue[t]) - 1) : queue'[t][i] = queue[t][i + 1]
      /\ Head(queue[t]) = queue[t][1]
      /\ Head(queue[t]) \in Commands
  BY <1>1, Popped
<1>3. t <= made
  BY <1>1 DEF Inv, Fresh, Tables
<1>4. u \in Users /\ u.session \in Sessions /\ u.login \in Nat \ {0} /\ u.login <= login[u.session]
  <2>1. 1 \in 1..Len(queue[t]) /\ u = queue[t][1].user
    BY <1>2
  <2>2. queue[t][1].user.login <= login[queue[t][1].user.session]
    BY <2>1 DEF Inv, Known
  <2>. QED
    BY <1>1, <2>1, <2>2, CommandTypes
<1>5. login[u.session] > 0
  BY <1>1, <1>4, SessionTypes
<1>. HIDE DEF u
<1>6. TypeOK'
  BY <1>1, <1>2 DEF TypeOK
<1>7. Fresh'
  <2>1. \A s \in Tables : s > made => s # t
    BY <1>1, <1>3 DEF Tables
  <2>2. \A c \in Sessions : at'[c] <= made
    BY <1>3 DEF Inv, Fresh
  <2>3. \A s \in Tables : s > made => queue'[s] = <<>>
    BY <1>2, <2>1 DEF Inv, Fresh
  <2>4. \A s \in Tables : s > made => \A k \in ChairNumbers : chairs'[s][k] = Free
    <3>. TAKE s \in Tables
    <3>. HAVE s > made
    <3>. TAKE k \in ChairNumbers
    <3>1. chairs[s][k] = Free /\ s # t
      BY <2>1 DEF Inv, Fresh
    <3>2. chairs'[s][k] \in {chairs[s][k], Free}
      BY <3>1
    <3>. QED
      BY <3>1, <3>2
  <2>. QED
    BY <2>2, <2>3, <2>4 DEF Fresh
<1>8. Purpose'
  <2>1. \A c \in Sessions : at'[c] # NoTable => login[c] > 0
    BY <1>5 DEF Inv, Purpose, u
  <2>. QED
    BY <2>1 DEF Inv, Purpose
<1>9. Known'
  <2>. SUFFICES ASSUME NEW s \in Tables
       PROVE  /\ \A i \in 1..Len(queue'[s]) :
                   queue'[s][i].user.login <= login[queue'[s][i].user.session]
              /\ \A k \in ChairNumbers :
                   chairs'[s][k] # Free => chairs'[s][k].login <= login[chairs'[s][k].session]
    BY DEF Known
  <2>1. \A i \in 1..Len(queue'[s]) :
          queue'[s][i].user.login <= login[queue'[s][i].user.session]
    <3>1. CASE s # t
      BY <1>2, <3>1 DEF Inv, Known
    <3>2. CASE s = t
      <4>. TAKE i \in 1..Len(queue'[s])
      <4>1. i + 1 \in 1..Len(queue[t]) /\ queue'[t][i] = queue[t][i + 1]
        BY <1>2, <3>2
      <4>. QED
        BY <3>2, <4>1 DEF Inv, Known
    <3>. QED
      BY <3>1, <3>2
  <2>2. ASSUME NEW k \in ChairNumbers, chairs'[s][k] # Free
        PROVE  chairs'[s][k].login <= login[chairs'[s][k].session]
    <3>1. CASE chairs'[s][k] = chairs[s][k]
      BY <2>2, <3>1 DEF Inv, Known
    <3>2. CASE chairs'[s][k] = u
      BY <1>4, <3>2
    <3>. QED
      BY <2>2, <3>1, <3>2 DEF u
  <2>. QED
    BY <2>1, <2>2
<1>. QED
  BY <1>6, <1>7, <1>8, <1>9 DEF Inv

LEMMA HandleSitInv == ASSUME Inv, NEW t \in Tables, HandleSit(t) PROVE Inv'
<1>. DEFINE u == Head(queue[t]).user
            k0 == FirstOf(ChairNumbers \ SeatedAt(t))
<1>1. TypeOK /\ queue[t] # <<>> /\ queue' = [queue EXCEPT ![t] = Tail(@)]
  BY DEF Inv, HandleSit, Heads
<1>2. u \in Users /\ u.session \in Sessions
  BY <1>1, Popped DEF Commands, Users
<1>3. /\ UNCHANGED <<conn, post, login, writer, made, stake>>
      /\ \/ /\ pc' = [pc EXCEPT ![u.session] = "replying"]
            /\ UNCHANGED <<at, chairs, count, sent>>
         \/ /\ ChairNumbers \ SeatedAt(t) # {}
            /\ chairs' = [chairs EXCEPT ![t][k0] = u]
            /\ count' = [count EXCEPT ![t] = @ + 1]
            /\ Deliver(Seated(chairs'[t]))
            /\ at' = [at EXCEPT ![u.session] = t]
            /\ pc' = [pc EXCEPT ![u.session] = "reading"]
  BY DEF HandleSit
<1>. HIDE DEF u, k0
<1>4. overtaken' \in [Sessions -> BOOLEAN]
  <2>1. overtaken \in [Sessions -> BOOLEAN]
    BY <1>1 DEF TypeOK
  <2>2. \/ overtaken' = [overtaken EXCEPT ![u.session] = FALSE]
        \/ overtaken' = [c \in Sessions |->
                            c # u.session /\ (overtaken[c] \/ WaitsAt(c, t))]
    BY DEF HandleSit, u
  <2>. QED
    BY <2>1, <2>2
<1>9. count' \in [Tables -> 0..Chairs] /\ Counted'
  <2>1. CASE UNCHANGED <<chairs, count>>
    BY <1>1, <2>1 DEF Inv, TypeOK, Counted, SeatedAt
  <2>2. CASE /\ ChairNumbers \ SeatedAt(t) # {}
             /\ chairs' = [chairs EXCEPT ![t][k0] = u]
             /\ count' = [count EXCEPT ![t] = @ + 1]
    <3>1. k0 \in ChairNumbers /\ k0 \notin SeatedAt(t)
      BY <2>2, FirstIn DEF k0
    <3>2. u # Free
      BY <1>2, UserNotFree
    <3>. QED
      BY <1>1, <1>2, <2>2, <3>1, <3>2, ChairTaken
  <2>. QED
    BY <1>3, <2>1, <2>2
<1>5. /\ pc' \in [Sessions -> Places]
      /\ \A c \in Sessions : pc'[c] \in {"posting", "leaving"} => pc'[c] = pc[c]
  BY <1>1, <1>2, <1>3 DEF TypeOK, Places
<1>6. /\ at' \in [Sessions -> TableOrNone]
      /\ \A c \in Sessions : at'[c] = at[c] \/ (at'[c] = t /\ c = u.session)
  <2>1. at \in [Sessions -> TableOrNone] /\ t \in TableOrNone
    BY <1>1, ConstantTypes DEF TypeOK
  <2>2. at' = at \/ at' = [at EXCEPT ![u.session] = t]
    BY <1>3
  <2>. QED
    BY <2>1, <2>2
<1>7. sent' \in [Sessions -> 0..SendCap]
  BY <1>1, <1>3, DeliverTyped DEF TypeOK
<1>8. /\ chairs' \in [Tables -> [ChairNumbers -> Users \cup {Free}]]
      /\ \A s \in Tables, k \in ChairNumbers :
           chairs'[s][k] \in {chairs[s][k], Free} \/ (s = t /\ chairs'[s][k] = u)
  <2>1. chairs \in [Tables -> [ChairNumbers -> Users \cup {Free}]]
    BY <1>1 DEF TypeOK
  <2>2. chairs' = chairs \/ chairs' = [chairs EXCEPT ![t][k0] = u]
    BY <1>3
  <2>. QED
    BY <1>2, <2>1, <2>2
<1>. QED
  BY <1>1, <1>3, <1>4, <1>5, <1>6, <1>7, <1>8, <1>9, PoppedInv DEF u

LEMMA HandleLeaveInv ==
  ASSUME Inv, NEW t \in Tables, HandleLeave(t) \/ HandlePlay(t)
  PROVE  Inv'
<1>1. TypeOK /\ queue[t] # <<>> /\ queue' = [queue EXCEPT ![t] = Tail(@)]
  BY DEF Inv, HandleLeave, HandlePlay, Heads
<1>2. UNCHANGED <<conn, pc, post, login, at, writer, made, stake, overtaken>>
  BY DEF HandleLeave, HandlePlay
<1>3. (\E k0 : chairs' = [chairs EXCEPT ![t][k0] = Free]) \/ chairs' = chairs
  BY DEF HandleLeave, HandlePlay
<1>4. (\E S : Deliver(S)) \/ sent' = sent
  BY DEF HandleLeave, HandlePlay
<1>5. /\ chairs' \in [Tables -> [ChairNumbers -> Users \cup {Free}]]
      /\ \A s \in Tables, k \in ChairNumbers : chairs'[s][k] \in {chairs[s][k], Free}
  <2>1. chairs \in [Tables -> [ChairNumbers -> Users \cup {Free}]]
    BY <1>1 DEF TypeOK
  <2>. QED
    BY <1>3, <2>1
<1>6. sent' \in [Sessions -> 0..SendCap]
  BY <1>1, <1>4, DeliverTyped DEF TypeOK
<1>7. /\ pc' \in [Sessions -> Places] /\ at' \in [Sessions -> TableOrNone]
      /\ overtaken' \in [Sessions -> BOOLEAN]
  BY <1>1, <1>2 DEF TypeOK
<1>8. \A c \in Sessions : pc'[c] = pc[c] /\ at'[c] = at[c]
  BY <1>2
<1>9. count' \in [Tables -> 0..Chairs] /\ Counted'
  <2>. DEFINE mine == ChairsOf(t, Head(queue[t]).user)
  <2>1. \/ UNCHANGED <<chairs, count>>
        \/ /\ mine # {}
           /\ chairs' = [chairs EXCEPT ![t][FirstOf(mine)] = Free]
           /\ count' = [count EXCEPT ![t] = @ - 1]
    <3>1. CASE HandlePlay(t)
      BY <3>1 DEF HandlePlay
    <3>2. CASE HandleLeave(t) /\ mine = {}
      <4>1. chairs' = chairs /\ count' = [count EXCEPT ![t] = count[t]]
        BY <3>2 DEF HandleLeave, CountWithout
      <4>. QED
        BY <1>1, <4>1 DEF TypeOK
    <3>3. CASE HandleLeave(t) /\ mine # {}
      BY <3>3 DEF HandleLeave, CountWithout
    <3>. QED
      BY <3>1, <3>2, <3>3
  <2>2. CASE UNCHANGED <<chairs, count>>
    BY <1>1, <2>2 DEF Inv, TypeOK, Counted, SeatedAt
  <2>3. CASE /\ mine # {}
             /\ chairs' = [chairs EXCEPT ![t][FirstOf(mine)] = Free]
             /\ count' = [count EXCEPT ![t] = @ - 1]
    <3>1. FirstOf(mine) \in mine /\ FirstOf(mine) \in ChairNumbers
      BY <2>3, FirstIn DEF ChairsOf
    <3>2. Head(queue[t]).user # Free
      BY <1>1, Popped, UserNotFree DEF Commands
    <3>3. FirstOf(mine) \in SeatedAt(t)
      BY <3>1, <3>2 DEF ChairsOf, SeatedAt
    <3>. HIDE DEF mine
    <3>. QED
      BY <2>3, <3>3, ChairLeft
  <2>. QED
    BY <2>1, <2>2, <2>3
<1>. QED
  BY <1>1, <1>2, <1>5, <1>6, <1>7, <1>8, <1>9, PoppedInv

LEMMA TableStepInv == ASSUME Inv, NEW t \in Tables, TableStep(t) PROVE Inv'
<1>1. TypeOK
  BY DEF Inv
<1>2. UNCHANGED <<conn, pc, post, login, at, writer, made, stake, queue, overtaken>>
  BY DEF TableStep, Evict, Talk
<1>3. sent' \in [Sessions -> 0..SendCap]
  BY <1>1, DeliverTyped DEF TableStep, Evict, Talk
<1>4. (\E k0 : chairs' = [chairs EXCEPT ![t][k0] = Free]) \/ chairs' = chairs
  BY DEF TableStep, Evict, Talk
<1>5. /\ chairs' \in [Tables -> [ChairNumbers -> Users \cup {Free}]]
      /\ \A s \in Tables, k \in ChairNumbers : chairs'[s][k] \in {chairs[s][k], Free}
  <2>1. chairs \in [Tables -> [ChairNumbers -> Users \cup {Free}]]
    BY <1>1 DEF TypeOK
  <2>. QED
    BY <1>4, <2>1
<1>10. count' \in [Tables -> 0..Chairs] /\ Counted'
  <2>1. CASE Talk(t)
    BY <1>1, <2>1 DEF Talk, Inv, TypeOK, Counted, SeatedAt
  <2>2. CASE Evict(t)
    <3>1. PICK k0 \in SeatedAt(t) : chairs' = [chairs EXCEPT ![t][k0] = Free]
      BY <2>2 DEF Evict
    <3>2. count' = [count EXCEPT ![t] = @ - 1]
      BY <2>2 DEF Evict
    <3>. QED
      BY <3>1, <3>2, ChairLeft
  <2>. QED
    BY <2>1, <2>2 DEF TableStep
<1>6. TypeOK'
  BY <1>1, <1>2, <1>3, <1>5, <1>10 DEF TypeOK
<1>7. Fresh'
  BY <1>2, <1>5 DEF Inv, Fresh
<1>8. Purpose'
  BY <1>2 DEF Inv, Purpose
<1>9. Known'
  <2>1. \A s \in Tables, k \in ChairNumbers : chairs'[s][k] # Free => chairs'[s][k] = chairs[s][k]
    BY <1>5
  <2>. QED
    BY <1>2, <2>1 DEF Inv, Known
<1>. QED
  BY <1>6, <1>7, <1>8, <1>9, <1>10 DEF Inv
---------------------------------------------------------------------------
LEMMA NextInv == Inv /\ [Next]_lobby => Inv'
<1>. SUFFICES ASSUME Inv, [Next]_lobby PROVE Inv'
  OBVIOUS
<1>1. CASE UNCHANGED lobby
  BY <1>1 DEF lobby, Inv, TypeOK, Counted, SeatedAt, Fresh, Purpose, Known
<1>2. ASSUME NEW c \in Sessions, ReaderStep(c) PROVE Inv'
  BY <1>2, QuietSteps, PostInv, DisconnectInv DEF ReaderStep
<1>3. ASSUME NEW c \in Sessions, ClientStep(c) PROVE Inv'
  BY <1>3, QuietSteps, LoginInv, SitInv, AskInv DEF ClientStep
<1>4. ASSUME NEW c \in Sessions, WriterStep(c) PROVE Inv'
  BY <1>4, QuietSteps
<1>5. ASSUME NEW t \in Tables, ActorStep(t) PROVE Inv'
  BY <1>5, HandleSitInv, HandleLeaveInv DEF ActorStep
<1>6. ASSUME NEW t \in Tables, TableStep(t) PROVE Inv'
  BY <1>6, TableStepInv
<1>. QED
  BY <1>1, <1>2, <1>3, <1>4, <1>5, <1>6 DEF Next

\* Channels and queues stay within their capacity, only users with an id are seated,
\* and every command posted has an address (handler.go:37, table.go:150).
THEOREM TypeCorrect == Spec => []TypeOK
<1>1. Inv => TypeOK
  BY DEF Inv
<1>. QED
  BY <1>1, InitInv, NextInv, PTL DEF Spec
---------------------------------------------------------------------------
(* A client waits for one chair at a time: its sit is queued once, while its   *)
(* reader waits for the answer.                                                *)

Asks(c, kind, t, i) == queue[t][i].kind = kind /\ queue[t][i].user.session = c
SitsOnce(c) ==
  \A t \in Tables : \A i \in 1..Len(queue[t]) :
    Asks(c, "sit", t, i) =>
      /\ pc[c] = "sitting"
      /\ \A s \in Tables : \A j \in 1..Len(queue[s]) : Asks(c, "sit", s, j) => s = t /\ j = i
OneSit(c) == SitsOnce(c) /\ (pc[c] = "leaving" => post[c].kind = "leave")

\* A command is taken from a queue: the ones behind it keep their order.
LEMMA Moved ==
  ASSUME Inv, NEW t \in Tables, queue[t] # <<>>,
         queue' = [queue EXCEPT ![t] = Tail(@)]
  PROVE  /\ 1 \in 1..Len(queue[t]) /\ Head(queue[t]) = queue[t][1]
         /\ \A s \in Tables : s # t => queue'[s] = queue[s]
         /\ \A i \in 1..Len(queue'[t]) :
              i \in Nat /\ i + 1 \in 1..Len(queue[t]) /\ queue'[t][i] = queue[t][i + 1]
         /\ \A i \in 1..Len(queue[t]) :
              i # 1 => i - 1 \in 1..Len(queue'[t]) /\ queue'[t][i - 1] = queue[t][i]
<1>1. TypeOK
  BY DEF Inv
<1>2. /\ \A s \in Tables : s # t => queue'[s] = queue[s]
      /\ Len(queue[t]) \in Nat \ {0}
      /\ Len(queue'[t]) = Len(queue[t]) - 1
      /\ \A i \in 1..(Len(queue[t]) - 1) : queue'[t][i] = queue[t][i + 1]
      /\ Head(queue[t]) = queue[t][1]
  BY <1>1, Popped
<1>3. \A i \in 1..Len(queue'[t]) :
        i \in Nat /\ i + 1 \in 1..Len(queue[t]) /\ queue'[t][i] = queue[t][i + 1]
  BY <1>2
<1>4. ASSUME NEW i \in 1..Len(queue[t]), i # 1
      PROVE  i - 1 \in 1..Len(queue'[t]) /\ queue'[t][i - 1] = queue[t][i]
  <2>1. i - 1 \in 1..(Len(queue[t]) - 1) /\ (i - 1) + 1 = i
    BY <1>2, <1>4
  <2>. QED
    BY <1>2, <2>1
<1>. QED
  BY <1>2, <1>3, <1>4

LEMMA SitsMoved ==
  ASSUME Inv, NEW t \in Tables, queue[t] # <<>>,
         queue' = [queue EXCEPT ![t] = Tail(@)],
         NEW c \in Sessions, SitsOnce(c), pc'[c] = pc[c]
  PROVE  SitsOnce(c)'
<1>1. ASSUME NEW s \in Tables, NEW i \in 1..Len(queue'[s]), Asks(c, "sit", s, i)'
      PROVE  \E i0 \in 1..Len(queue[s]) :
               Asks(c, "sit", s, i0) /\ i \in Nat /\ (s = t => i0 = i + 1) /\ (s # t => i0 = i)
  <2>1. CASE s = t
    <3>1. i \in Nat /\ i + 1 \in 1..Len(queue[t]) /\ queue'[t][i] = queue[t][i + 1]
      BY <2>1, Moved
    <3>. QED
      BY <1>1, <2>1, <3>1 DEF Asks
  <2>2. CASE s # t
    <3>1. queue'[s] = queue[s] /\ Len(queue[s]) \in Nat
      BY <2>2, Moved, QueueTypes DEF Inv
    <3>. QED
      BY <1>1, <2>2, <3>1 DEF Asks
  <2>. QED
    BY <2>1, <2>2
<1>. SUFFICES ASSUME NEW s \in Tables, NEW i \in 1..Len(queue'[s]), Asks(c, "sit", s, i)'
     PROVE  /\ pc'[c] = "sitting"
            /\ \A r \in Tables : \A j \in 1..Len(queue'[r]) :
                 Asks(c, "sit", r, j)' => r = s /\ j = i
  BY DEF SitsOnce
<1>2. PICK i0 \in 1..Len(queue[s]) :
        Asks(c, "sit", s, i0) /\ i \in Nat /\ (s = t => i0 = i + 1) /\ (s # t => i0 = i)
  BY <1>1
<1>3. /\ pc[c] = "sitting"
      /\ \A r \in Tables : \A j \in 1..Len(queue[r]) : Asks(c, "sit", r, j) => r = s /\ j = i0
  BY <1>2 DEF SitsOnce
<1>4. ASSUME NEW r \in Tables, NEW j \in 1..Len(queue'[r]), Asks(c, "sit", r, j)'
      PROVE  r = s /\ j = i
  <2>1. PICK j0 \in 1..Len(queue[r]) :
          Asks(c, "sit", r, j0) /\ j \in Nat /\ (r = t => j0 = j + 1) /\ (r # t => j0 = j)
    BY <1>1, <1>4
  <2>2. r = s /\ j0 = i0
    BY <1>3, <2>1
  <2>. QED
    BY <1>2, <2>1, <2>2
<1>. QED
  BY <1>3, <1>4

\* What is posted joins its queue at the end.
LEMMA SitsPosted ==
  ASSUME Inv, \A d \in Sessions : OneSit(d), NEW c \in Sessions, Post(c) \/ PostLast(c)
  PROVE  \A d \in Sessions : OneSit(d)'
<1>. DEFINE t == post[c].table
            m == [kind |-> post[c].kind, user |-> User(c)]
            n == Len(queue[t]) + 1
<1>1. TypeOK /\ t \in 1..made
  BY DEF Inv, Purpose, Post, PostLast
<1>2. t \in Tables /\ m \in Commands /\ m.kind = post[c].kind /\ m.user.session = c
  <2>1. t \in Tables
    BY <1>1, ConstantTypes DEF Tables, TypeOK
  <2>2. login[c] > 0
    BY DEF Inv, Purpose, Post, PostLast
  <2>3. post[c].kind \in Kinds /\ User(c) \in Users
    BY <1>1, <2>2, SessionTypes
  <2>. QED
    BY <2>1, <2>3 DEF Commands, User
<1>3. /\ Len(queue[t]) < QueueCap
      /\ queue' = [queue EXCEPT ![t] = Append(@, m)]
      /\ post' = [post EXCEPT ![c] = NoPost]
  BY DEF Posted, Post, PostLast
<1>4. /\ \A d \in Sessions : d # c => pc'[d] = pc[d] /\ post'[d] = post[d]
      /\ pc[c] \in {"posting", "leaving"} /\ pc'[c] # "leaving"
      /\ pc[c] = "leaving" => post[c].kind = "leave"
      /\ pc[c] = "posting" /\ post[c].kind = "sit" => pc'[c] = "sitting"
  BY <1>1, <1>3 DEF Post, PostLast, TypeOK, OneSit
<1>. HIDE DEF m, t
<1>5. /\ \A s \in Tables : s # t => queue'[s] = queue[s]
      /\ Len(queue'[t]) = n
      /\ \A i \in 1..Len(queue[t]) : queue'[t][i] = queue[t][i]
      /\ queue'[t][n] = m
  BY <1>1, <1>2, <1>3, Appended
<1>6. Len(queue[t]) \in Nat
  BY <1>1, <1>2, QueueTypes
<1>. HIDE DEF n
<1>7. n = Len(queue[t]) + 1 /\ n \in Nat
  BY <1>6 DEF n
<1>8. \A s \in Tables : \A i \in 1..Len(queue'[s]) :
        \/ i \in 1..Len(queue[s]) /\ queue'[s][i] = queue[s][i]
        \/ s = t /\ i = n /\ queue'[s][i] = m
  BY <1>5, <1>6, <1>7
\* No sit of c was queued while c was posting.
<1>9. \A s \in Tables : \A i \in 1..Len(queue[s]) : ~Asks(c, "sit", s, i)
  BY <1>4 DEF OneSit, SitsOnce
<1>. SUFFICES ASSUME NEW d \in Sessions PROVE OneSit(d)'
  OBVIOUS
<1>10. OneSit(d)
  OBVIOUS
<1>11. ASSUME NEW s \in Tables, NEW i \in 1..Len(queue'[s]), Asks(d, "sit", s, i)'
       PROVE  \/ i \in 1..Len(queue[s]) /\ Asks(d, "sit", s, i) /\ d # c
              \/ s = t /\ i = n /\ d = c /\ post[c].kind = "sit"
  BY <1>2, <1>8, <1>9, <1>11 DEF Asks
<1>12. SitsOnce(d)'
  <2>. SUFFICES ASSUME NEW s \in Tables, NEW i \in 1..Len(queue'[s]), Asks(d, "sit", s, i)'
       PROVE  /\ pc'[d] = "sitting"
              /\ \A r \in Tables : \A j \in 1..Len(queue'[r]) :
                   Asks(d, "sit", r, j)' => r = s /\ j = i
    BY DEF SitsOnce
  <2>1. CASE d = c
    <3>1. post[c].kind = "sit" /\ s = t /\ i = n
      BY <1>11, <2>1
    <3>. QED
      BY <1>4, <1>11, <2>1, <3>1
  <2>2. CASE d # c
    <3>1. i \in 1..Len(queue[s]) /\ Asks(d, "sit", s, i)
      BY <1>11, <2>2
    <3>2. pc[d] = "sitting"
      BY <1>10, <3>1 DEF OneSit, SitsOnce
    <3>. QED
      BY <1>4, <1>10, <1>11, <2>2, <3>1, <3>2 DEF OneSit, SitsOnce
  <2>. QED
    BY <2>1, <2>2
<1>13. pc'[d] = "leaving" => post'[d].kind = "leave"
  BY <1>4, <1>10 DEF OneSit
<1>. QED
  BY <1>12, <1>13 DEF OneSit

\* The sit that is answered was the client's only one.
LEMMA NoSitLeft ==
  ASSUME Inv, NEW t \in Tables, HandleSit(t),
         NEW c \in Sessions, c = Head(queue[t]).user.session, SitsOnce(c)
  PROVE  \A s \in Tables : \A i \in 1..Len(queue'[s]) : ~Asks(c, "sit", s, i)'
<1>1. TypeOK /\ queue[t] # <<>> /\ queue' = [queue EXCEPT ![t] = Tail(@)]
  BY DEF Inv, HandleSit, Heads
<1>2. /\ 1 \in 1..Len(queue[t]) /\ Head(queue[t]) = queue[t][1]
      /\ \A s \in Tables : s # t => queue'[s] = queue[s]
      /\ \A i \in 1..Len(queue'[t]) :
           i \in Nat /\ i + 1 \in 1..Len(queue[t]) /\ queue'[t][i] = queue[t][i + 1]
  BY <1>1, Moved
<1>3. Asks(c, "sit", t, 1)
  BY <1>2 DEF HandleSit, Heads, Asks
<1>. SUFFICES ASSUME NEW s \in Tables, NEW i \in 1..Len(queue'[s]), Asks(c, "sit", s, i)'
     PROVE  FALSE
  OBVIOUS
<1>4. CASE s # t
  BY <1>2, <1>3, <1>4 DEF SitsOnce, Asks
<1>5. CASE s = t
  <2>1. i \in Nat /\ i + 1 \in 1..Len(queue[t]) /\ Asks(c, "sit", t, i + 1)
    BY <1>2, <1>5 DEF Asks
  <2>2. i + 1 = 1
    BY <1>2, <1>3, <2>1 DEF SitsOnce
  <2>3. i >= 1
    BY <1>1, <1>5, <2>1
  <2>. QED
    BY <2>1, <2>2, <2>3
<1>. QED
  BY <1>4, <1>5
---------------------------------------------------------------------------
(* Polite clients.  What makes NoGhosts and OneChair inductive is the order of  *)
(* a session's commands: its leave reaches a table before its next sit does.    *)

Holds(c, t, k) == chairs[t][k].session = c

OncePerTable(c) ==
  \A t \in Tables : \A k, l \in ChairNumbers : Holds(c, t, k) /\ Holds(c, t, l) => k = l
LeavesOthers(c) ==
  \A t \in Tables : \A k \in ChairNumbers :
    Holds(c, t, k) /\ at[c] # t => \E i \in 1..Len(queue[t]) : Asks(c, "leave", t, i)
LeavesFirst(c) ==
  \A t \in Tables : \A i \in 1..Len(queue[t]) : \A k \in ChairNumbers :
    Asks(c, "sit", t, i) /\ Holds(c, t, k) => \E j \in 1..(i - 1) : Asks(c, "leave", t, j)
WantsChair(c) == pc[c] = "sitting" \/ (pc[c] = "posting" /\ post[c].kind = "sit")
WantsOne(c) ==
  WantsChair(c) => \A t \in Tables : \A k \in ChairNumbers : t = at[c] => ~Holds(c, t, k)
Parting(c) ==
  /\ pc[c] = "gone" => at[c] = NoTable
  /\ pc[c] = "leaving" => post[c].kind = "leave"
  /\ pc[c] \in {"posting", "leaving"} /\ post[c].kind = "leave" => post[c].table = at[c]
Behaved(c) ==
  /\ login[c] <= 1
  /\ OncePerTable(c) /\ LeavesOthers(c)
  /\ SitsOnce(c) /\ LeavesFirst(c)
  /\ WantsOne(c) /\ Parting(c)
Polite == \A c \in Sessions : Behaved(c)

LEMMA InitPolite == Init => Polite
<1>. SUFFICES ASSUME Init, NEW c \in Sessions PROVE Behaved(c)
  BY DEF Polite
<1>1. \A t \in Tables : Len(queue[t]) = 0 /\ \A k \in ChairNumbers : chairs[t][k] = Free
  BY EmptySeq DEF Init
<1>2. \A t \in Tables : \A k \in ChairNumbers : ~Holds(c, t, k)
  BY <1>1, ConstantTypes DEF Holds, Free
<1>3. login[c] <= 1 /\ pc[c] = "reading"
  BY DEF Init
<1>4. OncePerTable(c) /\ LeavesOthers(c) /\ LeavesFirst(c) /\ WantsOne(c)
  BY <1>2 DEF OncePerTable, LeavesOthers, LeavesFirst, WantsOne
<1>5. SitsOnce(c)
  BY <1>1 DEF SitsOnce
<1>6. Parting(c)
  BY <1>3 DEF Parting
<1>. QED
  BY <1>3, <1>4, <1>5, <1>6 DEF Behaved

\* A polite client has one user id, so that a session's commands and chairs are its user's.
LEMMA OneId ==
  ASSUME Inv, Polite
  PROVE  /\ \A t \in Tables : \A i \in 1..Len(queue[t]) :
              queue[t][i].user = User(queue[t][i].user.session)
         /\ \A t \in Tables : \A k \in ChairNumbers :
              chairs[t][k] # Free => chairs[t][k] = User(chairs[t][k].session)
<1>1. TypeOK
  BY DEF Inv
<1>2. ASSUME NEW u \in Users, u.login <= login[u.session]
      PROVE  u = User(u.session)
  <2>1. u.session \in Sessions /\ u.login \in Nat \ {0}
    BY DEF Users
  <2>2. login[u.session] <= 1 /\ login[u.session] \in Nat
    BY <1>1, <2>1, SessionTypes DEF Polite, Behaved
  <2>3. u.login = login[u.session]
    BY <1>2, <2>1, <2>2
  <2>. QED
    BY <2>3 DEF Users, User
<1>3. ASSUME NEW t \in Tables, NEW i \in 1..Len(queue[t])
      PROVE  queue[t][i].user = User(queue[t][i].user.session)
  BY <1>1, <1>2, CommandTypes DEF Inv, Known
<1>4. ASSUME NEW t \in Tables, NEW k \in ChairNumbers, chairs[t][k] # Free
      PROVE  chairs[t][k] = User(chairs[t][k].session)
  BY <1>1, <1>2, <1>4, ChairTypes DEF Inv, Known
<1>. QED
  BY <1>3, <1>4

\* What a reader does that posts nothing yet, and what others do that no reader sees.
LEMMA ReadersPolite ==
  ASSUME Inv, Polite, UNCHANGED <<chairs, queue, at>>,
         \A c \in Sessions : login'[c] <= 1,
         \A c \in Sessions : \/ pc'[c] = pc[c] /\ post'[c] = post[c]
                             \/ pc[c] # "sitting" /\ WantsOne(c)' /\ Parting(c)'
  PROVE  Polite'
<1>. SUFFICES ASSUME NEW c \in Sessions PROVE Behaved(c)'
  BY DEF Polite
<1>1. Behaved(c) /\ login'[c] <= 1
  BY DEF Polite
<1>2. OncePerTable(c)' /\ LeavesOthers(c)' /\ LeavesFirst(c)'
  BY <1>1 DEF Behaved, OncePerTable, LeavesOthers, LeavesFirst, Asks, Holds
<1>3. SitsOnce(c)'
  BY <1>1 DEF Behaved, SitsOnce, Asks
<1>4. WantsOne(c)' /\ Parting(c)'
  BY <1>1 DEF Behaved, WantsOne, WantsChair, Parting, Holds
<1>. QED
  BY <1>1, <1>2, <1>3, <1>4 DEF Behaved

LEMMA HeldIsUser ==
  ASSUME Inv, Polite, NEW c \in Sessions, NEW t \in Tables, NEW k \in ChairNumbers, Holds(c, t, k)
  PROVE  chairs[t][k] # Free /\ chairs[t][k] = User(c)
<1>1. chairs[t][k] # Free
  BY ConstantTypes DEF Holds, Free
<1>. QED
  BY <1>1, OneId DEF Holds

LEMMA PoliteReader ==
  ASSUME Inv, Polite, Options = {}, NEW c \in Sessions,
         \/ Login(c) \/ Stray(c) \/ Reply(c) \/ Lose(c) \/ WriterStep(c)
         \/ Sit(c) \/ Play(c) \/ Leave(c) \/ Disconnect(c)
  PROVE  Polite'
<1>1. TypeOK /\ pc \in [Sessions -> Places] /\ post \in [Sessions -> Posts]
  BY DEF Inv, TypeOK
<1>2. UNCHANGED <<chairs, queue, at>>
  BY DEF Login, Stray, Reply, Lose, WriterStep, Write, WriteFails, Sit, Play, Leave, Disconnect
<1>3. \A d \in Sessions : login'[d] <= 1
  <2>1. \A d \in Sessions : login[d] <= 1
    BY DEF Polite, Behaved
  <2>2. login' = login \/ (login[c] = 0 /\ login' = [login EXCEPT ![c] = @ + 1])
    BY DEF Login, Stray, Reply, Lose, WriterStep, Write, WriteFails, Sit, Play, Leave, Disconnect
  <2>3. login \in [Sessions -> 0..MaxLogins]
    BY <1>1 DEF TypeOK
  <2>. QED
    BY <2>1, <2>2, <2>3
<1>4. \A d \in Sessions : d # c => pc'[d] = pc[d] /\ post'[d] = post[d]
  <2>1. (\E place : pc' = [pc EXCEPT ![c] = place]) \/ pc' = pc
    BY DEF Login, Stray, Reply, Lose, WriterStep, Write, WriteFails, Sit, Play, Leave, Disconnect
  <2>2. (\E request : post' = [post EXCEPT ![c] = request]) \/ post' = post
    BY DEF Login, Stray, Reply, Lose, WriterStep, Write, WriteFails, Sit, Play, Leave, Disconnect
  <2>. QED
    BY <1>1, <2>1, <2>2
<1>5. \/ pc'[c] = pc[c] /\ post'[c] = post[c]
      \/ pc[c] # "sitting" /\ WantsOne(c)' /\ Parting(c)'
  <2>1. CASE Login(c) \/ Stray(c) \/ Reply(c)
    <3>1. pc[c] \in {"reading", "replying"} /\ pc'[c] \in {"reading", "replying"}
      BY <1>1, <2>1 DEF Login, Stray, Reply, Receives
    <3>. QED
      BY <3>1 DEF WantsOne, WantsChair, Parting
  <2>2. CASE Lose(c) \/ WriterStep(c)
    BY <2>2 DEF Lose, WriterStep, Write, WriteFails
  <2>3. CASE Sit(c)
    <3>1. pc[c] = "reading" /\ pc'[c] = "posting" /\ post'[c].kind = "sit" /\ ~HasItsChair(c)
      BY <1>1, <2>3 DEF Sit, Receives
    <3>2. \A t \in Tables : \A k \in ChairNumbers : t = at[c] => ~Holds(c, t, k)
      BY <3>1, HeldIsUser DEF HasItsChair, ChairsOf
    <3>. QED
      BY <1>2, <3>1, <3>2 DEF WantsOne, Parting, Holds
  <2>4. CASE Play(c) \/ Leave(c)
    <3>1. /\ pc[c] = "reading" /\ pc'[c] = "posting"
          /\ post'[c].kind # "sit" /\ post'[c].table = at[c]
      BY <1>1, <2>4 DEF Play, Leave, Receives
    <3>. QED
      BY <1>2, <3>1 DEF WantsOne, WantsChair, Parting
  <2>5. CASE Disconnect(c)
    <3>1. pc[c] = "reading" /\ pc' = [pc EXCEPT ![c] = LastWords(c)]
      BY <2>5 DEF Disconnect
    <3>2. pc'[c] = LastWords(c)
      BY <1>1, <3>1
    <3>3. CASE at[c] # NoTable
      <4>1. pc'[c] = "leaving" /\ post' = [post EXCEPT ![c] = [table |-> at[c], kind |-> "leave"]]
        BY <2>5, <3>2, <3>3 DEF LastWords, Disconnect
      <4>2. post'[c].table = at[c] /\ post'[c].kind = "leave"
        BY <1>1, <4>1
      <4>. QED
        BY <1>2, <3>1, <4>1, <4>2 DEF WantsOne, WantsChair, Parting
    <3>4. CASE at[c] = NoTable
      <4>1. pc'[c] = "gone"
        BY <3>2, <3>4 DEF LastWords
      <4>. QED
        BY <1>2, <3>1, <3>4, <4>1 DEF WantsOne, WantsChair, Parting, NoTable
    <3>. QED
      BY <3>3, <3>4
  <2>. QED
    BY <2>1, <2>2, <2>3, <2>4, <2>5
<1>. QED
  BY <1>2, <1>3, <1>4, <1>5, ReadersPolite

LEMMA PolitePost ==
  ASSUME Inv, Polite, NEW c \in Sessions, Post(c) \/ PostLast(c)
  PROVE  Polite'
<1>. DEFINE t == post[c].table
            m == [kind |-> post[c].kind, user |-> User(c)]
            n == Len(queue[t]) + 1
<1>1. TypeOK /\ t \in 1..made
  BY DEF Inv, Purpose, Post, PostLast
<1>2. t \in Tables /\ m \in Commands /\ m.kind = post[c].kind /\ m.user.session = c
  <2>1. t \in Tables
    BY <1>1, ConstantTypes DEF Tables, TypeOK
  <2>2. login[c] > 0
    BY DEF Inv, Purpose, Post, PostLast
  <2>3. post[c].kind \in Kinds /\ User(c) \in Users
    BY <1>1, <2>2, SessionTypes
  <2>. QED
    BY <2>1, <2>3 DEF Commands, User
<1>3. /\ Len(queue[t]) < QueueCap
      /\ queue' = [queue EXCEPT ![t] = Append(@, m)]
      /\ at' = IF post[c].kind = "leave" THEN [at EXCEPT ![c] = NoTable] ELSE at
      /\ post' = [post EXCEPT ![c] = NoPost]
      /\ UNCHANGED <<login, chairs>>
  BY DEF Posted, Post, PostLast
<1>4. /\ \A d \in Sessions : d # c => pc'[d] = pc[d]
      /\ pc[c] \in {"posting", "leaving"}
      /\ pc'[c] \in {"sitting", "reading", "gone"}
      /\ pc'[c] = "gone" <=> pc[c] = "leaving"
      /\ pc'[c] = "sitting" <=> (pc[c] = "posting" /\ post[c].kind = "sit")
  BY <1>1 DEF Post, PostLast, TypeOK
<1>. HIDE DEF m, t
<1>5. /\ \A s \in Tables : s # t => queue'[s] = queue[s]
      /\ Len(queue'[t]) = n
      /\ \A i \in 1..Len(queue[t]) : queue'[t][i] = queue[t][i]
      /\ queue'[t][n] = m
  BY <1>1, <1>2, <1>3, Appended
<1>6. Len(queue[t]) \in Nat
  BY <1>1, <1>2, QueueTypes
<1>. HIDE DEF n
<1>7. n = Len(queue[t]) + 1 /\ n \in Nat
  BY <1>6 DEF n
\* What is asked afterwards: all that was, and the new command at the end.
<1>8. \A s \in Tables : \A i \in 1..Len(queue'[s]) :
        \/ i \in 1..Len(queue[s]) /\ queue'[s][i] = queue[s][i]
        \/ s = t /\ i = n /\ queue'[s][i] = m
  BY <1>5, <1>6, <1>7
<1>9. \A s \in Tables : \A i \in 1..Len(queue[s]) :
        i \in 1..Len(queue'[s]) /\ queue'[s][i] = queue[s][i]
  BY <1>5, <1>6, <1>7
<1>10. \A d \in Sessions : d # c => at'[d] = at[d] /\ post'[d] = post[d]
  <2>1. at \in [Sessions -> TableOrNone] /\ post \in [Sessions -> Posts]
    BY <1>1 DEF TypeOK
  <2>. QED
    BY <1>3, <2>1
<1>. SUFFICES ASSUME NEW d \in Sessions PROVE Behaved(d)'
  BY DEF Polite
<1>11. Behaved(d)
  BY DEF Polite
<1>12. OncePerTable(d)'
  BY <1>3, <1>11 DEF Behaved, OncePerTable, Holds
<1>13. at'[c] = IF post[c].kind = "leave" THEN NoTable ELSE at[c]
  BY <1>1, <1>3 DEF TypeOK
<1>14. post[c].kind = "leave" => t = at[c]
  BY <1>4 DEF Polite, Behaved, Parting, t
<1>15. LeavesOthers(d)'
  <2>. SUFFICES ASSUME NEW s \in Tables, NEW k \in ChairNumbers, Holds(d, s, k), at'[d] # s
       PROVE  \E i \in 1..Len(queue'[s]) : Asks(d, "leave", s, i)'
    BY <1>3 DEF LeavesOthers, Holds
  <2>1. CASE at[d] # s
    <3>1. PICK i \in 1..Len(queue[s]) : Asks(d, "leave", s, i)
      BY <1>11, <2>1 DEF Behaved, LeavesOthers
    <3>. QED
      BY <1>9, <3>1 DEF Asks
  <2>2. CASE at[d] = s
    <3>1. d = c /\ post[c].kind = "leave" /\ t = s
      BY <1>10, <1>13, <1>14, <2>2
    <3>2. n \in 1..Len(queue'[s]) /\ queue'[s][n] = m
      BY <1>5, <1>6, <1>7, <3>1
    <3>. QED
      BY <1>2, <3>1, <3>2 DEF Asks
  <2>. QED
    BY <2>1, <2>2
\* No sit of c was queued while c was posting.
<1>16. \A s \in Tables : \A i \in 1..Len(queue[s]) : ~Asks(c, "sit", s, i)
  BY <1>4 DEF Polite, Behaved, SitsOnce
<1>17. ASSUME NEW s \in Tables, NEW i \in 1..Len(queue'[s]), Asks(d, "sit", s, i)'
       PROVE  \/ i \in 1..Len(queue[s]) /\ Asks(d, "sit", s, i) /\ d # c
              \/ s = t /\ i = n /\ d = c /\ post[c].kind = "sit"
  BY <1>2, <1>8, <1>16, <1>17 DEF Asks
<1>18. SitsOnce(d)'
  <2>1. \A e \in Sessions : OneSit(e)
    BY DEF Polite, Behaved, Parting, OneSit
  <2>. QED
    BY <2>1, SitsPosted DEF OneSit
<1>19. LeavesFirst(d)'
  <2>. SUFFICES ASSUME NEW s \in Tables, NEW i \in 1..Len(queue'[s]), NEW k \in ChairNumbers,
                       Asks(d, "sit", s, i)', Holds(d, s, k)
       PROVE  \E j \in 1..(i - 1) : Asks(d, "leave", s, j)'
    BY <1>3 DEF LeavesFirst, Holds
  <2>1. CASE d = c
    <3>1. post[c].kind = "sit" /\ s = t /\ i = n
      BY <1>17, <2>1
    <3>2. pc[c] = "posting"
      BY <1>4, <3>1 DEF Polite, Behaved, Parting
    <3>3. at[c] # s
      BY <2>1, <3>1, <3>2 DEF Polite, Behaved, WantsOne, WantsChair
    <3>4. PICK j \in 1..Len(queue[s]) : Asks(c, "leave", s, j)
      BY <2>1, <3>3 DEF Polite, Behaved, LeavesOthers
    <3>5. j \in 1..(i - 1) /\ Asks(c, "leave", s, j)'
      BY <1>6, <1>7, <1>9, <3>1, <3>4 DEF Asks
    <3>. QED
      BY <2>1, <3>5
  <2>2. CASE d # c
    <3>1. i \in 1..Len(queue[s]) /\ Asks(d, "sit", s, i)
      BY <1>17, <2>2
    <3>2. PICK j \in 1..(i - 1) : Asks(d, "leave", s, j)
      BY <1>11, <3>1 DEF Behaved, LeavesFirst
    <3>3. j \in 1..Len(queue[s])
      BY <1>1, <3>1, <3>2, QueueTypes
    <3>. QED
      BY <1>9, <3>2, <3>3 DEF Asks
  <2>. QED
    BY <2>1, <2>2
<1>20. WantsOne(d)'
  <2>1. CASE d = c
    <3>1. WantsChair(c)' => post[c].kind = "sit" /\ pc[c] = "posting"
      BY <1>4 DEF WantsChair
    <3>. QED
      BY <1>3, <1>11, <1>13, <2>1, <3>1 DEF Behaved, WantsOne, WantsChair, Holds
  <2>2. CASE d # c
    BY <1>3, <1>4, <1>10, <1>11, <2>2 DEF Behaved, WantsOne, WantsChair, Holds
  <2>. QED
    BY <2>1, <2>2
<1>21. Parting(d)'
  <2>1. CASE d = c
    <3>1. pc[c] = "leaving" => post[c].kind = "leave"
      BY DEF Polite, Behaved, Parting
    <3>. QED
      BY <1>4, <1>13, <2>1, <3>1 DEF Parting
  <2>2. CASE d # c
    BY <1>4, <1>10, <1>11, <2>2 DEF Behaved, Parting
  <2>. QED
    BY <2>1, <2>2
<1>22. login'[d] <= 1
  BY <1>3, <1>11 DEF Behaved
<1>. QED
  BY <1>12, <1>15, <1>18, <1>19, <1>20, <1>21, <1>22 DEF Behaved

\* For a session whose command is not the one taken, and which gets no chair.
LEMMA OthersPolite ==
  ASSUME Inv, NEW t \in Tables, queue[t] # <<>>,
         queue' = [queue EXCEPT ![t] = Tail(@)],
         NEW c \in Sessions, Behaved(c), ~Asks(c, "leave", t, 1),
         login'[c] = login[c], at'[c] = at[c], pc'[c] = pc[c], post'[c] = post[c],
         \A s \in Tables : \A k \in ChairNumbers : Holds(c, s, k)' => Holds(c, s, k)
  PROVE  Behaved(c)'
<1>1. /\ 1 \in 1..Len(queue[t])
      /\ \A s \in Tables : s # t => queue'[s] = queue[s]
      /\ \A i \in 1..Len(queue'[t]) :
           i \in Nat /\ i + 1 \in 1..Len(queue[t]) /\ queue'[t][i] = queue[t][i + 1]
      /\ \A i \in 1..Len(queue[t]) :
           i # 1 => i - 1 \in 1..Len(queue'[t]) /\ queue'[t][i - 1] = queue[t][i]
  BY Moved
<1>2. \A s \in Tables : Len(queue[s]) \in Nat
  BY QueueTypes DEF Inv
<1>3. OncePerTable(c)'
  BY DEF Behaved, OncePerTable
<1>4. LeavesOthers(c)'
  <2>. SUFFICES ASSUME NEW s \in Tables, NEW k \in ChairNumbers, Holds(c, s, k)', at'[c] # s
       PROVE  \E i \in 1..Len(queue'[s]) : Asks(c, "leave", s, i)'
    BY DEF LeavesOthers
  <2>1. PICK i \in 1..Len(queue[s]) : Asks(c, "leave", s, i)
    BY DEF Behaved, LeavesOthers
  <2>2. CASE s # t
    BY <1>1, <2>1, <2>2 DEF Asks
  <2>3. CASE s = t
    <3>1. i # 1
      BY <2>1, <2>3
    <3>2. i - 1 \in 1..Len(queue'[s]) /\ Asks(c, "leave", s, i - 1)'
      BY <1>1, <2>1, <2>3, <3>1 DEF Asks
    <3>. QED
      BY <3>2
  <2>. QED
    BY <2>2, <2>3
<1>5. SitsOnce(c)'
  BY SitsMoved DEF Behaved
<1>6. LeavesFirst(c)'
  <2>. SUFFICES ASSUME NEW s \in Tables, NEW i \in 1..Len(queue'[s]), NEW k \in ChairNumbers,
                       Asks(c, "sit", s, i)', Holds(c, s, k)'
       PROVE  \E j \in 1..(i - 1) : Asks(c, "leave", s, j)'
    BY DEF LeavesFirst
  <2>1. CASE s # t
    <3>1. i \in 1..Len(queue[s]) /\ Asks(c, "sit", s, i)
      BY <1>1, <2>1 DEF Asks
    <3>2. PICK j \in 1..(i - 1) : Asks(c, "leave", s, j)
      BY <3>1 DEF Behaved, LeavesFirst
    <3>. QED
      BY <1>1, <2>1, <3>2 DEF Asks
  <2>2. CASE s = t
    <3>0. i \in Nat /\ i + 1 \in 1..Len(queue[t]) /\ queue'[t][i] = queue[t][i + 1]
      BY <1>1, <2>2
    <3>1. i \in Nat /\ i + 1 \in 1..Len(queue[t]) /\ Asks(c, "sit", t, i + 1)
      BY <2>2, <3>0 DEF Asks
    <3>2. PICK j \in 1..((i + 1) - 1) : Asks(c, "leave", t, j)
      BY <2>2, <3>1 DEF Behaved, LeavesFirst
    <3>3. j # 1 /\ j \in 1..Len(queue[t])
      BY <1>2, <3>1, <3>2
    <3>4. j - 1 \in 1..(i - 1) /\ queue'[t][j - 1] = queue[t][j]
      <4>1. queue'[t][j - 1] = queue[t][j]
        BY <1>1, <3>3
      <4>2. j - 1 \in 1..(i - 1)
        BY <3>1, <3>2, <3>3
      <4>. QED
        BY <4>1, <4>2
    <3>5. Asks(c, "leave", t, j - 1)'
      BY <3>2, <3>4 DEF Asks
    <3>. QED
      BY <2>2, <3>4, <3>5
  <2>. QED
    BY <2>1, <2>2
<1>7. WantsOne(c)' /\ Parting(c)' /\ login'[c] <= 1
  BY DEF Behaved, WantsOne, WantsChair, Parting
<1>. QED
  BY <1>3, <1>4, <1>5, <1>6, <1>7 DEF Behaved

LEMMA PoliteLeave ==
  ASSUME Inv, Polite, NEW t \in Tables, HandleLeave(t) \/ HandlePlay(t)
  PROVE  Polite'
<1>. DEFINE u == Head(queue[t]).user
<1>1. TypeOK /\ queue[t] # <<>> /\ queue' = [queue EXCEPT ![t] = Tail(@)]
  BY DEF Inv, HandleLeave, HandlePlay, Heads
<1>2. 1 \in 1..Len(queue[t]) /\ Head(queue[t]) = queue[t][1]
  BY <1>1, Moved
<1>3. u.session \in Sessions /\ u = User(u.session) /\ u.login \in Nat \ {0}
  BY <1>1, <1>2, OneId, CommandTypes
<1>4. UNCHANGED <<pc, post, login, at>>
  BY DEF HandleLeave, HandlePlay
<1>5. \/ chairs' = chairs
      \/ chairs' = [chairs EXCEPT ![t][FirstOf(ChairsOf(t, u))] = Free]
  BY DEF HandleLeave, HandlePlay
<1>6. chairs \in [Tables -> [ChairNumbers -> Users \cup {Free}]]
  BY <1>1 DEF TypeOK
<1>. HIDE DEF u
<1>7. \A d \in Sessions : \A s \in Tables : \A k \in ChairNumbers :
        Holds(d, s, k)' => Holds(d, s, k)
  <2>1. \A s \in Tables : \A k \in ChairNumbers : chairs'[s][k] \in {chairs[s][k], Free}
    BY <1>5, <1>6
  <2>. QED
    BY <2>1, ConstantTypes DEF Holds, Free
<1>. SUFFICES ASSUME NEW d \in Sessions PROVE Behaved(d)'
  BY DEF Polite
<1>8. Behaved(d)
  BY DEF Polite
<1>9. CASE ~Asks(d, "leave", t, 1)
  BY <1>1, <1>4, <1>7, <1>8, <1>9, OthersPolite
<1>10. CASE Asks(d, "leave", t, 1)
  \* It was its only chair at this table, and it has none there any more.
  <2>1. d = u.session /\ u = User(d)
    BY <1>2, <1>3, <1>10 DEF Asks, u
  <2>2. ~HandlePlay(t)
    BY <1>2, <1>10 DEF HandlePlay, Heads, Asks
  <2>3. ChairsOf(t, u) = {} \/ chairs' = [chairs EXCEPT ![t][FirstOf(ChairsOf(t, u))] = Free]
    BY <2>2 DEF HandleLeave, u
  <2>4. ASSUME NEW k \in ChairNumbers, Holds(d, t, k)' PROVE FALSE
    <3>1. Holds(d, t, k)
      BY <1>7, <2>4
    <3>2. k \in ChairsOf(t, u)
      BY <2>1, <3>1, HeldIsUser DEF ChairsOf
    <3>3. \A l \in ChairsOf(t, u) : Holds(d, t, l)
      BY <2>1 DEF ChairsOf, Holds, User
    <3>4. ChairsOf(t, u) = {k}
      BY <1>8, <3>1, <3>2, <3>3 DEF Behaved, OncePerTable, ChairsOf
    <3>5. FirstOf(ChairsOf(t, u)) = k
      BY <3>4 DEF FirstOf
    <3>6. chairs'[t][k] = Free
      BY <1>6, <2>3, <3>2, <3>5
    <3>. QED
      BY <2>4, <3>6, ConstantTypes DEF Holds, Free
  <2>. DEFINE Elsewhere == \A s \in Tables : \A k \in ChairNumbers : Holds(d, s, k)' => s # t
  <2>5. Elsewhere
    BY <2>4
  <2>6. /\ \A s \in Tables : s # t => queue'[s] = queue[s]
        /\ \A i \in 1..Len(queue'[t]) :
             i \in Nat /\ i + 1 \in 1..Len(queue[t]) /\ queue'[t][i] = queue[t][i + 1]
    BY <1>1, Moved
  <2>7. OncePerTable(d)'
    BY <1>7, <1>8 DEF Behaved, OncePerTable
  <2>8. LeavesOthers(d)'
    BY <1>4, <1>7, <1>8, <2>5, <2>6 DEF Behaved, LeavesOthers, Asks
  <2>9. SitsOnce(d)'
    BY <1>1, <1>4, <1>8, SitsMoved DEF Behaved
  <2>10. LeavesFirst(d)'
    BY <1>7, <1>8, <2>5, <2>6 DEF Behaved, LeavesFirst, Asks
  <2>11. WantsOne(d)' /\ Parting(d)' /\ login'[d] <= 1
    BY <1>4, <1>7, <1>8 DEF Behaved, WantsOne, WantsChair, Parting
  <2>. QED
    BY <2>7, <2>8, <2>9, <2>10, <2>11 DEF Behaved
<1>. QED
  BY <1>9, <1>10

LEMMA PoliteSit == ASSUME Inv, Polite, NEW t \in Tables, HandleSit(t) PROVE Polite'
<1>. DEFINE u == Head(queue[t]).user
            c == u.session
            k0 == FirstOf(ChairNumbers \ SeatedAt(t))
<1>1. TypeOK /\ queue[t] # <<>> /\ queue' = [queue EXCEPT ![t] = Tail(@)]
  BY DEF Inv, HandleSit, Heads
<1>2. /\ 1 \in 1..Len(queue[t]) /\ Head(queue[t]) = queue[t][1]
      /\ \A s \in Tables : s # t => queue'[s] = queue[s]
      /\ \A i \in 1..Len(queue'[t]) :
           i \in Nat /\ i + 1 \in 1..Len(queue[t]) /\ queue'[t][i] = queue[t][i + 1]
      /\ \A i \in 1..Len(queue[t]) :
           i # 1 => i - 1 \in 1..Len(queue'[t]) /\ queue'[t][i - 1] = queue[t][i]
  BY <1>1, Moved
<1>3. c \in Sessions /\ u = User(c) /\ u \in Users
  BY <1>1, <1>2, OneId, CommandTypes
<1>4. Asks(c, "sit", t, 1)
  BY <1>2 DEF HandleSit, Heads, Asks
<1>5. /\ UNCHANGED <<post, login>>
      /\ \/ /\ pc' = [pc EXCEPT ![c] = "replying"]
            /\ UNCHANGED <<at, chairs>>
         \/ /\ chairs' = [chairs EXCEPT ![t][k0] = u]
            /\ at' = [at EXCEPT ![c] = t]
            /\ pc' = [pc EXCEPT ![c] = "reading"]
  BY DEF HandleSit
<1>6. /\ chairs \in [Tables -> [ChairNumbers -> Users \cup {Free}]]
      /\ pc \in [Sessions -> Places] /\ at \in [Sessions -> TableOrNone]
  BY <1>1 DEF TypeOK
<1>7. User(c).session = c
  BY DEF User
<1>. HIDE DEF u, c, k0
<1>8. pc'[c] \in {"replying", "reading"} /\ \A d \in Sessions : d # c => pc'[d] = pc[d] /\ at'[d] = at[d]
  BY <1>3, <1>5, <1>6
<1>9. \/ at' = at /\ chairs' = chairs
      \/ at'[c] = t /\ chairs' = [chairs EXCEPT ![t][k0] = u]
  BY <1>3, <1>5, <1>6
\* A chair afterwards is one that was, or the new one.
<1>10. \A d \in Sessions : \A s \in Tables : \A k \in ChairNumbers :
         Holds(d, s, k)' => \/ Holds(d, s, k)
                            \/ d = c /\ s = t /\ k = k0 /\ at'[c] = t
  <2>1. \A s \in Tables : \A k \in ChairNumbers :
          chairs'[s][k] = chairs[s][k] \/ (chairs'[s][k] = u /\ s = t /\ k = k0 /\ at'[c] = t)
    BY <1>6, <1>9
  <2>. QED
    BY <1>3, <1>7, <2>1 DEF Holds
<1>. SUFFICES ASSUME NEW d \in Sessions PROVE Behaved(d)'
  BY DEF Polite
<1>11. Behaved(d)
  BY DEF Polite
<1>12. CASE d # c
  <2>1. ~Asks(d, "leave", t, 1)
    BY <1>4, <1>12 DEF Asks
  <2>2. /\ login'[d] = login[d] /\ at'[d] = at[d] /\ pc'[d] = pc[d] /\ post'[d] = post[d]
        /\ \A s \in Tables : \A k \in ChairNumbers : Holds(d, s, k)' => Holds(d, s, k)
    BY <1>5, <1>8, <1>10, <1>12
  <2>. QED
    BY <1>1, <1>11, <2>1, <2>2, OthersPolite
<1>13. CASE d = c
  <2>1. pc[d] = "sitting"
    BY <1>2, <1>4, <1>11, <1>13 DEF Behaved, SitsOnce
  \* It has nothing at this table, and no chair at the table it is at.
  <2>2. \A k \in ChairNumbers : ~Holds(d, t, k)
    <3>1. \A k \in ChairNumbers : Holds(d, t, k) => \E j \in 1..(1 - 1) : Asks(d, "leave", t, j)
      BY <1>2, <1>4, <1>11, <1>13 DEF Behaved, LeavesFirst
    <3>. QED
      BY <3>1
  <2>3. \A s \in Tables : \A k \in ChairNumbers : Holds(d, s, k) => at[d] # s
    BY <1>11, <1>13, <2>1 DEF Behaved, WantsOne, WantsChair
  <2>4. OncePerTable(d)'
    BY <1>3, <1>10, <1>11, <1>13, <2>2 DEF Behaved, OncePerTable
  <2>5. LeavesOthers(d)'
    <3>. SUFFICES ASSUME NEW s \in Tables, NEW k \in ChairNumbers, Holds(d, s, k)', at'[d] # s
         PROVE  \E i \in 1..Len(queue'[s]) : Asks(d, "leave", s, i)'
      BY DEF LeavesOthers
    <3>1. Holds(d, s, k) /\ s # t
      BY <1>3, <1>10, <2>2
    <3>2. PICK i \in 1..Len(queue[s]) : Asks(d, "leave", s, i)
      BY <1>11, <1>13, <2>3, <3>1 DEF Behaved, LeavesOthers
    <3>. QED
      BY <1>2, <3>1, <3>2 DEF Asks
  <2>6. \A s \in Tables : \A i \in 1..Len(queue'[s]) : ~Asks(d, "sit", s, i)'
    BY <1>11, <1>13, NoSitLeft DEF Behaved, c, u
  <2>7. SitsOnce(d)' /\ LeavesFirst(d)'
    BY <2>6 DEF SitsOnce, LeavesFirst
  <2>8. WantsOne(d)' /\ Parting(d)'
    <3>1. pc'[d] \in {"replying", "reading"}
      BY <1>8, <1>13
    <3>. QED
      BY <3>1 DEF WantsOne, WantsChair, Parting
  <2>9. login'[d] <= 1
    BY <1>5, <1>11, <1>13 DEF Behaved
  <2>. QED
    BY <1>13, <2>4, <2>5, <2>7, <2>8, <2>9 DEF Behaved
<1>. QED
  BY <1>12, <1>13

LEMMA PoliteTable ==
  ASSUME Inv, Polite, NEW t \in Tables, TableStep(t)
  PROVE  Polite'
<1>1. UNCHANGED <<pc, post, login, at, queue>>
  BY DEF TableStep, Evict, Talk
<1>2. (\E k0 : chairs' = [chairs EXCEPT ![t][k0] = Free]) \/ chairs' = chairs
  BY DEF TableStep, Evict, Talk
<1>3. \A c \in Sessions : \A s \in Tables : \A k \in ChairNumbers :
        Holds(c, s, k)' => Holds(c, s, k)
  <2>1. chairs \in [Tables -> [ChairNumbers -> Users \cup {Free}]]
    BY DEF Inv, TypeOK
  <2>2. \A s \in Tables : \A k \in ChairNumbers : chairs'[s][k] \in {chairs[s][k], Free}
    BY <1>2, <2>1
  <2>. QED
    BY <2>2, ConstantTypes DEF Holds, Free
<1>. SUFFICES ASSUME NEW c \in Sessions PROVE Behaved(c)'
  BY DEF Polite
<1>4. Behaved(c)
  BY DEF Polite
<1>5. OncePerTable(c)' /\ LeavesOthers(c)' /\ LeavesFirst(c)'
  BY <1>1, <1>3, <1>4 DEF Behaved, OncePerTable, LeavesOthers, LeavesFirst, Asks
<1>6. SitsOnce(c)' /\ WantsOne(c)' /\ Parting(c)' /\ login'[c] <= 1
  BY <1>1, <1>3, <1>4 DEF Behaved, SitsOnce, WantsOne, WantsChair, Parting, Asks
<1>. QED
  BY <1>5, <1>6 DEF Behaved

LEMMA NextPolite == ASSUME Options = {} PROVE Inv /\ Polite /\ [Next]_lobby => Polite'
<1>. SUFFICES ASSUME Inv, Polite, [Next]_lobby PROVE Polite'
  OBVIOUS
<1>1. CASE UNCHANGED lobby
  <2>1. /\ UNCHANGED <<chairs, queue, at>> /\ login' = login
        /\ pc' = pc /\ post' = post
    BY <1>1 DEF lobby
  <2>2. \A c \in Sessions : login'[c] <= 1
    BY <2>1 DEF Polite, Behaved
  <2>. QED
    BY <2>1, <2>2, ReadersPolite
<1>2. ASSUME NEW c \in Sessions, ReaderStep(c) PROVE Polite'
  BY <1>2, PoliteReader, PolitePost DEF ReaderStep
<1>3. ASSUME NEW c \in Sessions, ClientStep(c) PROVE Polite'
  BY <1>3, PoliteReader DEF ClientStep
<1>4. ASSUME NEW c \in Sessions, WriterStep(c) PROVE Polite'
  BY <1>4, PoliteReader
<1>5. ASSUME NEW t \in Tables, ActorStep(t) PROVE Polite'
  BY <1>5, PoliteSit, PoliteLeave DEF ActorStep
<1>6. ASSUME NEW t \in Tables, TableStep(t) PROVE Polite'
  BY <1>6, PoliteTable
<1>. QED
  BY <1>1, <1>2, <1>3, <1>4, <1>5, <1>6 DEF Next

\* Where a polite client has a chair, its session is, or its leave is queued.
LEMMA Remembered ==
  ASSUME Inv, Polite, NEW t \in Tables, NEW k \in ChairNumbers, chairs[t][k] # Free
  PROVE  LET u == chairs[t][k]
         IN  /\ u.session \in Sessions /\ u = User(u.session) /\ Holds(u.session, t, k)
             /\ at[u.session] # t => LeaveQueued(t, u)
<1>. DEFINE u == chairs[t][k]
            c == u.session
<1>1. c \in Sessions /\ u = User(c) /\ Holds(c, t, k)
  BY ChairTypes, OneId DEF Inv, Holds
<1>2. ASSUME at[c] # t PROVE LeaveQueued(t, u)
  <2>1. PICK i \in 1..Len(queue[t]) : Asks(c, "leave", t, i)
    BY <1>1, <1>2 DEF Polite, Behaved, LeavesOthers
  <2>2. queue[t][i].kind = "leave" /\ queue[t][i].user = u
    BY <1>1, <2>1, OneId DEF Asks
  <2>3. queue[t][i] \in Commands /\ queue[t] \in Seq(Commands)
    BY CommandTypes, QueueTypes DEF Inv
  <2>4. queue[t][i] = [kind |-> "leave", user |-> u]
    BY <2>2, <2>3 DEF Commands
  <2>. QED
    BY <2>3, <2>4, LenProperties DEF LeaveQueued
<1>. QED
  BY <1>1, <1>2

\* When clients log in once and ask for a table only without one, every chair is left in
\* the end: its session knows it, or the leave is queued (handler.go:47-50, 183-189).
THEOREM NoGhostsIfPolite == ASSUME Options = {} PROVE Spec => []NoGhosts
<1>1. ASSUME Inv, Polite PROVE NoGhosts
  <2>. SUFFICES ASSUME NEW t \in Tables, NEW k \in ChairNumbers, chairs[t][k] # Free
       PROVE  LET u == chairs[t][k]
              IN  \/ at[u.session] = t /\ User(u.session) = u /\ pc[u.session] # "gone"
                  \/ LeaveComing(t, u)
    BY DEF NoGhosts
  <2>. DEFINE u == chairs[t][k]
  <2>1. /\ u.session \in Sessions /\ u = User(u.session)
        /\ at[u.session] # t => LeaveQueued(t, u)
    BY <1>1, Remembered
  <2>2. at[u.session] = t => pc[u.session] # "gone"
    BY <1>1, <2>1, ConstantTypes DEF Polite, Behaved, Parting
  <2>. QED
    BY <2>1, <2>2 DEF LeaveComing
<1>. QED
  BY <1>1, InitInv, NextInv, InitPolite, NextPolite, PTL DEF Spec

\* Such a client never has two chairs, apart from those it is leaving, however the
\* commands of sitting and leaving interleave (manager.go:35-48, table.go:171-205).
THEOREM OneChairIfPolite == ASSUME Options = {} PROVE Spec => []OneChair
<1>1. ASSUME Inv, Polite PROVE OneChair
  <2>. SUFFICES ASSUME NEW c \in Sessions
       PROVE  Cardinality({p \in Tables \X ChairNumbers :
                             /\ chairs[p[1]][p[2]].session = c
                             /\ ~LeaveComing(p[1], chairs[p[1]][p[2]])}) <= 1
    BY DEF OneChair
  <2>. DEFINE Kept == {p \in Tables \X ChairNumbers :
                         /\ chairs[p[1]][p[2]].session = c
                         /\ ~LeaveComing(p[1], chairs[p[1]][p[2]])}
  <2>1. \A p \in Kept : p[1] \in Tables /\ p[2] \in ChairNumbers /\ Holds(c, p[1], p[2]) /\ p[1] = at[c]
    <3>. TAKE p \in Kept
    <3>1. p[1] \in Tables /\ p[2] \in ChairNumbers /\ Holds(c, p[1], p[2])
      BY DEF Holds
    <3>2. chairs[p[1]][p[2]] # Free
      BY <1>1, <3>1, HeldIsUser
    <3>3. at[c] # p[1] => LeaveQueued(p[1], chairs[p[1]][p[2]])
      BY <1>1, <3>1, <3>2, Remembered DEF Holds
    <3>. QED
      BY <3>1, <3>3 DEF LeaveComing
  <2>2. \A p, q \in Kept : p = q
    <3>1. \A p, q \in Kept : p[1] = q[1] /\ p[2] = q[2]
      BY <1>1, <2>1 DEF Polite, Behaved, OncePerTable
    <3>2. \A p \in Kept : p = <<p[1], p[2]>>
      OBVIOUS
    <3>. HIDE DEF Kept
    <3>. QED
      BY <3>1, <3>2
  <2>. HIDE DEF Kept
  <2>3. Kept = {} \/ \E p : Kept = {p}
    BY <2>2
  <2>4. Cardinality(Kept) <= 1
    BY <2>3, FS_EmptySet, FS_Singleton
  <2>. QED
    BY <2>4 DEF Kept
<1>. QED
  BY <1>1, InitInv, NextInv, InitPolite, NextPolite, PTL DEF Spec
---------------------------------------------------------------------------
(* Who is refused.  While a client waits for a chair at a table where nobody    *)
(* has taken one since the manager chose it, the table has room by the counter, *)
(* and so by the chairs.                                                        *)

Promised == \A c \in Sessions : \A t \in Tables :
              WaitsAt(c, t) /\ ~overtaken[c] => count[t] < Chairs
InTurn == Promised /\ \A c \in Sessions : OneSit(c)

LEMMA WaitsFacts ==
  ASSUME TypeOK, NEW c \in Sessions, NEW t \in Tables
  PROVE  WaitsAt(c, t) <=>
           \/ pc[c] = "posting" /\ post[c] = [table |-> t, kind |-> "sit"]
           \/ pc[c] = "sitting" /\ \E i \in 1..Len(queue[t]) : Asks(c, "sit", t, i)
<1>1. DOMAIN queue[t] = 1..Len(queue[t])
  BY QueueTypes, LenProperties
<1>. QED
  BY <1>1 DEF WaitsAt, Asks

LEMMA InitInTurn == Init => InTurn
<1>. SUFFICES ASSUME Init PROVE InTurn
  OBVIOUS
<1>1. \A c \in Sessions : pc[c] = "reading"
  BY DEF Init
<1>2. \A t \in Tables : Len(queue[t]) = 0
  BY EmptySeq DEF Init
<1>3. Promised
  BY <1>1 DEF Promised, WaitsAt
<1>4. \A c \in Sessions : OneSit(c)
  BY <1>1, <1>2 DEF OneSit, SitsOnce
<1>. QED
  BY <1>3, <1>4 DEF InTurn

\* A step that leaves the queues alone, and sends nobody to a table.
LEMMA InTurnQuiet ==
  ASSUME Inv, Inv', InTurn, UNCHANGED <<queue, overtaken>>,
         \A t \in Tables : count'[t] <= count[t],
         \A c \in Sessions :
           \/ pc'[c] = pc[c] /\ post'[c] = post[c]
           \/ /\ pc[c] # "sitting" /\ pc'[c] # "sitting"
              /\ pc'[c] \in {"posting", "leaving"} => post'[c].kind # "sit"
              /\ pc'[c] = "leaving" => post'[c].kind = "leave"
  PROVE  InTurn'
<1>1. TypeOK /\ TypeOK' /\ \A t \in Tables : count[t] \in Nat /\ count'[t] \in Nat /\ Chairs \in Nat
  BY ConstantTypes DEF Inv, TypeOK
<1>2. ASSUME NEW c \in Sessions PROVE OneSit(c)'
  <2>1. OneSit(c)
    BY DEF InTurn
  <2>2. SitsOnce(c)'
    BY <2>1 DEF OneSit, SitsOnce, Asks
  <2>3. pc'[c] = "leaving" => post'[c].kind = "leave"
    BY <2>1 DEF OneSit
  <2>. QED
    BY <2>2, <2>3 DEF OneSit
<1>3. ASSUME NEW c \in Sessions, NEW t \in Tables, WaitsAt(c, t)'
      PROVE  WaitsAt(c, t)
  <2>1. pc'[c] = pc[c] /\ post'[c] = post[c]
    BY <1>3 DEF WaitsAt
  <2>. QED
    BY <1>3, <2>1 DEF WaitsAt
<1>4. Promised'
  <2>. SUFFICES ASSUME NEW c \in Sessions, NEW t \in Tables, WaitsAt(c, t)', ~overtaken[c]
       PROVE  count'[t] < Chairs
    BY DEF Promised
  <2>1. count[t] < Chairs
    BY <1>3 DEF InTurn, Promised
  <2>. QED
    BY <1>1, <2>1
<1>. QED
  BY <1>2, <1>4 DEF InTurn

\* The manager gives the client a table whose counter is below the number of chairs.
LEMMA InTurnSit == ASSUME Inv, Inv', InTurn, NEW c \in Sessions, Sit(c) PROVE InTurn'
<1>1. TypeOK /\ TypeOK'
  BY DEF Inv
<1>2. PICK b \in Stakes, t \in Tables :
        /\ FindOrCreate(b, t)
        /\ post' = [post EXCEPT ![c] = [table |-> t, kind |-> "sit"]]
  BY DEF Sit
<1>3. count[t] < Chairs
  BY <1>2, ManagerFacts
<1>4. /\ pc[c] = "reading" /\ pc' = [pc EXCEPT ![c] = "posting"]
      /\ UNCHANGED <<count, queue, overtaken>>
  BY DEF Sit, Receives
<1>5. /\ pc'[c] = "posting" /\ post'[c].table = t
      /\ \A d \in Sessions : d # c => pc'[d] = pc[d] /\ post'[d] = post[d]
  BY <1>1, <1>2, <1>4 DEF TypeOK
<1>6. ASSUME NEW d \in Sessions PROVE OneSit(d)'
  <2>1. OneSit(d)
    BY DEF InTurn
  <2>2. SitsOnce(d)'
    BY <1>4, <1>5, <2>1 DEF OneSit, SitsOnce, Asks
  <2>3. pc'[d] = "leaving" => post'[d].kind = "leave"
    BY <1>5, <2>1 DEF OneSit
  <2>. QED
    BY <2>2, <2>3 DEF OneSit
<1>7. Promised'
  <2>. SUFFICES ASSUME NEW d \in Sessions, NEW s \in Tables, WaitsAt(d, s)', ~overtaken[d]
       PROVE  count[s] < Chairs
    BY <1>4 DEF Promised
  <2>1. CASE d = c
    <3>1. post'[c].table = s
      BY <1>5, <2>1 DEF WaitsAt
    <3>. QED
      BY <1>3, <1>5, <3>1
  <2>2. CASE d # c
    <3>1. WaitsAt(d, s)
      BY <1>4, <1>5, <2>2 DEF WaitsAt
    <3>. QED
      BY <3>1 DEF InTurn, Promised
  <2>. QED
    BY <2>1, <2>2
<1>. QED
  BY <1>6, <1>7 DEF InTurn

LEMMA InTurnPost ==
  ASSUME Inv, Inv', InTurn, NEW c \in Sessions, Post(c) \/ PostLast(c)
  PROVE  InTurn'
<1>. DEFINE t == post[c].table
            m == [kind |-> post[c].kind, user |-> User(c)]
<1>1. TypeOK /\ TypeOK' /\ t \in 1..made
  BY DEF Inv, Purpose, Post, PostLast
<1>2. t \in Tables /\ m \in Commands /\ m.kind = post[c].kind /\ m.user.session = c
  <2>1. t \in Tables
    BY <1>1, ConstantTypes DEF Tables, TypeOK
  <2>2. login[c] > 0
    BY DEF Inv, Purpose, Post, PostLast
  <2>3. post[c].kind \in Kinds /\ User(c) \in Users
    BY <1>1, <2>2, SessionTypes
  <2>. QED
    BY <2>1, <2>3 DEF Commands, User
<1>3. /\ Len(queue[t]) < QueueCap
      /\ queue' = [queue EXCEPT ![t] = Append(@, m)]
      /\ post' = [post EXCEPT ![c] = NoPost]
      /\ UNCHANGED <<count, overtaken>>
  BY DEF Posted, Post, PostLast
<1>4. /\ \A d \in Sessions : d # c => pc'[d] = pc[d] /\ post'[d] = post[d]
      /\ pc'[c] # "posting"
      /\ pc'[c] = "sitting" => pc[c] = "posting" /\ post[c].kind = "sit"
  BY <1>1, <1>3 DEF Post, PostLast, TypeOK
<1>5. post[c] = [table |-> t, kind |-> post[c].kind]
  BY <1>1 DEF TypeOK, Posts
<1>. HIDE DEF m, t
<1>6. /\ \A s \in Tables : s # t => queue'[s] = queue[s]
      /\ Len(queue'[t]) = Len(queue[t]) + 1
      /\ \A i \in 1..Len(queue[t]) : queue'[t][i] = queue[t][i]
      /\ queue'[t][Len(queue[t]) + 1] = m
  BY <1>1, <1>2, <1>3, Appended
<1>7. Len(queue[t]) \in Nat
  BY <1>1, <1>2, QueueTypes
<1>8. \A s \in Tables : \A i \in 1..Len(queue'[s]) :
        \/ i \in 1..Len(queue[s]) /\ queue'[s][i] = queue[s][i]
        \/ s = t /\ queue'[s][i] = m
  BY <1>6, <1>7
<1>9. ASSUME NEW d \in Sessions, NEW s \in Tables, WaitsAt(d, s)' PROVE WaitsAt(d, s)
  <2>1. CASE pc'[d] = "posting"
    BY <1>4, <1>9, <2>1 DEF WaitsAt
  <2>2. CASE pc'[d] = "sitting"
    <3>1. PICK i \in 1..Len(queue'[s]) : Asks(d, "sit", s, i)'
      <4>1. DOMAIN queue'[s] = 1..Len(queue'[s])
        BY <1>1, LenProperties DEF TypeOK
      <4>. QED
        BY <1>9, <2>2, <4>1 DEF WaitsAt, Asks
    <3>2. CASE i \in 1..Len(queue[s]) /\ queue'[s][i] = queue[s][i]
      <4>1. Asks(d, "sit", s, i)
        BY <3>1, <3>2 DEF Asks
      <4>2. OneSit(d)
        BY DEF InTurn
      <4>3. pc[d] = "sitting"
        BY <3>2, <4>1, <4>2 DEF OneSit, SitsOnce
      <4>. QED
        BY <1>1, <3>2, <4>1, <4>3, WaitsFacts
    <3>3. CASE s = t /\ queue'[s][i] = m
      <4>1. d = c /\ post[c].kind = "sit"
        BY <1>2, <3>1, <3>3 DEF Asks
      <4>2. pc[c] = "posting" /\ post[c] = [table |-> t, kind |-> "sit"]
        BY <1>4, <1>5, <2>2, <4>1
      <4>. QED
        BY <3>3, <4>1, <4>2 DEF WaitsAt
    <3>. QED
      BY <1>8, <3>2, <3>3
  <2>. QED
    BY <1>9, <2>1, <2>2 DEF WaitsAt
<1>10. Promised'
  BY <1>3, <1>9 DEF InTurn, Promised
<1>11. \A d \in Sessions : OneSit(d)'
  BY SitsPosted DEF InTurn
<1>. QED
  BY <1>10, <1>11 DEF InTurn

\* A command is taken: who waits afterwards did before.
LEMMA WaitedBefore ==
  ASSUME Inv, Inv', InTurn, NEW t \in Tables, queue[t] # <<>>,
         queue' = [queue EXCEPT ![t] = Tail(@)], post' = post,
         NEW d \in Sessions, pc'[d] = pc[d], NEW s \in Tables, WaitsAt(d, s)'
  PROVE  WaitsAt(d, s)
<1>1. TypeOK /\ TypeOK'
  BY DEF Inv
<1>2. CASE pc'[d] = "posting"
  BY <1>2 DEF WaitsAt
<1>3. CASE pc'[d] = "sitting"
  <2>1. PICK i \in 1..Len(queue'[s]) : Asks(d, "sit", s, i)'
    <3>1. DOMAIN queue'[s] = 1..Len(queue'[s])
      BY <1>1, LenProperties DEF TypeOK
    <3>. QED
      BY <1>3, <3>1 DEF WaitsAt, Asks
  <2>2. \E j \in 1..Len(queue[s]) : Asks(d, "sit", s, j)
    <3>1. CASE s # t
      BY <2>1, <3>1, Moved DEF Asks
    <3>2. CASE s = t
      <4>1. i + 1 \in 1..Len(queue[t]) /\ queue'[t][i] = queue[t][i + 1]
        BY <2>1, <3>2, Moved
      <4>2. Asks(d, "sit", s, i + 1)
        BY <2>1, <3>2, <4>1 DEF Asks
      <4>. QED
        BY <3>2, <4>1, <4>2
    <3>. QED
      BY <3>1, <3>2
  <2>. QED
    BY <1>1, <1>3, <2>2, WaitsFacts
<1>. QED
  BY <1>2, <1>3 DEF WaitsAt

LEMMA InTurnHandle ==
  ASSUME Inv, Inv', InTurn, NEW t \in Tables, HandleLeave(t) \/ HandlePlay(t)
  PROVE  InTurn'
<1>1. TypeOK /\ queue[t] # <<>> /\ queue' = [queue EXCEPT ![t] = Tail(@)]
  BY DEF Inv, HandleLeave, HandlePlay, Heads
<1>2. UNCHANGED <<pc, post, overtaken>>
  BY DEF HandleLeave, HandlePlay
<1>3. \A s \in Tables : count[s] \in Nat /\ count'[s] \in Nat /\ Chairs \in Nat
  BY ConstantTypes DEF Inv, TypeOK
<1>4. \A s \in Tables : count'[s] <= count[s]
  <2>1. count \in [Tables -> 0..Chairs]
    BY <1>1 DEF TypeOK
  <2>2. \/ count' = count
        \/ count' = [count EXCEPT ![t] = count[t]]
        \/ count' = [count EXCEPT ![t] = count[t] - 1]
    BY DEF HandleLeave, HandlePlay, CountWithout
  <2>. QED
    BY <1>3, <2>1, <2>2
<1>5. Promised'
  <2>. SUFFICES ASSUME NEW c \in Sessions, NEW s \in Tables, WaitsAt(c, s)', ~overtaken[c]
       PROVE  count'[s] < Chairs
    BY <1>2 DEF Promised
  <2>1. WaitsAt(c, s)
    BY <1>1, <1>2, WaitedBefore
  <2>2. count[s] < Chairs
    BY <2>1 DEF InTurn, Promised
  <2>. QED
    BY <1>3, <1>4, <2>2
<1>6. ASSUME NEW c \in Sessions PROVE OneSit(c)'
  <2>1. OneSit(c)
    BY DEF InTurn
  <2>2. SitsOnce(c)'
    BY <1>1, <1>2, <2>1, SitsMoved DEF OneSit
  <2>. QED
    BY <1>2, <2>1, <2>2 DEF OneSit
<1>. QED
  BY <1>5, <1>6 DEF InTurn

\* Who takes a chair overtakes all who wait at that table.
LEMMA InTurnHandleSit ==
  ASSUME Inv, Inv', InTurn, NEW t \in Tables, HandleSit(t),
         NEW c \in Sessions, c = Head(queue[t]).user.session
  PROVE  InTurn'
<1>1. TypeOK /\ queue[t] # <<>> /\ queue' = [queue EXCEPT ![t] = Tail(@)]
  BY DEF Inv, HandleSit, Heads
<1>3. /\ post' = post
      /\ \E place \in {"replying", "reading"} : pc' = [pc EXCEPT ![c] = place]
      /\ \/ /\ count' = count
            /\ overtaken' = [overtaken EXCEPT ![c] = FALSE]
         \/ /\ count' = [count EXCEPT ![t] = @ + 1]
            /\ overtaken' = [d \in Sessions |-> d # c /\ (overtaken[d] \/ WaitsAt(d, t))]
  BY DEF HandleSit
<1>4. SitsOnce(c)
  BY DEF InTurn, OneSit
<1>5. \A s \in Tables : \A i \in 1..Len(queue'[s]) : ~Asks(c, "sit", s, i)'
  BY <1>4, NoSitLeft
<1>6. /\ pc'[c] \in {"replying", "reading"}
      /\ \A d \in Sessions : d # c => pc'[d] = pc[d]
  BY <1>1, <1>3 DEF TypeOK
<1>7. ASSUME NEW d \in Sessions PROVE OneSit(d)'
  <2>1. OneSit(d)
    BY DEF InTurn
  <2>2. CASE d = c
    BY <1>5, <1>6, <2>2 DEF OneSit, SitsOnce
  <2>3. CASE d # c
    <3>1. SitsOnce(d)'
      BY <1>1, <1>6, <2>1, <2>3, SitsMoved DEF OneSit
    <3>. QED
      BY <1>3, <1>6, <2>1, <2>3, <3>1 DEF OneSit
  <2>. QED
    BY <2>2, <2>3
<1>8. Promised'
  <2>. SUFFICES ASSUME NEW d \in Sessions, NEW s \in Tables, WaitsAt(d, s)', ~overtaken'[d]
       PROVE  count'[s] < Chairs
    BY DEF Promised
  <2>1. d # c
    BY <1>6 DEF WaitsAt
  <2>2. WaitsAt(d, s)
    BY <1>1, <1>3, <1>6, <2>1, WaitedBefore
  <2>3. overtaken \in [Sessions -> BOOLEAN] /\ count \in [Tables -> 0..Chairs]
    BY <1>1 DEF TypeOK
  <2>4. ~overtaken[d] /\ count'[s] = count[s]
    <3>1. CASE count' = count /\ overtaken' = [overtaken EXCEPT ![c] = FALSE]
      BY <2>1, <2>3, <3>1
    <3>2. CASE /\ count' = [count EXCEPT ![t] = @ + 1]
               /\ overtaken' = [e \in Sessions |-> e # c /\ (overtaken[e] \/ WaitsAt(e, t))]
      <4>1. ~(overtaken[d] \/ WaitsAt(d, t))
        BY <2>1, <3>2
      <4>2. s # t
        BY <2>2, <4>1
      <4>. QED
        BY <2>3, <3>2, <4>1, <4>2
    <3>. QED
      BY <1>3, <3>1, <3>2
  <2>. QED
    BY <2>2, <2>4 DEF InTurn, Promised
<1>. QED
  BY <1>7, <1>8 DEF InTurn

LEMMA NextInTurn == Inv /\ Inv' /\ InTurn /\ [Next]_lobby => InTurn'
<1>. SUFFICES ASSUME Inv, Inv', InTurn, [Next]_lobby PROVE InTurn'
  OBVIOUS
<1>1. TypeOK /\ \A t \in Tables : count[t] \in Nat
  BY ConstantTypes DEF Inv, TypeOK
<1>2. CASE UNCHANGED lobby
  BY <1>1, <1>2, InTurnQuiet DEF lobby
<1>3. ASSUME NEW c \in Sessions, Reply(c) \/ Disconnect(c) \/ WriterStep(c) PROVE InTurn'
  <2>1. UNCHANGED <<queue, overtaken, count>>
    BY <1>3 DEF Reply, Disconnect, WriterStep, Write, WriteFails
  <2>2. CASE Reply(c) \/ WriterStep(c)
    <3>1. \A d \in Sessions : \/ pc'[d] = pc[d] /\ post'[d] = post[d]
                              \/ pc[d] # "sitting" /\ pc'[d] = "reading"
      BY <1>1, <2>2 DEF Reply, WriterStep, Write, WriteFails, TypeOK
    <3>. QED
      BY <1>1, <2>1, <3>1, InTurnQuiet
  <2>3. CASE Disconnect(c)
    <3>1. \A d \in Sessions : \/ pc'[d] = pc[d] /\ post'[d] = post[d]
                              \/ /\ pc[d] = "reading" /\ pc'[d] \in {"leaving", "gone"}
                                 /\ pc'[d] = "leaving" => post'[d].kind = "leave"
      BY <1>1, <2>3 DEF Disconnect, LastWords, TypeOK
    <3>. QED
      BY <1>1, <2>1, <3>1, InTurnQuiet
  <2>. QED
    BY <1>3, <2>2, <2>3
<1>4. ASSUME NEW c \in Sessions, Login(c) \/ Stray(c) \/ Play(c) \/ Leave(c) \/ Lose(c) PROVE InTurn'
  <2>1. UNCHANGED <<queue, overtaken, count>>
    BY <1>4 DEF Login, Stray, Play, Leave, Lose
  <2>2. \A d \in Sessions : \/ pc'[d] = pc[d] /\ post'[d] = post[d]
                            \/ /\ pc[d] = "reading" /\ pc'[d] \in {"posting", "replying"}
                               /\ pc'[d] = "posting" => post'[d].kind # "sit"
    BY <1>1, <1>4 DEF Login, Stray, Play, Leave, Lose, Receives, TypeOK
  <2>. QED
    BY <1>1, <2>1, <2>2, InTurnQuiet
<1>5. ASSUME NEW c \in Sessions, Sit(c) PROVE InTurn'
  BY <1>5, InTurnSit
<1>6. ASSUME NEW c \in Sessions, Post(c) \/ PostLast(c) PROVE InTurn'
  BY <1>6, InTurnPost
<1>7. ASSUME NEW t \in Tables, ActorStep(t) PROVE InTurn'
  <2>1. CASE HandleSit(t)
    <3>1. Head(queue[t]).user.session \in Sessions
      BY <1>1, <2>1, Popped DEF HandleSit, Heads, Commands, Users
    <3>. QED
      BY <2>1, <3>1, InTurnHandleSit
  <2>. QED
    BY <1>7, <2>1, InTurnHandle DEF ActorStep
<1>8. ASSUME NEW t \in Tables, TableStep(t) PROVE InTurn'
  <2>1. UNCHANGED <<queue, overtaken, pc, post>>
    BY <1>8 DEF TableStep, Evict, Talk
  <2>2. count \in [Tables -> 0..Chairs] /\ Chairs \in Nat
    BY <1>1, ConstantTypes DEF TypeOK
  <2>3. count' = count \/ count' = [count EXCEPT ![t] = @ - 1]
    BY <1>8 DEF TableStep, Evict, Talk
  <2>4. \A s \in Tables : count'[s] <= count[s]
    BY <2>2, <2>3
  <2>. QED
    BY <2>1, <2>4, InTurnQuiet
<1>. QED
  BY <1>2, <1>3, <1>4, <1>5, <1>6, <1>7, <1>8 DEF Next, ReaderStep, ClientStep

\* A reader stops waiting without a chair only when the actor finds them all taken.
LEMMA RefusedWhenFull ==
  ASSUME Inv, InTurn, [Next]_lobby, NEW c \in Sessions, pc[c] = "sitting", pc'[c] = "replying"
  PROVE  overtaken[c]
<1>1. TypeOK
  BY DEF Inv
<1>2. PICK t \in Tables : HandleSit(t)
  <2>1. ~UNCHANGED lobby
    BY DEF lobby
  <2>2. ASSUME NEW d \in Sessions, ReaderStep(d) \/ ClientStep(d) \/ WriterStep(d) PROVE FALSE
    <3>1. pc[d] # "sitting" \/ pc' = pc
      BY <2>2 DEF ReaderStep, Reply, Post, Disconnect, PostLast, ClientStep, Login, Stray, Sit,
                  Play, Leave, Lose, Receives, WriterStep, Write, WriteFails
    <3>2. \A e \in Sessions : e # d => pc'[e] = pc[e]
      BY <1>1, <2>2 DEF TypeOK, ReaderStep, Reply, Post, Disconnect, PostLast, ClientStep, Login,
                  Stray, Sit, Play, Leave, Lose, Receives, WriterStep, Write, WriteFails
    <3>. QED
      BY <3>1, <3>2
  <2>3. ASSUME NEW t \in Tables, HandleLeave(t) \/ HandlePlay(t) \/ TableStep(t) PROVE FALSE
    BY <2>3 DEF HandleLeave, HandlePlay, TableStep, Evict, Talk
  <2>. QED
    BY <2>1, <2>2, <2>3 DEF Next, ActorStep
<1>. DEFINE d == Head(queue[t]).user.session
            seated == ChairNumbers \ SeatedAt(t)
<1>3. /\ queue[t] # <<>> /\ Head(queue[t]).kind = "sit"
      /\ \/ seated = {} /\ pc' = [pc EXCEPT ![d] = "replying"]
         \/ pc' = [pc EXCEPT ![d] = "reading"]
  BY <1>2 DEF HandleSit, Heads
<1>4. 1 \in 1..Len(queue[t]) /\ Head(queue[t]) = queue[t][1]
  <2>1. Len(queue[t]) \in Nat \ {0} /\ Head(queue[t]) = queue[t][1]
    BY <1>1, <1>3, QueueTypes, EmptySeq, HeadTailProperties
  <2>. QED
    BY <2>1
<1>5. c = d /\ seated = {}
  <2>1. pc \in [Sessions -> Places]
    BY <1>1 DEF TypeOK
  <2>. HIDE DEF d, seated
  <2>. QED
    BY <1>3, <2>1
<1>6. Asks(c, "sit", t, 1)
  BY <1>3, <1>4, <1>5 DEF Asks
<1>7. WaitsAt(c, t)
  BY <1>1, <1>4, <1>6, WaitsFacts
<1>8. count[t] = Chairs
  <2>1. SeatedAt(t) = 1..Chairs
    BY <1>5 DEF SeatedAt, ChairNumbers
  <2>2. Cardinality(1..Chairs) = Chairs
    BY ConstantTypes, FS_Interval
  <2>. QED
    BY <2>1, <2>2 DEF Inv, Counted
<1>. QED
  BY <1>7, <1>8, ConstantTypes DEF InTurn, Promised

\* Whatever clients do, who is refused a chair at the table the manager chose has been
\* overtaken there by another client since (manager.go:35-48, table.go:171-184, 285-306).
THEOREM RefusedOnlyByRivals == Spec => RefusedByRivals
<1>1. ASSUME Inv, InTurn, [Next]_lobby
      PROVE  [\A c \in Sessions : pc[c] = "sitting" /\ pc'[c] = "replying" => overtaken[c]]_lobby
  BY <1>1, RefusedWhenFull
<1>2. Inv /\ InTurn /\ [Next]_lobby => Inv' /\ InTurn'
  BY NextInv, NextInTurn
<1>. QED
  BY <1>1, <1>2, InitInv, InitInTurn, PTL DEF Spec, RefusedByRivals
===========================================================================
