------------------------ MODULE LobbyProperties ------------------------
(* What module Lobby is to satisfy.  All but the last hold for polite       *)
(* clients (Options = {}); the last is what a comment of the code says.     *)
EXTENDS Lobby

\* Every variable has its type; channels stay within their capacity (handler.go:37,
\* table.go:150).
TypeOK ==
  /\ conn \in [Sessions -> {"open", "lost"}]
  /\ pc \in [Sessions -> Places]
  /\ post \in [Sessions -> Posts]
  /\ login \in [Sessions -> 0..MaxLogins]
  /\ at \in [Sessions -> TableOrNone]
  /\ sent \in [Sessions -> 0..SendCap]
  /\ writer \in [Sessions -> {"up", "down"}]
  /\ made \in 0..MaxTables
  /\ stake \in [Tables -> Stakes]
  /\ chairs \in [Tables -> [ChairNumbers -> Users \cup {Free}]]
  /\ queue \in [Tables -> Seq(Commands)] /\ \A t \in Tables : Len(queue[t]) <= QueueCap
  /\ count \in [Tables -> 0..Chairs]
  /\ overtaken \in [Sessions -> BOOLEAN]

\* A leave of user u at table t is queued, or is what its session is posting.
LeaveQueued(t, u) == \E i \in DOMAIN queue[t] : queue[t][i] = [kind |-> "leave", user |-> u]
LeaveComing(t, u) ==
  LET c == u.session
  IN  \/ LeaveQueued(t, u)
      \/ /\ pc[c] \in {"posting", "leaving"} /\ User(c) = u
         /\ post[c] = [table |-> t, kind |-> "leave"]

\* Nobody's chair is forgotten: its user's session knows the table, under that user id,
\* and is there to leave it, or the leave is under way; so a disconnected client loses
\* its chair (handler.go:47-50, 183-189).
NoGhosts ==
  \A t \in Tables : \A k \in ChairNumbers :
    LET u == chairs[t][k]
    IN  u # Free => \/ at[u.session] = t /\ User(u.session) = u /\ pc[u.session] # "gone"
                    \/ LeaveComing(t, u)

\* A client has one chair, apart from those it is leaving: the count the manager picks
\* tables by does not grow with each table a client moves to.
OneChair ==
  \A c \in Sessions :
    Cardinality({p \in Tables \X ChairNumbers :
                   /\ chairs[p[1]][p[2]].session = c
                   /\ ~LeaveComing(p[1], chairs[p[1]][p[2]])}) <= 1

\* A client is refused a chair only when another client has taken one at that table since
\* the manager chose it.  The manager sees the counter, the actor the chairs: were the two
\* ever apart, or the counter read as room where there is none, a client would be sent to
\* a table that had been full all along (manager.go:35-48, table.go:171-184, 285-306).
RefusedByRivals ==
  [][ \A c \in Sessions : pc[c] = "sitting" /\ pc'[c] = "replying" => overtaken[c] ]_lobby

\* Nobody waits for ever: a reader that is posting or sitting goes on, whatever other
\* clients and their sockets do, for the actor waits for nobody (table.go:246-250,
\* 413-420), and a client whose socket is lost has no chair in the end.
Waiting(c) == \/ pc[c] \in {"posting", "sitting", "leaving"}
              \/ conn[c] = "lost" /\ HasChair(c)
NobodyWaits == \A c \in Sessions : []<>~Waiting(c)
---------------------------------------------------------------------------
\* handler.go:47: "On disconnect, remove from any table we were seated on."
RemovedFromAnyTable ==
  \A c \in Sessions :
    pc[c] = "gone" =>
      \A t \in Tables : queue[t] = <<>> => \A k \in ChairNumbers : chairs[t][k].session # c
=========================================================================
