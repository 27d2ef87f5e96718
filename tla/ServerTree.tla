----------------------------- MODULE ServerTree -----------------------------
(***************************************************************************)
(* The tree of servers (m_server.c, m_squit of s_serv.c, exit_client and   *)
(* exit_one_server of s_misc.c, the prefix check of parse.c).  Each server *)
(* lists the servers it knows, with the link they are behind and their     *)
(* uplink, and is told of changes by SERVER and SQUIT.  There is no other  *)
(* protection against cycles than that a server which hears of a server it *)
(* has drops one of the two links.                                         *)
(*                                                                         *)
(* All servers are NOQUIT and UNCONNECT capable, as this one is.  The key  *)
(* exchange of a link (m_dkey) is one message each way.                    *)
(***************************************************************************)
EXTENDS Naturals, Sequences, FiniteSets, SequencesExt

CONSTANTS
  Nodes,        \* the servers
  Hubs,         \* those with FLAGS_HUB, whose connect blocks have CONN_HUB
  Routes,       \* pairs <<s, t>>: s has a connect block for t
  Negotiate,    \* pairs of servers whose connect blocks have CONN_DKEY: they exchange keys
  MaxConns,     \* how many connections are ever made
  MaxTroubles,  \* how many links time out or are squitted by operators
  MaxMade,      \* the last second in which a connection is made
  MaxAccepted,  \* the last second in which one is accepted
  NoServer      \* no server

ASSUME ServerTreeAssumption ==
  /\ IsFiniteSet(Nodes) /\ NoServer \notin Nodes
  /\ Hubs \subseteq Nodes /\ Routes \subseteq Nodes \X Nodes
  /\ Negotiate \subseteq SUBSET Nodes
  /\ {MaxConns, MaxTroubles, MaxMade, MaxAccepted} \subseteq Nat

VARIABLES
  net,          \* [conn, tab]: the connections, and each server's list
  done          \* troubles so far
treeVars == <<net, done>>

\* A connection is [a, b, first, st, q]: a connected to b; for either end, first
\* is its firsttime, st its state and q what it has not read yet.  An entry
\* of a list is [name, via, up]: a server, the connection in its `from', and
\* its uplink.
EndsOf(n, i)   == {n.conn[i].a, n.conn[i].b}
Peer(n, i, s)  == IF n.conn[i].a = s THEN n.conn[i].b ELSE n.conn[i].a
Open(n, i, s)  == s \in EndsOf(n, i) /\ n.conn[i].st[s] # "closed"
\* server_list of s.
Links(n, s)    == {i \in DOMAIN n.conn : s \in EndsOf(n, i) /\ n.conn[i].st[s] = "server"}
Has(n, s, t)   == \E k \in DOMAIN n.tab[s] : n.tab[s][k].name = t
\* find_name: the entry of t.
Find(n, s, t)  == n.tab[s][CHOOSE k \in DOMAIN n.tab[s] : n.tab[s][k].name = t]
Known(t, i, u) == [name |-> t, via |-> i, up |-> u]

HELLO == [type |-> "HELLO"]
DKEY == [type |-> "DKEY"]
Server(u, t) == [type |-> "SERVER", by |-> u, oper |-> FALSE, name |-> t]
\* A SQUIT by the link itself (no prefix), by a server, or by an operator on it.
Squit(u, t)     == [type |-> "SQUIT", by |-> u, oper |-> FALSE, name |-> t]
OperSquit(u, t) == [type |-> "SQUIT", by |-> u, oper |-> TRUE, name |-> t]

----------------------------------------------------------------------------
\* sendto_one to the other end of i, unless that has closed.
sendto_one(n, s, i, m) ==
  IF Open(n, i, s) /\ Open(n, i, Peer(n, i, s))
  THEN [n EXCEPT !.conn[i].q[Peer(n, i, s)] = Append(@, m)] ELSE n

\* sendto_one to every link of s but those of `but'.
sendto_links(n, s, but, m) ==
  FoldSet(LAMBDA i, w : sendto_one(w, s, i, m), n, Links(n, s) \ but)

\* exit_one_server, with the servers behind it: the list is in the order in
\* which servers became known, so an uplink comes first.
behind(list, r) ==
  FoldLeft(LAMBDA gone, e : IF e.up \in gone THEN gone \cup {e.name} ELSE gone, {r}, list)
exit_one_server(n, s, r, but) ==
  LET gone == behind(n.tab[s], r)
  IN sendto_links([n EXCEPT !.tab[s] = SelectSeq(@, LAMBDA e : e.name \notin gone)],
                  s, but, Squit(NoServer, r))

\* exit_client of a link: its end is closed, unread data is lost; if it was a
\* server's, the others are told and what is behind it goes.  A link that was
\* never in the list (the final phase of do_server_estab) takes nothing with
\* it, but the others are told all the same.
exit_link(n, s, i, but) ==
  LET shut   == [n EXCEPT !.conn[i].st[s] = "closed", !.conn[i].q[s] = <<>>]
      p      == Peer(n, i, s)
      listed == Has(n, s, p) /\ Find(n, s, p).via = i
  IN IF n.conn[i].st[s] # "server" THEN shut
     ELSE IF listed THEN exit_one_server(shut, s, p, but)
     ELSE sendto_links(shut, s, but, Squit(NoServer, p))

\* "KILL the youngest of the two links": i, which brings t, or the one t is
\* behind.
youngest(n, s, i, t) ==
  LET j == Find(n, s, t).via
  IN IF n.conn[i].first[s] > n.conn[j].first[s] THEN i ELSE j

\* Mutant: only the end that connected sends its servers.
server_burst_caller(n, s, i) ==
  LET told == SelectSeq(n.tab[s], LAMBDA e : e.via # i /\ n.conn[i].a = s)
  IN [k \in DOMAIN told |-> Server(told[k].up, told[k].name)]

\* The servers of s that the new link i is told of: those not behind it.
server_burst(n, s, i) ==
  LET told == SelectSeq(n.tab[s], LAMBDA e : e.via # i)
  IN [k \in DOMAIN told |-> Server(told[k].up, told[k].name)]

\* do_server_estab.
do_server_estab(n, s, i) ==
  LET p    == Peer(n, i, s)
      up   == [n EXCEPT !.conn[i].st[s] = "server"]
      old  == Has(up, s, p)
      kill == youngest(up, s, i, p)
      now  == IF old THEN exit_link(up, s, kill, {kill}) ELSE up
      told == sendto_links(now, s, {i}, Server(s, p))
  IN IF old /\ kill = i THEN now
     ELSE FoldLeft(LAMBDA w, m : sendto_one(w, s, i, m),
                   [told EXCEPT !.tab[s] = Append(@, Known(p, i, s))],
                   server_burst(now, s, i))

\* m_server_estab: SERVER on a new connection.
server_estab(n, s, i) ==
  LET p     == Peer(n, i, s)
      reply == IF n.conn[i].st[s] = "unknown" THEN sendto_one(n, s, i, HELLO) ELSE n
  IN IF Has(n, s, p) \/ (s \notin Hubs /\ Links(n, s) # {}) THEN exit_link(n, s, i, {i})
     ELSE IF {s, p} \in Negotiate
     THEN sendto_one([reply EXCEPT !.conn[i].st[s] = "nego"], s, i, DKEY)
     ELSE do_server_estab(reply, s, i)

\* m_server on a connection that is no server's yet.
m_server_new(n, s, i) ==
  IF n.conn[i].st[s] \in {"unknown", "handshake"} THEN server_estab(n, s, i) ELSE n

\* m_server: SERVER on an established link.
m_server(n, s, i, by, t) ==
  LET old  == t = s \/ Has(n, s, t)
      kill == IF t = s THEN i ELSE youngest(n, s, i, t)
      now  == IF old THEN exit_link(n, s, kill, {kill}) ELSE n
  IN IF old /\ kill = i THEN now
     ELSE IF Peer(n, i, s) \notin Hubs THEN exit_link(now, s, i, {i})
     ELSE sendto_links([now EXCEPT !.tab[s] = Append(@, Known(t, i, by))],
                       s, {i}, Server(by, t))

\* m_squit, for a sender behind link i: of the link itself, of a link of ours,
\* of a server behind the sender's link ("upstream"), or passed on towards the
\* server ("downstream").
m_squit(n, s, i, m) ==
  LET sptr == IF m.by = NoServer THEN Peer(n, i, s) ELSE m.by
      j    == IF m.name = s THEN i ELSE Find(n, s, m.name).via
  IN IF m.name # s /\ ~ Has(n, s, m.name) THEN n
     ELSE IF m.name = s \/ Peer(n, j, s) = m.name THEN exit_link(n, s, j, {})
     ELSE IF i = j THEN exit_one_server(n, s, m.name, {i})
     ELSE sendto_one(n, s, j, [m EXCEPT !.by = sptr])

\* parse: a prefix that is unknown is answered (remove_unknown), one from the
\* wrong direction is ignored (cancel_clients).
parse(n, s, i, m) ==
  IF m.by = NoServer \/ (Has(n, s, m.by) /\ Find(n, s, m.by).via = i)
  THEN IF m.type = "SERVER" THEN m_server(n, s, i, m.by, m.name) ELSE m_squit(n, s, i, m)
  ELSE IF m.by = s \/ Has(n, s, m.by) \/ m.oper THEN n
  ELSE sendto_one(n, s, i, Squit(s, m.by))

----------------------------------------------------------------------------
TreeInit ==
  /\ net = [conn |-> <<>>, tab |-> [s \in Nodes |-> <<>>]]
  /\ done = 0

\* Who is connected to: by the timer, or for an operator, whose CONNECT does
\* not ask whether this server is a hub.
try_connections(s, t) == ~ Has(net, s, t) /\ (s \in Hubs \/ Links(net, s) = {})
m_connect(s, t) == ~ Has(net, s, t)

\* connect_server and completed_connection: s connects and sends its SERVER.  Each end notes
\* the second by its own clock; the other end's may accept connections in
\* another order than they are made.
connect_server(s, t, made, accepted) ==
  /\ <<s, t>> \in Routes /\ Len(net.conn) < MaxConns
  /\ try_connections(s, t) \/ m_connect(s, t)
  /\ \A i \in DOMAIN net.conn : net.conn[i].a = s => net.conn[i].first[s] <= made
  /\ net' = [net EXCEPT !.conn = Append(@,
       [a |-> s, b |-> t,
        first |-> [e \in {s, t} |-> IF e = s THEN made ELSE accepted],
        st |-> [e \in {s, t} |-> IF e = s THEN "handshake" ELSE "unknown"],
        q  |-> [e \in {s, t} |-> IF e = s THEN <<>> ELSE <<HELLO>>]])]
  /\ UNCHANGED done

\* There is something to read on s's end of connection i.
readable(s, i) == i \in DOMAIN net.conn /\ Open(net, i, s) /\ net.conn[i].q[s] # <<>>

\* read_packet and parse: s handles the next message of connection i.
read_packet(s, i) ==
  /\ readable(s, i)
  /\ LET m == Head(net.conn[i].q[s])
         n == [net EXCEPT !.conn[i].q[s] = Tail(@)]
     IN net' = CASE m.type = "HELLO" -> m_server_new(n, s, i)
                 [] m.type = "DKEY"  -> do_server_estab(n, s, i)
                 [] OTHER            -> parse(n, s, i, m)
  /\ UNCHANGED done

\* Mutant: only an established link that has gone is noticed.
broken_server(s, i) == /\ i \in DOMAIN net.conn /\ Open(net, i, s)
                       /\ net.conn[i].st[s] = "server" /\ ~ Open(net, i, Peer(net, i, s))

\* read_packet finds that the other end has closed.
broken(s, i) == i \in DOMAIN net.conn /\ Open(net, i, s) /\ ~ Open(net, i, Peer(net, i, s))

\* read_error_exit; what the other end sent last may be lost.
read_error_exit(s, i) ==
  /\ broken(s, i) /\ net' = exit_link(net, s, i, {i})
  /\ UNCHANGED done

\* check_pings, or an error of the socket: s gives up connection i.
ping_timeout(s, i) ==
  /\ i \in DOMAIN net.conn /\ Open(net, i, s) /\ done < MaxTroubles
  /\ net' = exit_link(net, s, i, {i})
  /\ done' = done + 1

\* An operator on s sends SQUIT for a server.
oper_squit(s, t) ==
  /\ done < MaxTroubles /\ Has(net, s, t)
  /\ LET j == Find(net, s, t).via
     IN net' = IF Peer(net, j, s) = t THEN exit_link(net, s, j, {})
               ELSE sendto_one(net, s, j, OperSquit(s, t))
  /\ done' = done + 1

Delivery == \E s \in Nodes, i \in 1..MaxConns : read_packet(s, i) \/ read_error_exit(s, i)

TreeNext ==
  \/ \E s, t \in Nodes :
       \/ oper_squit(s, t)
       \/ \E made \in 0..MaxMade, accepted \in 0..MaxAccepted :
            connect_server(s, t, made, accepted)
  \/ \E s \in Nodes, i \in 1..MaxConns : ping_timeout(s, i)
  \/ Delivery

\* The event loop reads what there is to read: weak fairness of Delivery, with
\* the condition under which it is enabled written out, and its steps told
\* from the others by what those change.
Deliverable == \E s \in Nodes, i \in 1..MaxConns : readable(s, i) \/ broken(s, i)
Delivered == UNCHANGED done /\ Len(net'.conn) = Len(net.conn)
TreeFairness == []<>(~ Deliverable) \/ []<><<Delivered>>_treeVars

TreeSpec == TreeInit /\ [][TreeNext]_treeVars /\ TreeFairness

----------------------------------------------------------------------------
(* Properties.                                                             *)

\* Nothing is under way.
Calm == \A i \in DOMAIN net.conn :
          /\ \A s \in EndsOf(net, i) : net.conn[i].q[s] = <<>>
          /\ \A s, t \in EndsOf(net, i) : Open(net, i, s) = Open(net, i, t)

\* The links that are up.
Up == {i \in DOMAIN net.conn : \A e \in EndsOf(net, i) : net.conn[i].st[e] = "server"}
Linked(s, t) == \E i \in Up : EndsOf(net, i) = {s, t}
Component(s) ==
  LET near[k \in 0..Cardinality(Nodes)] ==
        IF k = 0 THEN {s} ELSE near[k - 1] \cup {t \in Nodes : \E u \in near[k - 1] : Linked(t, u)}
  IN near[Cardinality(Nodes)]

\* When nothing is under way every server knows exactly the servers it is
\* connected with, each once, behind a link that is up and under the uplink
\* that has it, and the links form a tree: whatever links came up at the same
\* time, closed a cycle, were lost or were squitted while messages crossed.
TreeAgrees ==
  Calm => \A s \in Nodes :
    /\ {net.tab[s][k].name : k \in DOMAIN net.tab[s]} = Component(s) \ {s}
    /\ Len(net.tab[s]) = Cardinality(Component(s)) - 1
    /\ Cardinality({i \in Up : EndsOf(net, i) \subseteq Component(s)})
         = Cardinality(Component(s)) - 1
    /\ \A k \in DOMAIN net.tab[s] :
         LET e == net.tab[s][k]
         IN /\ net.conn[e.via].st[s] = "server" /\ Linked(e.up, e.name)
            /\ IF e.up = s THEN Peer(net, e.via, s) = e.name
               ELSE Has(net, s, e.up) /\ Find(net, s, e.up).via = e.via

\* SERVERs, SQUITs and the closing of links that they cause come to an end.
TreeCalms == []<>Calm
=============================================================================
