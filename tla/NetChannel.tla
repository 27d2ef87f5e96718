---------------------------- MODULE NetChannel ----------------------------
(***************************************************************************)
(* One channel on a network of servers (src/src/channel.c, src/src/s_misc.c*)
(* and src/src/m_server.c): every server keeps its own copy, changes it for*)
(* its own clients at once, and tells the others over FIFO links.  Links   *)
(* are lost and made again; a new link starts with both sides sending the  *)
(* whole channel as a SJOIN.                                               *)
(*                                                                         *)
(* A copy is a record: ts (channelts), mem (members), ops (members with    *)
(* CHFL_CHANOP) and mode.  A copy without members does not exist.          *)
(* Admission (can_join) is Channel.tla's subject; here every join enters.  *)
(***************************************************************************)
EXTENDS Integers, FiniteSets, Sequences, SjoinMerge

CONSTANTS
  Nodes,       \* the servers
  Users,
  home,        \* home[u]: the server u is connected to
  hop,         \* hop[s][t]: the neighbour of s on the way to t
  Edges,       \* the links of the network, a tree: sets {s, t}
  Commands,    \* the commands clients give, of "JOIN", "PART", "KICK",
               \* "OP" (MODE +o, -o) and "FLAG" (MODE with a flag)
  MaxTime,     \* bound: the clock
  MaxCommands, \* bound: commands given
  MaxSplits    \* bound: links lost

\* The links form a tree: over each of them lies one of its two ends' way to a server, and
\* every way, hop after hop, leads to its server.
ASSUME NetAssumption ==
  /\ home \in [Users -> Nodes] /\ hop \in [Nodes -> [Nodes -> Nodes]]
  /\ Edges \subseteq {{s, t} : s, t \in Nodes} /\ \A s \in Nodes : {s} \notin Edges
  /\ \A s \in Nodes : hop[s][s] = s
  /\ \A s, h \in Nodes : s # h => {s, hop[s][h]} \in Edges
  /\ \A s, t, h \in Nodes : {s, t} \in Edges => (hop[s][h] = t <=> hop[t][h] # s)
  /\ \A h \in Nodes, S \in SUBSET Nodes :
       S # {} /\ (\A s \in S \ {h} : hop[s][h] \in S) => h \in S
  /\ {MaxTime, MaxCommands, MaxSplits} \subseteq Nat

VARIABLES
  ch,          \* ch[s]: the copy of server s
  link,        \* link[<<s, t>>]: messages from s to t
  up,          \* links that are up
  now,         \* timeofday, the same everywhere
  given,       \* commands given so far
  splits,      \* links lost so far
  crossed,     \* history: a command was given at a server while a message
               \* was on its way to it; between two servers a split ends it
  kicked       \* history: there was a KICK

vars == <<ch, link, up, now, given, splits, crossed, kicked>>

Free == [ts |-> 0, mem |-> {}, ops |-> {}, mode |-> NoMode]

Exists(c) == c.mem # {}

Peers(s) == {t \in Nodes \ {s} : {s, t} \in up}

\* acptr->from: the neighbour of s through which u is reached.
from(s, u) == hop[s][home[u]]

Behind(s, t) == {u \in Users : home[u] # s /\ from(s, u) = t}

\* sendto_serv_butone: to every link of s but the one to t (t = s: to all).
butone(s, t, m) ==
  [e \in DOMAIN link |-> IF e[1] = s /\ e[2] \in Peers(s) \ {t}
                         THEN Append(link[e], m) ELSE link[e]]

----------------------------------------------------------------------------
(* Messages.                                                               *)

\* `bare': the mode string is "0", no modes are told.
SJOIN(c, who, ops, mode) ==
  [type |-> "SJOIN", ts |-> c.ts, who |-> who, ops |-> ops, mode |-> mode, bare |-> FALSE]
BareSJOIN(c, who, ops) == [SJOIN(c, who, ops, NoMode) EXCEPT !.bare = TRUE]
CliSJOIN(u, t)        == [type |-> "CliSJOIN", by |-> u, ts |-> t]
PART(u)               == [type |-> "PART", by |-> u]
KICK(u, v)            == [type |-> "KICK", by |-> u, who |-> v]
MODE(u, t, plus, x)   == [type |-> "MODE", by |-> u, ts |-> t, plus |-> plus, what |-> x]
RESYNCH               == [type |-> "RESYNCH"]
SQUIT(U)              == [type |-> "SQUIT", lost |-> U]

\* send_channel_modes: the whole copy.
burst(c) == IF Exists(c) THEN <<SJOIN(c, c.mem, c.ops, c.mode)>> ELSE <<>>

----------------------------------------------------------------------------
(* Changes of a copy.                                                      *)

remove_users(c, U) ==
  IF c.mem \subseteq U THEN Free
  ELSE [c EXCEPT !.mem = @ \ U, !.ops = @ \ U]

\* set_mode for one letter: an operator status or a flag.
set_mode(c, plus, x) ==
  IF x \in Users
  THEN [c EXCEPT !.ops = IF plus THEN @ \cup ({x} \cap c.mem) ELSE @ \ {x}]
  ELSE [c EXCEPT !.mode.flags = IF plus THEN @ \cup {x} ELSE @ \ {x}]

\* m_sjoin, client form: the lower timestamp is taken, nothing else.
client_sjoin(c, u, newts) ==
  [c EXCEPT !.ts = IF Exists(c) THEN sjoin_ts(c.ts, newts) ELSE newts,
            !.mem = @ \cup {u}]

\* Mutant: an older timestamp does not strip our operators.
server_sjoin_keep_ops(c, m, who) ==
  LET isnew == ~ Exists(c)
      newer == ~ isnew /\ wins(c.ts, m.ts)
  IN IF isnew /\ who = {} THEN Free
     ELSE [ts   |-> IF isnew THEN m.ts ELSE sjoin_ts(c.ts, m.ts),
           mem  |-> c.mem \cup who,
           ops  |-> c.ops \cup (IF newer THEN {} ELSE (m.ops \cap who) \ c.mem),
           mode |-> IF isnew THEN m.mode
                    ELSE sjoin_mode(c.ts, c.mode, m.ts, m.mode)]

\* m_sjoin, server form.  `who' are the nicks that come from the sender's
\* side; a nick that is a member already keeps its status.
server_sjoin(c, m, who) ==
  LET isnew == ~ Exists(c)
      older == ~ isnew /\ wins(m.ts, c.ts)   \* keepourmodes = 0
      newer == ~ isnew /\ wins(c.ts, m.ts)   \* keepnewmodes = 0
      kept  == IF older THEN {} ELSE c.ops
  IN IF isnew /\ who = {} THEN Free
     ELSE [ts   |-> IF isnew THEN m.ts ELSE sjoin_ts(c.ts, m.ts),
           mem  |-> c.mem \cup who,
           ops  |-> kept \cup (IF newer THEN {} ELSE (m.ops \cap who) \ c.mem),
           mode |-> IF isnew THEN m.mode
                    ELSE sjoin_mode(c.ts, c.mode, m.ts, m.mode)]

\* What m_sjoin passes on: the nicks, without status if our timestamp was
\* older, and the merged modes unless ours won or none were told.
sjoin_relay(c, m, who, c2) ==
  LET newer == Exists(c) /\ wins(c.ts, m.ts)
      ops == IF newer THEN {} ELSE m.ops \cap who
  IN IF newer \/ m.bare THEN BareSJOIN(c2, who, ops) ELSE SJOIN(c2, who, ops, c2.mode)

----------------------------------------------------------------------------
(* Clients.                                                                *)

Inbound(s) == {t \in Nodes : link[<<t, s>>] # <<>>}

\* A client of s gives a command; it crosses every message on its way to s.
give(s, kind) == /\ kind \in Commands /\ given < MaxCommands
                 /\ given' = given + 1
                 /\ crossed' = (crossed \/ Inbound(s) # {})
                 /\ kicked' = (kicked \/ kind = "KICK")
                 /\ UNCHANGED <<up, now, splits>>

m_join(u) ==
  LET s == home[u]
      c == ch[s]
      new == [ts |-> now, mem |-> {u}, ops |-> {u}, mode |-> NoMode]
  IN /\ give(s, "JOIN") /\ u \notin c.mem
     /\ IF Exists(c)
        THEN /\ ch' = [ch EXCEPT ![s].mem = @ \cup {u}]
             /\ link' = butone(s, s, CliSJOIN(u, c.ts))
        ELSE /\ ch' = [ch EXCEPT ![s] = new]
             /\ link' = butone(s, s, SJOIN(new, {u}, {u}, NoMode))

m_part(u) ==
  LET s == home[u]
  IN /\ give(s, "PART") /\ u \in ch[s].mem
     /\ ch' = [ch EXCEPT ![s] = remove_users(@, {u})]
     /\ link' = butone(s, s, PART(u))

m_kick(u, v) ==
  LET s == home[u]
  IN /\ give(s, "KICK") /\ u \in ch[s].ops /\ v \in ch[s].mem
     /\ ch' = [ch EXCEPT ![s] = remove_users(@, {v})]
     /\ link' = butone(s, s, KICK(u, v))

m_mode(u, plus, x) ==
  LET s == home[u]
  IN /\ give(s, IF x \in Users THEN "OP" ELSE "FLAG")
     /\ u \in ch[s].ops /\ x \in ch[s].mem \cup Letters
     /\ ch' = [ch EXCEPT ![s] = set_mode(@, plus, x)]
     /\ link' = butone(s, s, MODE(u, ch[s].ts, plus, x))

----------------------------------------------------------------------------
(* Servers.                                                                *)

\* s takes the next message from t and handles it: its copy, the message it
\* passes on to its other links (none: <<>>), its answer to t (none: <<>>).
Handle(s, t, c2, relay, answer) ==
  /\ ch' = [ch EXCEPT ![s] = c2]
  /\ link' = [e \in DOMAIN link |->
                IF e = <<t, s>> THEN Tail(link[e])
                ELSE IF e = <<s, t>> THEN link[e] \o answer
                ELSE IF e[1] = s /\ e[2] \in Peers(s) THEN link[e] \o relay
                ELSE link[e]]
  /\ UNCHANGED <<up, now, given, splits, crossed, kicked>>

Incoming(s, t, type) == /\ link[<<t, s>>] # <<>>
                        /\ Head(link[<<t, s>>]).type = type

\* Mutant: the SJOIN is not passed on.
receive_sjoin_no_relay(s, t) ==
  LET m == Head(link[<<t, s>>])
  IN /\ Incoming(s, t, "SJOIN")
     /\ Handle(s, t, server_sjoin(ch[s], m, m.who \cap Behind(s, t)), <<>>, <<>>)

receive_sjoin(s, t) ==
  LET m == Head(link[<<t, s>>])
      who == m.who \cap Behind(s, t)
      nw == server_sjoin(ch[s], m, who)
  IN /\ Incoming(s, t, "SJOIN")
     /\ Handle(s, t, nw, IF who = {} THEN <<>> ELSE <<sjoin_relay(ch[s], m, who, nw)>>, <<>>)

receive_client_sjoin(s, t) ==
  LET m == Head(link[<<t, s>>])
      nw == client_sjoin(ch[s], m.by, m.ts)
  IN /\ Incoming(s, t, "CliSJOIN")
     /\ Handle(s, t, nw, <<CliSJOIN(m.by, nw.ts)>>,
               IF Exists(ch[s]) THEN <<>> ELSE <<RESYNCH>>)

\* Mutant: the PART is not passed on.
receive_part_no_relay(s, t) ==
  LET m == Head(link[<<t, s>>])
  IN /\ Incoming(s, t, "PART")
     /\ Handle(s, t, remove_users(ch[s], {m.by}), <<>>, <<>>)

receive_part(s, t) ==
  LET m == Head(link[<<t, s>>])
  IN /\ Incoming(s, t, "PART")
     /\ IF m.by \in ch[s].mem
        THEN Handle(s, t, remove_users(ch[s], {m.by}), <<m>>, <<>>)
        ELSE Handle(s, t, ch[s], <<>>, <<>>)

\* A remote kicker need not be an operator here.
receive_kick(s, t) ==
  LET m == Head(link[<<t, s>>])
  IN /\ Incoming(s, t, "KICK")
     /\ IF m.who \in ch[s].mem
        THEN Handle(s, t, remove_users(ch[s], {m.who}), <<m>>, <<>>)
        ELSE Handle(s, t, ch[s], <<>>, <<>>)

\* A mode with a newer timestamp than ours, or by somebody who is no
\* operator here, is dropped.
receive_mode(s, t) ==
  LET m == Head(link[<<t, s>>])
      c == ch[s]
  IN /\ Incoming(s, t, "MODE")
     /\ IF /\ Exists(c) /\ m.ts <= c.ts /\ m.by \in c.ops
           /\ m.what \in c.mem \cup Letters
        THEN Handle(s, t, set_mode(c, m.plus, m.what),
                    <<MODE(m.by, c.ts, m.plus, m.what)>>, <<>>)
        ELSE Handle(s, t, c, <<>>, <<>>)

\* Mutant: a server that has no copy asks for one in turn.
m_resynch_back(s, t) ==
  /\ Incoming(s, t, "RESYNCH")
  /\ Handle(s, t, ch[s], <<>>, IF Exists(ch[s]) THEN burst(ch[s]) ELSE <<RESYNCH>>)

m_resynch(s, t) ==
  /\ Incoming(s, t, "RESYNCH")
  /\ Handle(s, t, ch[s], <<>>, burst(ch[s]))

receive_squit(s, t) ==
  LET m == Head(link[<<t, s>>])
  IN /\ Incoming(s, t, "SQUIT")
     /\ Handle(s, t, remove_users(ch[s], m.lost), <<m>>, <<>>)

\* A link is lost: what was on it is gone, each side removes the clients
\* behind it and tells its other links.
exit_server(s, t) ==
  /\ splits < MaxSplits /\ {s, t} \in up
  /\ up' = up \ {{s, t}}
  /\ ch' = [ch EXCEPT ![s] = remove_users(@, Behind(s, t)),
                      ![t] = remove_users(@, Behind(t, s))]
  /\ link' = [e \in DOMAIN link |->
                IF e \in {<<s, t>>, <<t, s>>} THEN <<>>
                ELSE IF e[1] = s /\ e[2] \in Peers(s) THEN Append(link[e], SQUIT(Behind(s, t)))
                ELSE IF e[1] = t /\ e[2] \in Peers(t) THEN Append(link[e], SQUIT(Behind(t, s)))
                ELSE link[e]]
  /\ splits' = splits + 1
  /\ crossed' = (crossed /\ Cardinality(Nodes) # 2)
  /\ UNCHANGED <<now, given, kicked>>

\* m_server_estab: both sides send their copy.
m_server_estab(s, t) ==
  /\ {s, t} \in Edges \ up
  /\ up' = up \cup {{s, t}}
  /\ link' = [link EXCEPT ![<<s, t>>] = burst(ch[s]), ![<<t, s>>] = burst(ch[t])]
  /\ UNCHANGED <<ch, now, given, splits, crossed, kicked>>

tick == /\ now < MaxTime
        /\ now' = now + 1
        /\ UNCHANGED <<ch, link, up, given, splits, crossed, kicked>>

----------------------------------------------------------------------------
Init ==
  /\ ch = [s \in Nodes |-> Free]
  /\ link = [e \in {<<s, t>> : s, t \in Nodes} |-> <<>>]
  /\ up = Edges
  /\ now = 1 /\ given = 0 /\ splits = 0
  /\ crossed = FALSE /\ kicked = FALSE

ClientStep == \E u \in Users : \/ m_join(u) \/ m_part(u)
                               \/ \E v \in Users : m_kick(u, v)
                               \/ \E plus \in BOOLEAN, x \in Users \cup Letters : m_mode(u, plus, x)

receive(s, t) == \/ receive_sjoin(s, t) \/ receive_client_sjoin(s, t)
                 \/ receive_part(s, t) \/ receive_kick(s, t) \/ receive_mode(s, t)
                 \/ m_resynch(s, t) \/ receive_squit(s, t)

Next == \/ ClientStep \/ tick
        \/ \E s, t \in Nodes : receive(s, t)
        \/ \E s, t \in Nodes : exit_server(s, t) \/ m_server_estab(s, t)

Spec == Init /\ [][Next]_vars

----------------------------------------------------------------------------
\* Nothing is under way.
Settled == \A e \in DOMAIN link : link[e] = <<>>
Quiescent == up = Edges /\ Settled

\* A copy without members is the free one, an operator is a member and every
\* timestamp is a time that has been.
CopyOK ==
  \A s \in Nodes :
    /\ ch[s].mem \subseteq Users /\ ch[s].ops \subseteq ch[s].mem
    /\ ch[s].mode \in Modes /\ ch[s].ts \in 0..now
    /\ ch[s].mem = {} => ch[s] = Free

\* Whatever crosses on the links, a client that its own server has on the
\* channel is on it for every server once all messages are handled: nobody
\* talks on a channel on which part of the network does not see him.  (The
\* converse fails: a KICK that crosses a PART and a new JOIN leaves a member
\* behind, as the comment in m_kick says.)
MembersKnown ==
  Quiescent => \A s \in Nodes, u \in Users :
                 u \in ch[home[u]].mem => u \in ch[s].mem

\* Without KICK the servers agree on who is on the channel, through joins
\* and parts that cross, freed and re-created copies and splits.
MembersAgree ==
  Quiescent /\ ~ kicked => \A s, t \in Nodes : ch[s].mem = ch[t].mem

\* Both: nobody is on a channel unseen, and without KICK all see the same.
MembersRight == MembersKnown /\ MembersAgree

\* Commands that cross a message are the only source of disagreement: if
\* none has, the copies are the same in every respect once all messages are
\* handled.  Between two servers a split starts afresh, so the burst that
\* follows it repairs whatever was wrong before.
Converges ==
  /\ CopyOK
  /\ Quiescent /\ ~ crossed => \A s, t \in Nodes : ch[s] = ch[t]

\* "whichever TS is smaller wins" (channel.c:4731): servers that have the
\* channel have it with the same timestamp once all messages are handled.
SmallerTSWins ==
  Quiescent => \A s, t \in Nodes :
                 Exists(ch[s]) /\ Exists(ch[t]) => ch[s].ts = ch[t].ts

\* Handling messages comes to an end: no exchange of SJOIN and RESYNCH keeps
\* itself going.
Settles == []<>Settled

\* The event loop keeps reading from every link.
FairSpec == Spec /\ \A s, t \in Nodes : WF_vars(receive(s, t))
============================================================================
