------------------------------- MODULE SignOn -------------------------------
(***************************************************************************)
(* From accept to registration, and the clocks that end a connection:      *)
(* add_connection, close_connection and readwrite_client of s_bsd.c,       *)
(* start_auth, send_authports and read_authports of s_auth.c,              *)
(* check_client_fd of fds.c, check_pings of ircd.c, m_pass, m_user,        *)
(* do_user and register_user of s_user.c and the first NICK of m_nick.c.   *)
(* Nothing is read from a connection until its DNS and ident lookups are   *)
(* over, and check_pings gives them up when they last too long.            *)
(*                                                                         *)
(* Times are ages: how long ago something happened.  Whether the checks of *)
(* register_user (access, password, user name, clones, bans, hooks) let a  *)
(* client in is arbitrary; the lookup itself is module Resolver, lines     *)
(* that have to wait, and their price, are module RecvQueue.               *)
(***************************************************************************)
EXTENDS Common

CONSTANTS
  Comers,          \* the structures of connections
  ConnectTimeout,  \* CONNECTTIMEOUT
  UnknownTime,     \* how long a connection may stay unknown: 100 seconds
  PingFreq,        \* the class's pingfreq
  CheckEvery       \* how often check_pings runs: every 9 seconds

ASSUME SignOnAssumption ==
  /\ Comers \subseteq Clients /\ IsFiniteSet(Comers)    \* MAXCONNECTIONS
  /\ {ConnectTimeout, UnknownTime, PingFreq, CheckEvery} \subseteq Nat \ {0}
  /\ ConnectTimeout + CheckEvery < UnknownTime

VARIABLES
  sock,        \* sock[c]: the connection that has structure c, or None
  count,       \* Count.unknown and Count.local
  nextping     \* seconds until check_pings runs

signVars == <<sock, count, nextping>>

\* auth is FLAGS_AUTH with authfd open, wrauth FLAGS_WRAUTH; reads is
\* FDF_WANTREAD of its socket; first, since and last are the ages of
\* firsttime, since and lasttime, heard that of its last data and pinged that
\* of the PING that FLAGS_PINGSENT is about.
NewConn == [st |-> "unknown", dns |-> FALSE, auth |-> FALSE, wrauth |-> FALSE,
            reads |-> FALSE, dead |-> FALSE, nick |-> FALSE, user |-> FALSE,
            first |-> 0, since |-> 0, last |-> 0, heard |-> 0, pinged |-> None]

\* How far ages are told apart.
AgeCap == UnknownTime + 2 * (PingFreq + CheckEvery) + 1
older(n) == IF n < AgeCap THEN n + 1 ELSE n
Live == {c \in Comers : sock[c] # None}

Ages == 0 .. AgeCap
Conns == [st : {"unknown", "person"}, dns : BOOLEAN, auth : BOOLEAN, wrauth : BOOLEAN,
          reads : BOOLEAN, dead : BOOLEAN, nick : BOOLEAN, user : BOOLEAN,
          first : Ages, since : Ages, last : Ages, heard : Ages, pinged : Ages \cup {None}]

\* A null pointer is no connection and no time.
ASSUME NoneAssumption == None \notin Conns /\ None \notin Nat

----------------------------------------------------------------------------
(* Connections come and go.                                                *)

check_client_fd(x) == IF x.auth \/ x.dns THEN x ELSE [x EXCEPT !.reads = TRUE]

\* add_connection: the name may be in the resolver's cache, and the ident
\* lookup may not start.  (One that is banned by its address goes at once.)
add_connection(c, dns, auth) ==
  /\ sock[c] = None
  /\ sock' = [sock EXCEPT ![c] = check_client_fd([NewConn EXCEPT !.dns = dns, !.auth = auth,
                                                                 !.wrauth = auth])]
  /\ count' = [count EXCEPT !.unknown = @ + 1]
  /\ UNCHANGED nextping

\* exit_client, close_connection and remove_client_from_list for the clients of
\* set cs, whose state is f[c] when they go: what they leave of the counters.
without(n, f, cs) ==
  LET Of(st) == Cardinality({c \in cs : f[c].st = st})
  IN [unknown |-> n.unknown - Of("unknown"), local |-> n.local - Of("person")]
exit_sock(c) == /\ sock' = [sock EXCEPT ![c] = None]
                /\ count' = without(count, sock, {c})

\* The other end closes, or a write fails: the socket is marked, and
\* readwrite_client or check_pings ends it.
hang_up(c) == sock[c] # None /\ sock[c].reads /\ exit_sock(c) /\ UNCHANGED nextping
dead_sock(c) == /\ sock[c] # None /\ ~ sock[c].dead
                /\ sock' = [sock EXCEPT ![c].dead = TRUE]
                /\ UNCHANGED <<count, nextping>>

----------------------------------------------------------------------------
(* The lookups.                                                            *)

change(c, x) == sock' = [sock EXCEPT ![c] = x] /\ UNCHANGED <<count, nextping>>

\* do_dns_async, or timeout_query_list, for a client that waits.
dns_done(c) == sock[c] # None /\ sock[c].dns
               /\ change(c, check_client_fd([sock[c] EXCEPT !.dns = FALSE]))

\* The ident connection can be written to: send_authports, which may fail.
send_authports(c, sent) ==
  /\ sock[c] # None /\ sock[c].auth /\ sock[c].wrauth
  /\ change(c, check_client_fd([sock[c] EXCEPT !.wrauth = FALSE, !.auth = sent]))

\* The answer, or the end of the connection: read_authports.
read_authports(c) ==
  /\ sock[c] # None /\ sock[c].auth
  /\ change(c, check_client_fd([sock[c] EXCEPT !.auth = FALSE]))

----------------------------------------------------------------------------
(* Registration.                                                           *)

\* read_packet: every read counts as a sign of life.
heard(x) == [x EXCEPT !.last = 0, !.since = 0, !.heard = 0, !.pinged = None]

\* register_user refuses the client (access, password, user name, clones, bans, a
\* hook): nothing has been counted yet.
refused(c) == exit_sock(c)

\* It lets the client in; a hook may still end the client after that.
register_sock(c, x) ==
  \/ /\ sock' = [sock EXCEPT ![c] = [x EXCEPT !.st = "person"]]
     /\ count' = [unknown |-> count.unknown - 1, local |-> count.local + 1]
  \/ refused(c)

\* The first NICK (one that may be used) and the USER of a connection, in
\* either order; the one that comes last registers.
m_nick_sock(c) ==
  /\ sock[c] # None /\ sock[c].reads /\ sock[c].st = "unknown"
  /\ LET x == [heard(sock[c]) EXCEPT !.nick = TRUE]
     IN IF x.user THEN register_sock(c, x) ELSE sock' = [sock EXCEPT ![c] = x] /\ UNCHANGED count
  /\ UNCHANGED nextping
m_user_sock(c) ==
  /\ sock[c] # None /\ sock[c].reads /\ sock[c].st = "unknown"
  /\ LET x == [heard(sock[c]) EXCEPT !.user = TRUE]
     IN IF x.nick THEN register_sock(c, x) ELSE sock' = [sock EXCEPT ![c] = x] /\ UNCHANGED count
  /\ UNCHANGED nextping

\* Any other line: PASS, PONG, what a client says.
other_line(c) == sock[c] # None /\ sock[c].reads /\ change(c, heard(sock[c]))

----------------------------------------------------------------------------
(* check_pings.                                                            *)

ping(x)   == IF x.st = "person" THEN PingFreq ELSE ConnectTimeout
Silent(x) == x.last > ping(x)
Late(x)   == /\ Silent(x)
             /\ \/ x.pinged # None /\ x.last >= 2 * ping(x)
                \/ x.st = "unknown" /\ x.since >= ping(x)

\* Whom check_pings ends, ...
Drops(x) ==
  \/ x.dead
  \/ Late(x) /\ ~ (x.dns \/ x.auth)
  \/ ~ Late(x) /\ x.st = "unknown" /\ x.first > UnknownTime

\* Mutant: the PING does not move lasttime.
pinged_late(x) == [x EXCEPT !.pinged = 0]
\* The PING: lasttime moves, so that the answer has a whole ping's time.
pinged(x) == [x EXCEPT !.pinged = 0, !.last = ping(x)]

\* Mutant: the socket is not looked at after the lookups are given up.
lookups_over_deaf(x) == [x EXCEPT !.dns = FALSE, !.auth = FALSE, !.since = 0]
lookups_over(x) == check_client_fd([x EXCEPT !.dns = FALSE, !.auth = FALSE, !.since = 0])

\* ... and how the others go on.
Checked(x) == IF Late(x) THEN lookups_over(x)
              ELSE IF Silent(x) /\ x.pinged = None THEN pinged(x)
              ELSE x

check_pings ==
  LET gone == {c \in Live : Drops(sock[c])}
  IN /\ nextping = 0 /\ nextping' = CheckEvery
     /\ sock' = [c \in Comers |-> IF c \notin Live \/ c \in gone THEN None ELSE Checked(sock[c])]
     /\ count' = without(count, sock, gone)

second ==
  /\ nextping > 0 /\ nextping' = nextping - 1
  /\ sock' = [c \in Comers |->
                IF sock[c] = None THEN None
                ELSE [sock[c] EXCEPT !.first = older(@), !.since = older(@), !.last = older(@),
                                     !.heard = older(@),
                                     !.pinged = IF @ = None THEN None ELSE older(@)]]
  /\ UNCHANGED count

----------------------------------------------------------------------------
SignInit == /\ sock = [c \in Comers |-> None] /\ nextping = CheckEvery
            /\ count = [unknown |-> 0, local |-> 0]

SignNext == \/ check_pings \/ second
            \/ \E c \in Comers :
                 \/ \E dns, auth \in BOOLEAN : add_connection(c, dns, auth)
                 \/ hang_up(c) \/ dead_sock(c)
                 \/ dns_done(c) \/ read_authports(c)
                 \/ \E sent \in BOOLEAN : send_authports(c, sent)
                 \/ m_nick_sock(c) \/ m_user_sock(c) \/ other_line(c)

SignSpec == SignInit /\ [][SignNext]_signVars

----------------------------------------------------------------------------
(* Properties.                                                             *)

\* A connection is read exactly when neither lookup is under way, however they
\* end and in whatever order: answered, failed or given up.  No one who has
\* sent NICK and USER is left unregistered, and the counters are those of the
\* connections.
SignOnRight ==
  /\ \A c \in Live :
       /\ sock[c].reads <=> ~ sock[c].dns /\ ~ sock[c].auth
       /\ (sock[c].st = "person") <=> (sock[c].nick /\ sock[c].user)
  /\ count.unknown = Cardinality({c \in Live : sock[c].st = "unknown"})
  /\ count.local = Cardinality({c \in Live : sock[c].st = "person"})

\* No connection stays unknown, or silent, much longer than it may; and
\* check_pings ends a client that it could still write to only after the
\* client has been silent for two pings and had one to answer the PING.
NotForever ==
  \A c \in Live :
    /\ sock[c].st = "unknown" => sock[c].first <= UnknownTime + CheckEvery + 1
    /\ sock[c].st = "person" => sock[c].heard <= 2 * (PingFreq + CheckEvery + 1)
FairlyEnded ==
  nextping' > nextping => \A c \in Live :
    sock'[c] = None /\ sock[c].st = "person" /\ ~ sock[c].dead =>
      sock[c].pinged # None /\ sock[c].pinged >= PingFreq /\ sock[c].heard > 2 * PingFreq
Timely == []NotForever /\ [][FairlyEnded]_signVars
=============================================================================
