------------------------------ MODULE NickNet ------------------------------
(***************************************************************************)
(* Nicknames on a network of servers (src/src/m_nick.c, src/src/parse.c,   *)
(* m_kill and m_quit of src/src/s_user.c, m_svsnick of                     *)
(* src/src/m_services.c, src/src/whowas.c).  Every server has a table of   *)
(* clients, in which a client is found by its nick alone.  A server lets   *)
(* its own clients take a nick that is free in its table and tells the     *)
(* others over FIFO links, so several clients can take one nick at once;   *)
(* the servers that meet two of them decide by timestamp, user and host.   *)
(* Messages name clients by nick, and a KILL says nothing else of them.    *)
(*                                                                         *)
(* Links are not lost here, hosts are not masked, no server forgets to     *)
(* send a timestamp, nicks differ by more than case, and the operators who *)
(* KILL are known everywhere (the prefix of a KILL is left out).           *)
(***************************************************************************)
EXTENDS Integers, FiniteSets, Sequences

CONSTANTS
  Servers, Clients, Nicks,
  None,        \* a null pointer, an empty name
  home,        \* home[c]: the server c connects to
  ident,       \* ident[c]: c's user name and host
  hop,         \* hop[s][t]: the neighbour of s on the way to t
  Edges,       \* the links of the network, a tree: sets {s, t}
  Commands,    \* what happens to clients, of "RENICK" (NICK again before
               \* USER), "NICK", "SVSNICK", "QUIT", "KILL" (by an operator)
  MaxTime,     \* bound: the clock
  MaxCommands  \* bound: commands given

ASSUME NickAssumption ==
  /\ None \notin Clients /\ None \notin Nicks
  /\ home \in [Clients -> Servers]
  /\ MaxTime \in Nat /\ MaxCommands \in Nat

VARIABLES
  tab,         \* tab[s][c]: what s knows of c
  hist,        \* hist[s][n]: `online' of the newest WHOWAS entry for n
  link,        \* link[<<s, t>>]: messages from s to t
  fresh,       \* clients that have not connected
  now,         \* timeofday, the same everywhere
  given,       \* commands given so far
  crossed,     \* history: a nick was taken, or given up, while news about it
               \* was on a link (see Takes and Leaves)
  late         \* history: a KILL found its victim's nick changed more than
               \* KILLCHASETIMELIMIT ago

vars == <<tab, hist, link, fresh, now, given, crossed, late>>

Absent == [nick |-> None, ts |-> 0, reg |-> FALSE]

\* The clients s has under nick n, and those of them without USER yet.
Owners(s, n)     == {c \in Clients : tab[s][c].nick = n}
Overridden(s, n) == {c \in Owners(s, n) : ~ tab[s][c].reg}

\* find_client: the client with nick n in the table of s.
find_client(s, n) ==
  IF Owners(s, n) = {} THEN None ELSE CHOOSE c \in Owners(s, n) : TRUE

\* acptr->from: the neighbour of s through which c is reached, s for its own.
from(s, c) == IF home[c] = s THEN s ELSE hop[s][home[c]]

sameuser(c, d) == ident[c] = ident[d]

----------------------------------------------------------------------------
(* Messages.                                                               *)

NICK(c, n, t)   == [type |-> "NICK", who |-> c, nick |-> n, ts |-> t]
CHANGE(o, n, t) == [type |-> "CHANGE", prefix |-> o, nick |-> n, ts |-> t]
QUIT(n)         == [type |-> "QUIT", prefix |-> n]
KILL(n)         == [type |-> "KILL", nick |-> n]

Peers(s) == {t \in Servers : {s, t} \in Edges}

Wires == {e \in Servers \X Servers : {e[1], e[2]} \in Edges}

\* sendto_serv_butone: q goes to every neighbour of s but t (t = s: to all).
\* `l' is the links before.
butone(l, s, t, q) ==
  [e \in Wires |-> IF e[1] = s /\ e[2] # t THEN l[e] \o q ELSE l[e]]

----------------------------------------------------------------------------
(* Changes of one server's table T and history H.                          *)

put(T, c, n, t, r) == [T EXCEPT ![c] = [nick |-> n, ts |-> t, reg |-> r]]

\* exit_one_client: the clients C leave the table, and ...
exit(T, C) == [c \in Clients |-> IF c \in C THEN Absent ELSE T[c]]

\* Mutant: the entries of a client that exits still point to it.
off_history_dangling(T, H, C) ==
  [n \in Nicks |-> IF \E c \in C : T[c].reg /\ T[c].nick = n THEN None ELSE H[n]]

\* ... (remove_client_from_list) the nicks the registered ones leave get a
\* newest entry that is offline, and no entry points to them any more.
off_history(T, H, C) ==
  [n \in Nicks |-> IF H[n] \in C \/ \E c \in C : T[c].reg /\ T[c].nick = n
                   THEN None ELSE H[n]]

\* A handler at s ends with table T, history H and links L.
Ends(s, T, H, L) == /\ tab' = [tab EXCEPT ![s] = T]
                    /\ hist' = [hist EXCEPT ![s] = H]
                    /\ link' = L

\* exit_client for the clients C, with the links then being L.
Exits(s, C, L) == Ends(s, exit(tab[s], C), off_history(tab[s], hist[s], C), L)

\* Mutant: no add_history.
Renames_unrecorded(s, c, o, n, t, C, L) ==
  Ends(s, put(exit(tab[s], C), c, n, t, TRUE), off_history(tab[s], hist[s], C), L)

\* Client c, known as o, goes by nick n from time t on; the clients C who
\* stood in the way exit.
Renames(s, c, o, n, t, C, L) ==
  Ends(s, put(exit(tab[s], C), c, n, t, TRUE),
       [off_history(tab[s], hist[s], C) EXCEPT ![o] = c], L)

----------------------------------------------------------------------------
(* Crossings: a nick is given up while any message about it is on a link,  *)
(* or taken while a message that somebody gave it up is.  That several     *)
(* clients take one nick at once is no crossing: m_nick settles that.      *)

Flying == UNION {{link[e][i] : i \in DOMAIN link[e]} : e \in Wires}

GivenUp(m, n) == IF m.type = "KILL" THEN m.nick = n
                 ELSE m.type \in {"QUIT", "CHANGE"} /\ m.prefix = n
About(m, n)   == GivenUp(m, n) \/ (m.type \in {"NICK", "CHANGE"} /\ m.nick = n)

Takes(n)    == crossed' = (crossed \/ \E m \in Flying : GivenUp(m, n))
Leaves(n)   == crossed' = (crossed \/ \E m \in Flying : About(m, n))
Moves(o, n) == crossed' = (crossed \/ \E m \in Flying : About(m, o) \/ GivenUp(m, n))

----------------------------------------------------------------------------
(* Clients.                                                                *)

give(kind) == /\ kind \in Commands /\ given < MaxCommands
              /\ given' = given + 1 /\ UNCHANGED <<fresh, now, late>>

\* A local client may take n: nobody else has it, or only somebody who has
\* not registered, who then exits ("Overridden").
Free(s, n) == Owners(s, n) = Overridden(s, n)

\* m_nick: the first NICK of a connection.
m_nick_first(c, n) ==
  LET s == home[c]
  IN /\ c \in fresh /\ Free(s, n) /\ Takes(n)
     /\ fresh' = fresh \ {c} /\ UNCHANGED <<now, given, late>>
     /\ Ends(s, put(exit(tab[s], Overridden(s, n)), c, n, now, FALSE), hist[s], link)

\* m_nick: another NICK before USER.  The timestamp is not set again.
m_nick_unregistered(c, n) ==
  LET s == home[c]
      e == tab[s][c]
  IN /\ give("RENICK") /\ Takes(n)
     /\ e.nick \notin {None, n} /\ ~ e.reg /\ Free(s, n)
     /\ Ends(s, put(exit(tab[s], Overridden(s, n)), c, n, e.ts, FALSE), hist[s], link)

\* m_user and register_user: from now on the client is known on the network.
register_user(c) ==
  LET s == home[c]
      e == tab[s][c]
  IN /\ e.nick # None /\ ~ e.reg
     /\ Ends(s, put(tab[s], c, e.nick, e.ts, TRUE), hist[s],
             butone(link, s, s, <<NICK(c, e.nick, e.ts)>>))
     /\ Takes(e.nick) /\ UNCHANGED <<fresh, now, given, late>>

\* m_nick: a registered client of this server changes its nick.
m_nick_local(c, n) ==
  LET s == home[c]
      e == tab[s][c]
  IN /\ give("NICK") /\ Moves(e.nick, n)
     /\ e.reg /\ n # e.nick /\ Free(s, n)
     /\ Renames(s, c, e.nick, n, now, Overridden(s, n),
                butone(link, s, s, <<CHANGE(e.nick, n, now)>>))

\* m_svsnick: services change the nick of a client of this server, to w or,
\* if w is taken, to something made from it that is free, with a timestamp t
\* of theirs.
m_svsnick(c, w, n, t) ==
  LET s == home[c]
      e == tab[s][c]
  IN /\ give("SVSNICK") /\ Moves(e.nick, n)
     /\ e.reg /\ Owners(s, n) = {} /\ (n = w \/ Owners(s, w) # {})
     /\ Renames(s, c, e.nick, n, t, {}, butone(link, s, s, <<CHANGE(e.nick, n, t)>>))

\* m_svsnick when ten tries found no free nick, n last: whoever has n is
\* exited if it has not registered, else the client itself is.
m_svsnick_collide(c, w, n) ==
  LET s == home[c]
      e == tab[s][c]
      q == IF Overridden(s, n) = {} THEN <<QUIT(e.nick)>> ELSE <<>>
  IN /\ give("SVSNICK") /\ Leaves(e.nick)
     /\ e.reg /\ n # w /\ Owners(s, w) # {} /\ Owners(s, n) # {}
     /\ Exits(s, IF q = <<>> THEN Overridden(s, n) ELSE {c}, butone(link, s, s, q))

\* m_quit, and every other end of a local connection.
m_quit(c) ==
  LET s == home[c]
      e == tab[s][c]
  IN /\ give("QUIT") /\ Leaves(e.nick) /\ e.nick # None
     /\ Exits(s, {c}, butone(link, s, s, IF e.reg THEN <<QUIT(e.nick)>> ELSE <<>>))

\* The client a KILL for n ends at s: the one who has the nick, or the one
\* who had it last and changed it (get_history), unless longer than
\* KILLCHASETIMELIMIT ago.
Victims(s, n) ==
  IF Owners(s, n) # {} THEN {find_client(s, n)} ELSE {hist[s][n], None}

\* m_kill by an operator of s.  A local victim QUITs, no KILL is sent.
m_kill_local(s, n) ==
  /\ give("KILL")
  /\ \E v \in Victims(s, n) \ {None} :
       LET e == tab[s][v]
           q == IF home[v] # s THEN <<KILL(e.nick)>>
                ELSE IF e.reg THEN <<QUIT(e.nick)>> ELSE <<>>
       IN Exits(s, {v}, butone(link, s, s, q)) /\ Leaves(e.nick)

----------------------------------------------------------------------------
(* Messages from the server t.  `l' is the links without the message.      *)

\* Mutant: equal timestamps leave the nick to the one who has it.
ruling_tie_keeps(s, c, n, t) ==
  LET a == find_client(s, n)
      e == tab[s][a]
  IN IF a = None THEN "enter" ELSE IF ~ e.reg THEN "enter"
     ELSE IF t = e.ts THEN "keep"
     ELSE IF (sameuser(c, a) /\ t < e.ts) \/ (~ sameuser(c, a) /\ t > e.ts) THEN "keep"
     ELSE "replace"

\* m_nick: what becomes of client c, who has nick n since t elsewhere.  A
\* user's later connection and the earlier of two users win; in a tie both
\* lose.
ruling(s, c, n, t) ==
  LET a == find_client(s, n)
      e == tab[s][a]
  IN IF a = None THEN "enter" ELSE IF ~ e.reg THEN "enter"   \* "Overridden"
     ELSE IF t = e.ts THEN "both"
     ELSE IF (sameuser(c, a) /\ t < e.ts) \/ (~ sameuser(c, a) /\ t > e.ts) THEN "keep"
     ELSE "replace"

kill_loser(r, n) == IF r = "replace" THEN <<KILL(n)>> ELSE <<>>

\* Mutant: a new client is also told to the server it comes from.
recv_NICK_echo(s, t, l, m) ==
  LET r == ruling(s, m.who, m.nick, m.ts)
      X == Owners(s, m.nick)
  IN \/ /\ r \in {"enter", "replace"}
        /\ Ends(s, put(exit(tab[s], X), m.who, m.nick, m.ts, TRUE),
                off_history(tab[s], hist[s], X),
                butone(l, s, s, kill_loser(r, m.nick) \o <<m>>))
     \/ r = "both" /\ Exits(s, X, butone(l, s, s, <<KILL(m.nick)>>))
     \/ r = "keep" /\ Ends(s, tab[s], hist[s], l)

\* Mutant: the loser is not killed elsewhere.
recv_NICK_no_kill(s, t, l, m) ==
  LET r == ruling(s, m.who, m.nick, m.ts)
      X == Owners(s, m.nick)
  IN \/ /\ r \in {"enter", "replace"}
        /\ Ends(s, put(exit(tab[s], X), m.who, m.nick, m.ts, TRUE),
                off_history(tab[s], hist[s], X), butone(l, s, t, <<m>>))
     \/ r = "both" /\ Exits(s, X, l)
     \/ r = "keep" /\ Ends(s, tab[s], hist[s], l)

\* m_nick from a server: a new client.
recv_NICK(s, t, l, m) ==
  LET r == ruling(s, m.who, m.nick, m.ts)
      X == Owners(s, m.nick)
  IN \/ /\ r \in {"enter", "replace"}
        /\ Ends(s, put(exit(tab[s], X), m.who, m.nick, m.ts, TRUE),
                off_history(tab[s], hist[s], X),
                butone(l, s, t, kill_loser(r, m.nick) \o <<m>>))
     \/ r = "both" /\ Exits(s, X, butone(l, s, s, <<KILL(m.nick)>>))
     \/ r = "keep" /\ Ends(s, tab[s], hist[s], l)

\* m_nick from a server: client p changes its nick.
recv_CHANGE(s, t, l, m, p) ==
  LET r == ruling(s, p, m.nick, m.ts)
      X == Owners(s, m.nick)
  IN \/ /\ r \in {"enter", "replace"}
        /\ Renames(s, p, m.prefix, m.nick, m.ts, X,
                   butone(l, s, t, kill_loser(r, m.nick) \o <<m>>))
     \/ r = "both" /\ Exits(s, X \cup {p},
                            butone(l, s, s, <<KILL(m.prefix), KILL(m.nick)>>))
     \/ r = "keep" /\ Exits(s, {p}, butone(l, s, t, <<KILL(m.prefix)>>))

\* m_quit from a server.
recv_QUIT(s, t, l, p) == Exits(s, {p}, butone(l, s, t, <<QUIT(tab[s][p].nick)>>))

\* Mutant: a KILL for nobody is returned to where it came from.
recv_KILL_bounce(s, t, l, m) ==
  \E v \in Victims(s, m.nick) :
    /\ late' = (late \/ (v = None /\ hist[s][m.nick] # None))
    /\ IF v = None THEN Ends(s, tab[s], hist[s], [l EXCEPT ![<<s, t>>] = Append(@, m)])
       ELSE LET n == tab[s][v].nick
            IN Exits(s, {v}, butone(l, s, IF n = m.nick THEN t ELSE s, <<KILL(n)>>))

\* m_kill from a server.  A KILL that chased a nick change also goes back.
recv_KILL(s, t, l, m) ==
  \E v \in Victims(s, m.nick) :
    /\ late' = (late \/ (v = None /\ hist[s][m.nick] # None))
    /\ IF v = None THEN Ends(s, tab[s], hist[s], l)
       ELSE LET n == tab[s][v].nick
            IN Exits(s, {v}, butone(l, s, IF n = m.nick THEN t ELSE s, <<KILL(n)>>))

\* remove_unknown: nobody has the nick a message comes from.
remove_unknown(s, t, l, m) ==
  Ends(s, tab[s], hist[s], [l EXCEPT ![<<s, t>>] = Append(@, KILL(m.prefix))])

\* parse and the handlers.  A prefix of somebody who is not on the side of t
\* is ignored (cancel_clients).
Receive(s, t) ==
  LET m == Head(link[<<t, s>>])
      l == [link EXCEPT ![<<t, s>>] = Tail(@)]
      p == find_client(s, m.prefix)
  IN /\ link[<<t, s>>] # <<>> /\ UNCHANGED <<fresh, now, given, crossed>>
     /\ \/ m.type = "NICK" /\ recv_NICK(s, t, l, m) /\ UNCHANGED late
        \/ m.type = "KILL" /\ recv_KILL(s, t, l, m)
        \/ m.type \in {"CHANGE", "QUIT"} /\ UNCHANGED late
           /\ \/ p = None /\ remove_unknown(s, t, l, m)
              \/ p # None /\ from(s, p) # t /\ Ends(s, tab[s], hist[s], l)
              \/ p # None /\ from(s, p) = t /\ m.type = "CHANGE" /\ recv_CHANGE(s, t, l, m, p)
              \/ p # None /\ from(s, p) = t /\ m.type = "QUIT" /\ recv_QUIT(s, t, l, p)

Tick == /\ now < MaxTime /\ now' = now + 1
        /\ UNCHANGED <<tab, hist, link, fresh, given, crossed, late>>

----------------------------------------------------------------------------
Init ==
  /\ tab = [s \in Servers |-> [c \in Clients |-> Absent]]
  /\ hist = [s \in Servers |-> [n \in Nicks |-> None]]
  /\ link = [e \in Wires |-> <<>>]
  /\ fresh = Clients
  /\ now = 1 /\ given = 0 /\ crossed = FALSE /\ late = FALSE

Next ==
  \/ \E c \in Clients : register_user(c) \/ m_quit(c)
  \/ \E c \in Clients, n \in Nicks :
       m_nick_first(c, n) \/ m_nick_unregistered(c, n) \/ m_nick_local(c, n)
  \/ \E c \in Clients, w, n \in Nicks : m_svsnick_collide(c, w, n)
  \/ \E c \in Clients, w, n \in Nicks, t \in 1..MaxTime : t <= now /\ m_svsnick(c, w, n, t)
  \/ \E s \in Servers, n \in Nicks : m_kill_local(s, n)
  \/ \E e \in Wires : Receive(e[1], e[2])
  \/ Tick

Spec == Init /\ [][Next]_vars

\* The event loop reads every link again and again.
FairSpec == Spec /\ \A e \in Wires : WF_vars(Receive(e[1], e[2]))

----------------------------------------------------------------------------
(* Properties.                                                             *)

Entry    == [nick : Nicks \cup {None}, ts : Nat, reg : BOOLEAN]
Message  == [type : {"NICK"}, who : Clients \ fresh, nick : Nicks, ts : Nat]
            \cup [type : {"CHANGE"}, prefix : Nicks, nick : Nicks, ts : Nat]
            \cup [type : {"QUIT"}, prefix : Nicks] \cup [type : {"KILL"}, nick : Nicks]

\* The state is well formed: links carry NICKs of clients that have
\* connected and messages that name nicks.
TypeOK ==
  /\ tab \in [Servers -> [Clients -> Entry]]
  /\ hist \in [Servers -> [Nicks -> Clients \cup {None}]]
  /\ link \in [Wires -> Seq(Message)]
  /\ fresh \subseteq Clients
  /\ now \in Nat /\ given \in Nat /\ crossed \in BOOLEAN /\ late \in BOOLEAN

\* A nick finds one client: whatever collides, no server ever has two clients
\* under one nick (add_to_client_hash_table of m_nick.c would hide one).
NickUnique ==
  \A s \in Servers : \A c, d \in Clients :
    tab[s][c].nick # None /\ tab[s][c].nick = tab[s][d].nick => c = d

\* The history that m_kill and find_chasing follow points to clients that
\* are there: remove_client_from_list frees no client an entry points to.
HistSound ==
  \A s \in Servers, n \in Nicks : hist[s][n] # None => tab[s][hist[s][n]].reg

\* What the handlers trust of a server's tables after every message.
NickTables == TypeOK /\ NickUnique /\ HistSound

\* No server is told of a client it has, so make_client in m_nick never makes
\* a second structure for one connection.
IntroducedOnce ==
  \A e \in Wires : \A i \in DOMAIN link[e] :
    link[e][i].type = "NICK" => tab[e[2]][link[e][i].who] = Absent

Quiet == \A e \in Wires : link[e] = <<>>

\* Every server knows every registered client as the client's own does.
InSynch ==
  \A s \in Servers, c \in Clients :
    tab[home[c]][c].reg \/ tab[s][c].reg => tab[s][c] = tab[home[c]][c]

\* Collisions are settled alike everywhere: whoever of two clients keeps the
\* nick, and under which nick and timestamp, all servers know the same when
\* no message is left, unless news about a nick was crossed on the links.
Agree == Quiet /\ ~ crossed => InSynch

\* Both: one structure for a connection, and one nick everywhere.
NicksAgree == IntroducedOnce /\ Agree

\* "We cannot have TWO users with same nick" (m_nick.c): when no message is
\* left, no two clients are on line, each at its own server, with one nick.
OneOwner ==
  Quiet => \A c, d \in Clients :
    /\ tab[home[c]][c].reg /\ tab[home[d]][d].reg
    /\ tab[home[c]][c].nick = tab[home[d]][d].nick
    => c = d

\* "this keeps servers in synch when nick change and kill collide" (m_kill):
\* a KILL that meets the nick change of its victim ends the victim
\* everywhere or nowhere, if it meets it within KILLCHASETIMELIMIT.
ChaseInSynch == Quiet /\ ~ late => InSynch

\* KILLs that answer KILLs and unknown prefixes come to an end.
Settles == <>[]Quiet
============================================================================
