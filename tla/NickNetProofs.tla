--------------------------- MODULE NickNetProofs ---------------------------
(***************************************************************************)
(* Proofs about what servers know of each other's users.  Nicks (module    *)
(* NickNet): no server ever has two clients under one nick, and no history *)
(* entry points to a client that is gone, for any network, clients and     *)
(* nicks.  User modes (module Umodes): the inductive invariant UmodeInv    *)
(* says that oper_list and the counters are of the operators there are,    *)
(* and that the messages under way about a user lead from what one server  *)
(* has of it to what the other has, unless services changed it meanwhile.  *)
(***************************************************************************)
EXTENDS NickNet, Umodes, ListLemmas

\* One server's table: registered clients have nicks, and nicks are unique.
GoodTab(T) ==
  /\ T \in [Clients -> Entry]
  /\ \A c \in Clients : T[c].reg => T[c].nick # None
  /\ \A c, d \in Clients : T[c].nick # None /\ T[c].nick = T[d].nick => c = d

\* One server's history: it points to registered clients of the table.
GoodHist(T, H) ==
  /\ H \in [Nicks -> Clients \cup {None}]
  /\ \A n \in Nicks : H[n] # None => T[H[n]].reg

\* Nothing is known of clients that have not connected.
GoodFresh(T, F) == \A c \in F : T[c] = Absent

IInv ==
  /\ tab \in [Servers -> [Clients -> Entry]]
  /\ hist \in [Servers -> [Nicks -> Clients \cup {None}]]
  /\ \A s \in Servers : /\ GoodTab(tab[s])
                        /\ GoodHist(tab[s], hist[s])
                        /\ GoodFresh(tab[s], fresh)
  /\ link \in [Wires -> Seq(Message)]
  /\ fresh \subseteq Clients
  /\ now \in Nat /\ given \in Nat /\ crossed \in BOOLEAN /\ late \in BOOLEAN

\* The empty entry is an entry.
LEMMA AbsentEntry == Absent \in Entry /\ Absent.nick = None /\ ~ Absent.reg
BY DEF Absent, Entry

\* exit_client leaves a good table, and off_history a good history for it.
LEMMA ExitGood ==
  ASSUME NEW T, NEW H, NEW C, NEW F \in SUBSET Clients,
         GoodTab(T), GoodHist(T, H), GoodFresh(T, F)
  PROVE  /\ GoodTab(exit(T, C))
         /\ GoodHist(exit(T, C), off_history(T, H, C))
         /\ GoodFresh(exit(T, C), F)
<1>1. /\ exit(T, C) \in [Clients -> Entry]
      /\ \A c \in Clients : exit(T, C)[c] = IF c \in C THEN Absent ELSE T[c]
  BY AbsentEntry DEF exit, GoodTab
<1>2. GoodTab(exit(T, C))
  <2>1. \A c \in Clients : exit(T, C)[c].reg => exit(T, C)[c].nick # None
    BY <1>1, AbsentEntry DEF GoodTab
  <2>2. ASSUME NEW c \in Clients, NEW d \in Clients,
               exit(T, C)[c].nick # None, exit(T, C)[c].nick = exit(T, C)[d].nick
        PROVE  c = d
    <3>1. c \notin C /\ d \notin C
      BY <1>1, <2>2, AbsentEntry
    <3>2. QED BY <1>1, <2>2, <3>1 DEF GoodTab
  <2>3. QED BY <1>1, <2>1, <2>2 DEF GoodTab
<1>3. GoodHist(exit(T, C), off_history(T, H, C))
  <2>1. off_history(T, H, C) \in [Nicks -> Clients \cup {None}]
    BY DEF off_history, GoodHist
  <2>2. ASSUME NEW n \in Nicks, off_history(T, H, C)[n] # None
        PROVE  exit(T, C)[off_history(T, H, C)[n]].reg
    <3>1. off_history(T, H, C)[n] = H[n] /\ H[n] \notin C
      BY <2>2 DEF off_history
    <3>2. H[n] \in Clients /\ T[H[n]].reg
      BY <2>2, <3>1 DEF GoodHist
    <3>3. QED BY <1>1, <3>1, <3>2
  <2>3. QED BY <2>1, <2>2 DEF GoodHist
<1>4. GoodFresh(exit(T, C), F)
  BY <1>1 DEF GoodFresh
<1>5. QED BY <1>2, <1>3, <1>4

\* A client that takes a nick nobody else has leaves a good table; the
\* history stays good if the client is registered, or was not.
LEMMA PutGood ==
  ASSUME NEW T, NEW H, NEW F \in SUBSET Clients, NEW c \in Clients \ F, NEW n \in Nicks,
         NEW t \in Nat, NEW r \in BOOLEAN, GoodTab(T), GoodHist(T, H), GoodFresh(T, F),
         \A d \in Clients \ {c} : T[d].nick # n, r \/ ~ T[c].reg
  PROVE  /\ GoodTab(put(T, c, n, t, r))
         /\ GoodHist(put(T, c, n, t, r), H)
         /\ \A o \in Nicks : r => GoodHist(put(T, c, n, t, r), [H EXCEPT ![o] = c])
         /\ GoodFresh(put(T, c, n, t, r), F)
<1> DEFINE U == put(T, c, n, t, r)
<1>1. /\ U \in [Clients -> Entry]
      /\ U[c].nick = n /\ U[c].reg = r
      /\ \A d \in Clients \ {c} : U[d] = T[d]
  BY DEF put, GoodTab, Entry
<1>2. n # None
  BY NickAssumption
<1>3. GoodTab(U)
  BY <1>1, <1>2 DEF GoodTab
<1>4. GoodHist(U, H)
  <2>1. ASSUME NEW m \in Nicks, H[m] # None PROVE U[H[m]].reg
    <3>1. H[m] \in Clients /\ T[H[m]].reg
      BY <2>1 DEF GoodHist
    <3>2. CASE H[m] = c
      BY <1>1, <3>1, <3>2
    <3>3. CASE H[m] # c
      BY <1>1, <3>1, <3>3
    <3>4. QED BY <3>2, <3>3
  <2>2. QED BY <2>1 DEF GoodHist
<1>5. ASSUME NEW o \in Nicks, r PROVE GoodHist(U, [H EXCEPT ![o] = c])
  BY <1>1, <1>4, <1>5 DEF GoodHist
<1>6. GoodFresh(U, F)
  BY <1>1 DEF GoodFresh
<1>7. QED BY <1>3, <1>4, <1>5, <1>6

\* The tables, histories and links a handler ends with carry the invariant.
LEMMA EndsGood ==
  ASSUME IInv, NEW s \in Servers, NEW T, NEW H, NEW L, Ends(s, T, H, L),
         GoodTab(T), GoodHist(T, H), GoodFresh(T, fresh'),
         L \in [Wires -> Seq(Message')], fresh' \subseteq fresh,
         now' \in Nat, given' \in Nat, crossed' \in BOOLEAN, late' \in BOOLEAN
  PROVE  IInv'
<1>1. /\ tab' \in [Servers -> [Clients -> Entry]]
      /\ tab'[s] = T /\ \A u \in Servers \ {s} : tab'[u] = tab[u]
  BY DEF IInv, Ends, GoodTab
<1>2. /\ hist' \in [Servers -> [Nicks -> Clients \cup {None}]]
      /\ hist'[s] = H /\ \A u \in Servers \ {s} : hist'[u] = hist[u]
  BY DEF IInv, Ends, GoodHist
<1>3. ASSUME NEW u \in Servers
      PROVE  /\ GoodTab(tab'[u]) /\ GoodHist(tab'[u], hist'[u])
             /\ GoodFresh(tab'[u], fresh')
  <2>1. CASE u = s
    BY <1>1, <1>2, <2>1
  <2>2. CASE u # s
    <3>1. GoodTab(tab[u]) /\ GoodHist(tab[u], hist[u]) /\ GoodFresh(tab[u], fresh)
      BY DEF IInv
    <3>2. GoodFresh(tab[u], fresh')
      BY <3>1 DEF GoodFresh
    <3>3. QED BY <1>1, <1>2, <2>2, <3>1, <3>2
  <2>3. QED BY <2>1, <2>2
<1>4. link' \in [Wires -> Seq(Message')]
  BY DEF Ends
<1>5. fresh' \subseteq Clients
  BY DEF IInv
<1>6. QED
  <2>1. tab' \in [Servers -> [Clients -> Entry]] /\ hist' \in [Servers -> [Nicks -> Clients \cup {None}]]
    BY <1>1, <1>2
  <2>2. QED BY <2>1, <1>3, <1>4, <1>5 DEF IInv

\* What is sent is appended to links that carry messages.
LEMMA ButOneGood ==
  ASSUME NEW M, NEW l \in [Wires -> Seq(M)], NEW s, NEW t, NEW q \in Seq(M)
  PROVE  butone(l, s, t, q) \in [Wires -> Seq(M)]
<1>1. \A e \in Wires : l[e] \o q \in Seq(M)
  BY ConcatProperties
<1>2. QED BY <1>1 DEF butone

\* The same for one message.
LEMMA ButOneSent ==
  ASSUME NEW M, NEW l \in [Wires -> Seq(M)], NEW s, NEW t, NEW m \in M
  PROVE  butone(l, s, t, <<m>>) \in [Wires -> Seq(M)]
<1>1. <<m>> \in Seq(M)
  OBVIOUS
<1>2. QED BY <1>1, ButOneGood

\* find_client finds an owner.
LEMMA FindClient ==
  ASSUME NEW s \in Servers, NEW n \in Nicks
  PROVE  /\ find_client(s, n) = None <=> Owners(s, n) = {}
         /\ find_client(s, n) # None => find_client(s, n) \in Owners(s, n)
<1>1. None \notin Owners(s, n)
  BY NickAssumption DEF Owners
<1>2. CASE Owners(s, n) = {}
  BY <1>2 DEF find_client
<1>3. CASE Owners(s, n) # {}
  <2>1. (CHOOSE c \in Owners(s, n) : TRUE) \in Owners(s, n)
    BY <1>3
  <2>2. find_client(s, n) = CHOOSE c \in Owners(s, n) : TRUE
    BY <1>3 DEF find_client
  <2>3. QED BY <1>1, <1>3, <2>1, <2>2
<1>4. QED BY <1>2, <1>3

----------------------------------------------------------------------------
(* Clients.                                                                *)

\* The facts of the invariant about one server, and the fields of an entry.
LEMMA AtServer ==
  ASSUME IInv, NEW s \in Servers
  PROVE  /\ GoodTab(tab[s]) /\ GoodHist(tab[s], hist[s]) /\ GoodFresh(tab[s], fresh)
         /\ \A c \in Clients : /\ tab[s][c].nick \in Nicks \cup {None}
                               /\ tab[s][c].ts \in Nat /\ tab[s][c].reg \in BOOLEAN
                               /\ tab[s][c].reg => tab[s][c].nick \in Nicks
                               /\ tab[s][c].nick # None => c \notin fresh
<1>1. GoodTab(tab[s]) /\ GoodHist(tab[s], hist[s]) /\ GoodFresh(tab[s], fresh)
  BY DEF IInv
<1>2. ASSUME NEW c \in Clients
      PROVE  /\ tab[s][c].nick \in Nicks \cup {None}
             /\ tab[s][c].ts \in Nat /\ tab[s][c].reg \in BOOLEAN
             /\ tab[s][c].reg => tab[s][c].nick \in Nicks
             /\ tab[s][c].nick # None => c \notin fresh
  <2>1. tab[s][c] \in Entry
    BY <1>1 DEF GoodTab
  <2>2. c \in fresh => tab[s][c].nick = None
    BY <1>1, AbsentEntry DEF GoodFresh
  <2>3. QED BY <1>1, <2>1, <2>2 DEF Entry, GoodTab
<1>3. QED BY <1>1, <1>2

\* The client who takes a nick whose owners exit is the only one to have it.
LEMMA ExitFrees ==
  ASSUME IInv, NEW s \in Servers, NEW n \in Nicks
  PROVE  \A d \in Clients : exit(tab[s], Owners(s, n))[d].nick # n
<1> SUFFICES ASSUME NEW d \in Clients PROVE exit(tab[s], Owners(s, n))[d].nick # n
  OBVIOUS
<1>1. exit(tab[s], Owners(s, n))[d] = IF d \in Owners(s, n) THEN Absent ELSE tab[s][d]
  BY DEF exit
<1>2. CASE d \in Owners(s, n)
  BY <1>1, <1>2, AbsentEntry, NickAssumption
<1>3. CASE d \notin Owners(s, n)
  BY <1>1, <1>3 DEF Owners
<1>4. QED BY <1>2, <1>3

\* Messages are messages.
LEMMA MessageTypes ==
  ASSUME NEW n \in Nicks, NEW o \in Nicks, NEW t \in Nat
  PROVE  /\ \A c \in Clients \ fresh : NICK(c, n, t) \in Message
         /\ CHANGE(o, n, t) \in Message /\ QUIT(n) \in Message /\ KILL(n) \in Message
BY DEF Message, NICK, CHANGE, QUIT, KILL

\* Exits: the clients C leave.
LEMMA ExitsGood ==
  ASSUME IInv, NEW s \in Servers, NEW C, NEW L \in [Wires -> Seq(Message)], Exits(s, C, L),
         fresh' = fresh, now' \in Nat, given' \in Nat, crossed' \in BOOLEAN, late' \in BOOLEAN
  PROVE  IInv'
<1>1. fresh \in SUBSET Clients
  BY DEF IInv
<1>2. GoodTab(tab[s]) /\ GoodHist(tab[s], hist[s]) /\ GoodFresh(tab[s], fresh)
  BY AtServer
<1>3. /\ GoodTab(exit(tab[s], C))
      /\ GoodHist(exit(tab[s], C), off_history(tab[s], hist[s], C))
      /\ GoodFresh(exit(tab[s], C), fresh)
  BY <1>1, <1>2, ExitGood
<1>4. Message' = Message
  BY DEF Message
<1>5. Ends(s, exit(tab[s], C), off_history(tab[s], hist[s], C), L)
  BY DEF Exits
<1>6. QED
  BY <1>3, <1>4, <1>5, EndsGood

\* Renames: client c takes n, whose owners exit.
LEMMA RenamesGood ==
  ASSUME IInv, NEW s \in Servers, NEW c \in Clients, NEW o \in Nicks, NEW n \in Nicks,
         NEW t \in Nat, NEW L \in [Wires -> Seq(Message)], tab[s][c].nick # None,
         Renames(s, c, o, n, t, Owners(s, n), L),
         fresh' = fresh, now' \in Nat, given' \in Nat, crossed' \in BOOLEAN, late' \in BOOLEAN
  PROVE  IInv'
<1> DEFINE C == Owners(s, n)
           T == exit(tab[s], C)
           H == off_history(tab[s], hist[s], C)
<1>1. fresh \in SUBSET Clients /\ c \in Clients \ fresh
  BY AtServer DEF IInv
<1>2. GoodTab(T) /\ GoodHist(T, H) /\ GoodFresh(T, fresh)
  BY <1>1, AtServer, ExitGood
<1>3. \A d \in Clients \ {c} : T[d].nick # n
  BY ExitFrees
<1>4. /\ GoodTab(put(T, c, n, t, TRUE))
      /\ GoodHist(put(T, c, n, t, TRUE), [H EXCEPT ![o] = c])
      /\ GoodFresh(put(T, c, n, t, TRUE), fresh)
  <2> HIDE DEF T, H
  <2> QED BY <1>1, <1>2, <1>3, PutGood
<1>5. Message' = Message
  BY DEF Message
<1>6. Ends(s, put(T, c, n, t, TRUE), [H EXCEPT ![o] = c], L)
  BY DEF Renames
<1>7. QED
  <2> HIDE DEF T, H
  <2> QED BY <1>4, <1>5, <1>6, EndsGood

\* Init.
LEMMA InitIInv == Init => IInv
<1> SUFFICES ASSUME Init PROVE IInv
  OBVIOUS
<1>1. /\ tab \in [Servers -> [Clients -> Entry]]
      /\ hist \in [Servers -> [Nicks -> Clients \cup {None}]]
  BY AbsentEntry DEF Init
<1>2. ASSUME NEW s \in Servers
      PROVE  GoodTab(tab[s]) /\ GoodHist(tab[s], hist[s]) /\ GoodFresh(tab[s], fresh)
  <2>1. tab[s] = [c \in Clients |-> Absent] /\ hist[s] = [n \in Nicks |-> None]
    BY DEF Init
  <2>2. QED BY <2>1, AbsentEntry DEF Init, GoodTab, GoodHist, GoodFresh
<1>3. link \in [Wires -> Seq(Message)]
  BY DEF Init
<1>4. QED BY <1>1, <1>2, <1>3 DEF Init, IInv

\* A first NICK.
LEMMA StepFirst ==
  ASSUME IInv, NEW c \in Clients, NEW n \in Nicks, m_nick_first(c, n)
  PROVE  IInv'
<1> DEFINE s == home[c]
           T == exit(tab[s], Owners(s, n))
<1>1. s \in Servers /\ fresh \in SUBSET Clients
  BY NickAssumption DEF IInv
<1>2. /\ c \in fresh /\ fresh' = fresh \ {c} /\ UNCHANGED <<now, given, late>>
      /\ crossed' \in BOOLEAN
      /\ Overridden(s, n) = Owners(s, n)
  BY DEF m_nick_first, Free, Takes, IInv
<1>3. GoodTab(tab[s]) /\ GoodHist(tab[s], hist[s]) /\ GoodFresh(tab[s], fresh)
  BY <1>1, AtServer
<1>4. fresh' \in SUBSET Clients /\ c \in Clients \ fresh' /\ GoodFresh(tab[s], fresh')
  BY <1>1, <1>2, <1>3 DEF GoodFresh
<1>5. GoodTab(T) /\ GoodFresh(T, fresh')
  BY <1>3, <1>4, ExitGood
<1>6. GoodHist(T, hist[s])
  <2>1. ASSUME NEW m \in Nicks, hist[s][m] # None
        PROVE  T[hist[s][m]].reg
    <3>1. hist[s][m] \in Clients /\ tab[s][hist[s][m]].reg
      BY <1>3, <2>1 DEF GoodHist
    <3>2. hist[s][m] \notin Owners(s, n)
      BY <1>2, <3>1 DEF Overridden
    <3>3. QED BY <3>1, <3>2 DEF exit
  <2>2. QED BY <1>3, <2>1 DEF GoodHist
<1>7. \A d \in Clients \ {c} : T[d].nick # n
  BY <1>1, ExitFrees
<1>8. ~ T[c].reg
  BY <1>2, <1>3, AbsentEntry DEF GoodFresh, exit
<1>9. now \in Nat
  BY DEF IInv
<1>10. /\ GoodTab(put(T, c, n, now, FALSE)) /\ GoodHist(put(T, c, n, now, FALSE), hist[s])
       /\ GoodFresh(put(T, c, n, now, FALSE), fresh')
  <2> HIDE DEF T, s
  <2> QED BY <1>4, <1>5, <1>6, <1>7, <1>8, <1>9, PutGood
<1>11. link \in [Wires -> Seq(Message')]
  <2>1. Message \subseteq Message'
    BY <1>2 DEF Message
  <2>2. Seq(Message) \subseteq Seq(Message')
    BY <2>1
  <2>3. QED BY <2>2 DEF IInv
<1>12. Ends(s, put(T, c, n, now, FALSE), hist[s], link)
  BY <1>2 DEF m_nick_first
<1>13. now' \in Nat /\ given' \in Nat /\ late' \in BOOLEAN
  BY <1>2 DEF IInv
<1>14. QED
  <2> HIDE DEF T, s
  <2> QED BY <1>1, <1>2, <1>10, <1>11, <1>12, <1>13, EndsGood

\* A NICK before USER: the client is in no history.
LEMMA StepUnregistered ==
  ASSUME IInv, NEW c \in Clients, NEW n \in Nicks, m_nick_unregistered(c, n)
  PROVE  IInv'
<1> DEFINE s == home[c]
           t == tab[s][c].ts
           T == exit(tab[s], Owners(s, n))
<1>1. s \in Servers /\ fresh \in SUBSET Clients
  BY NickAssumption DEF IInv
<1>2. /\ UNCHANGED <<fresh, now, late>> /\ given' = given + 1 /\ crossed' \in BOOLEAN
      /\ Overridden(s, n) = Owners(s, n)
      /\ tab[s][c].nick # None /\ ~ tab[s][c].reg
  BY DEF m_nick_unregistered, give, Free, Takes, IInv
<1>3. /\ GoodTab(tab[s]) /\ GoodHist(tab[s], hist[s]) /\ GoodFresh(tab[s], fresh)
      /\ t \in Nat /\ c \in Clients \ fresh
  BY <1>1, <1>2, AtServer
<1>5. GoodTab(T) /\ GoodFresh(T, fresh)
  BY <1>1, <1>3, ExitGood
<1>6. GoodHist(T, hist[s])
  <2>1. ASSUME NEW m \in Nicks, hist[s][m] # None
        PROVE  T[hist[s][m]].reg
    <3>1. hist[s][m] \in Clients /\ tab[s][hist[s][m]].reg
      BY <1>3, <2>1 DEF GoodHist
    <3>2. hist[s][m] \notin Owners(s, n)
      BY <1>2, <3>1 DEF Overridden
    <3>3. QED BY <3>1, <3>2 DEF exit
  <2>2. QED BY <1>3, <2>1 DEF GoodHist
<1>7. \A d \in Clients \ {c} : T[d].nick # n
  BY <1>1, ExitFrees
<1>8. ~ T[c].reg
  BY <1>2, AbsentEntry DEF exit
<1>10. /\ GoodTab(put(T, c, n, t, FALSE)) /\ GoodHist(put(T, c, n, t, FALSE), hist[s])
       /\ GoodFresh(put(T, c, n, t, FALSE), fresh)
  <2> HIDE DEF T, s, t
  <2> QED BY <1>1, <1>3, <1>5, <1>6, <1>7, <1>8, PutGood
<1>11. Message' = Message
  BY <1>2 DEF Message
<1>12. Ends(s, put(T, c, n, t, FALSE), hist[s], link)
  BY <1>2 DEF m_nick_unregistered
<1>13. now' \in Nat /\ given' \in Nat /\ late' \in BOOLEAN /\ link \in [Wires -> Seq(Message)]
  BY <1>2 DEF IInv
<1>14. QED
  <2> HIDE DEF T, s, t
  <2> QED BY <1>1, <1>2, <1>10, <1>11, <1>12, <1>13, EndsGood

\* Registration tells everyone a client that has connected.
LEMMA StepRegister ==
  ASSUME IInv, NEW c \in Clients, register_user(c)
  PROVE  IInv'
<1> DEFINE s == home[c]
           e == tab[s][c]
           L == butone(link, s, s, <<NICK(c, e.nick, e.ts)>>)
<1>1. s \in Servers /\ fresh \in SUBSET Clients
  BY NickAssumption DEF IInv
<1>2. /\ UNCHANGED <<fresh, now, given, late>> /\ crossed' \in BOOLEAN /\ e.nick # None
      /\ Ends(s, put(tab[s], c, e.nick, e.ts, TRUE), hist[s], L)
  BY DEF register_user, Takes, IInv
<1>3. /\ GoodTab(tab[s]) /\ GoodHist(tab[s], hist[s]) /\ GoodFresh(tab[s], fresh)
      /\ e.nick \in Nicks /\ e.ts \in Nat /\ c \in Clients \ fresh
  BY <1>1, <1>2, AtServer
<1>4. \A d \in Clients \ {c} : tab[s][d].nick # e.nick
  BY <1>2, <1>3 DEF GoodTab
<1>5. /\ GoodTab(put(tab[s], c, e.nick, e.ts, TRUE))
      /\ GoodHist(put(tab[s], c, e.nick, e.ts, TRUE), hist[s])
      /\ GoodFresh(put(tab[s], c, e.nick, e.ts, TRUE), fresh)
  <2> HIDE DEF s
  <2> QED BY <1>1, <1>3, <1>4, PutGood
<1>6. <<NICK(c, e.nick, e.ts)>> \in Seq(Message)
  BY <1>3, MessageTypes
<1>7. link \in [Wires -> Seq(Message)]
  BY DEF IInv
<1>8. L \in [Wires -> Seq(Message)]
  BY <1>6, <1>7, ButOneGood
<1>9. Message' = Message
  BY <1>2 DEF Message
<1>10. now' \in Nat /\ given' \in Nat /\ late' \in BOOLEAN
  BY <1>2 DEF IInv
<1>11. QED
  <2> HIDE DEF s, L
  <2> QED BY <1>1, <1>2, <1>5, <1>8, <1>9, <1>10, EndsGood

\* A local nick change.
LEMMA StepLocal ==
  ASSUME IInv, NEW c \in Clients, NEW n \in Nicks, m_nick_local(c, n)
  PROVE  IInv'
<1> DEFINE s == home[c]
           e == tab[s][c]
           L == butone(link, s, s, <<CHANGE(e.nick, n, now)>>)
<1>1. s \in Servers
  BY NickAssumption
<1>2. /\ UNCHANGED <<fresh, now, late>> /\ given' = given + 1 /\ crossed' \in BOOLEAN /\ e.reg
      /\ Renames(s, c, e.nick, n, now, Owners(s, n), L)
  BY DEF m_nick_local, give, Free, Moves, IInv
<1>3. e.nick \in Nicks /\ e.nick # None /\ now \in Nat
  BY <1>1, <1>2, AtServer, NickAssumption DEF IInv
<1>4. <<CHANGE(e.nick, n, now)>> \in Seq(Message) /\ link \in [Wires -> Seq(Message)]
  BY <1>3, MessageTypes DEF IInv
<1>5. L \in [Wires -> Seq(Message)]
  BY <1>4, ButOneGood
<1>6. now' \in Nat /\ given' \in Nat /\ late' \in BOOLEAN
  BY <1>2 DEF IInv
<1>7. QED
  <2> HIDE DEF s, L
  <2> QED BY <1>1, <1>2, <1>3, <1>5, <1>6, RenamesGood

\* A nick change by services.
LEMMA StepSvsnick ==
  ASSUME IInv, NEW c \in Clients, NEW w \in Nicks, NEW n \in Nicks, NEW t \in Nat,
         m_svsnick(c, w, n, t)
  PROVE  IInv'
<1> DEFINE s == home[c]
           e == tab[s][c]
           L == butone(link, s, s, <<CHANGE(e.nick, n, t)>>)
<1>1. s \in Servers
  BY NickAssumption
<1>2. /\ UNCHANGED <<fresh, now, late>> /\ given' = given + 1 /\ crossed' \in BOOLEAN /\ e.reg
      /\ Renames(s, c, e.nick, n, t, Owners(s, n), L)
  BY DEF m_svsnick, give, Moves, IInv
<1>3. e.nick \in Nicks /\ e.nick # None
  BY <1>1, <1>2, AtServer, NickAssumption
<1>4. <<CHANGE(e.nick, n, t)>> \in Seq(Message) /\ link \in [Wires -> Seq(Message)]
  BY <1>3, MessageTypes DEF IInv
<1>5. L \in [Wires -> Seq(Message)]
  BY <1>4, ButOneGood
<1>6. now' \in Nat /\ given' \in Nat /\ late' \in BOOLEAN
  BY <1>2 DEF IInv
<1>7. QED
  <2> HIDE DEF s, L
  <2> QED BY <1>1, <1>2, <1>3, <1>5, <1>6, RenamesGood

\* A client exits by its own QUIT.
LEMMA StepQuit ==
  ASSUME IInv, NEW c \in Clients, m_quit(c)
  PROVE  IInv'
<1> DEFINE s == home[c]
           e == tab[s][c]
           q == IF e.reg THEN <<QUIT(e.nick)>> ELSE <<>>
<1>1. s \in Servers /\ link \in [Wires -> Seq(Message)]
  BY NickAssumption DEF IInv
<1>2. e.reg => QUIT(e.nick) \in Message
  BY <1>1, AtServer, MessageTypes DEF IInv
<1>3. UNCHANGED <<fresh, now, late>> /\ given' = given + 1 /\ crossed' \in BOOLEAN
  BY DEF m_quit, give, Leaves, IInv
<1>4. Exits(s, {c}, butone(link, s, s, q))
  BY DEF m_quit
<1>5. q \in Seq(Message)
  BY <1>2
<1>6. butone(link, s, s, q) \in [Wires -> Seq(Message)]
  BY <1>1, <1>5, ButOneGood
<1>7. now' \in Nat /\ given' \in Nat /\ late' \in BOOLEAN
  BY <1>3 DEF IInv
<1>8. QED
  <2> HIDE DEF s, q
  <2> QED BY <1>1, <1>3, <1>4, <1>6, <1>7, ExitsGood

\* A SVSNICK that found no nick ends the client, or who was in its way.
LEMMA StepCollide ==
  ASSUME IInv, NEW c \in Clients, NEW w \in Nicks, NEW n \in Nicks,
         m_svsnick_collide(c, w, n)
  PROVE  IInv'
<1> DEFINE s == home[c]
           e == tab[s][c]
           q == IF Overridden(s, n) = {} THEN <<QUIT(e.nick)>> ELSE <<>>
           D == IF q = <<>> THEN Overridden(s, n) ELSE {c}
<1>1. s \in Servers /\ link \in [Wires -> Seq(Message)]
  BY NickAssumption DEF IInv
<1>2. e.reg => QUIT(e.nick) \in Message
  BY <1>1, AtServer, MessageTypes DEF IInv
<1>3. UNCHANGED <<fresh, now, late>> /\ given' = given + 1 /\ crossed' \in BOOLEAN
  BY DEF m_svsnick_collide, give, Leaves, IInv
<1>4. e.reg /\ Exits(s, D, butone(link, s, s, q))
  BY DEF m_svsnick_collide
<1>5. q \in Seq(Message)
  BY <1>2, <1>4
<1>6. butone(link, s, s, q) \in [Wires -> Seq(Message)]
  BY <1>1, <1>5, ButOneGood
<1>7. now' \in Nat /\ given' \in Nat /\ late' \in BOOLEAN
  BY <1>3 DEF IInv
<1>8. QED
  <2> HIDE DEF s, q, D
  <2> QED BY <1>1, <1>3, <1>4, <1>6, <1>7, ExitsGood

\* Whom a KILL ends has a nick.
LEMMA VictimNamed ==
  ASSUME IInv, NEW s \in Servers, NEW n \in Nicks, NEW v \in Victims(s, n), v # None
  PROVE  v \in Clients /\ tab[s][v].nick \in Nicks
<1>1. CASE Owners(s, n) # {}
  <2>1. v = find_client(s, n)
    BY <1>1 DEF Victims
  <2>2. v \in Owners(s, n)
    BY <2>1, FindClient
  <2>3. QED BY <2>2 DEF Owners
<1>2. CASE Owners(s, n) = {}
  <2>1. v = hist[s][n]
    BY <1>2 DEF Victims
  <2>2. GoodHist(tab[s], hist[s])
    BY AtServer
  <2>3. v \in Clients /\ tab[s][v].reg
    BY <2>1, <2>2 DEF GoodHist
  <2>4. QED BY <2>3, AtServer
<1>3. QED BY <1>1, <1>2

\* An operator's KILL.
LEMMA StepKill ==
  ASSUME IInv, NEW s \in Servers, NEW n \in Nicks, m_kill_local(s, n)
  PROVE  IInv'
<1>1. UNCHANGED <<fresh, now, late>> /\ given' = given + 1 /\ crossed' \in BOOLEAN
  BY DEF m_kill_local, give, Leaves, IInv
<1>2. PICK v \in Victims(s, n) \ {None} :
        Exits(s, {v}, butone(link, s, s, IF home[v] # s THEN <<KILL(tab[s][v].nick)>>
                                         ELSE IF tab[s][v].reg THEN <<QUIT(tab[s][v].nick)>> ELSE <<>>))
  BY DEF m_kill_local
<1> DEFINE q == IF home[v] # s THEN <<KILL(tab[s][v].nick)>>
                ELSE IF tab[s][v].reg THEN <<QUIT(tab[s][v].nick)>> ELSE <<>>
<1>3. tab[s][v].nick \in Nicks
  BY VictimNamed
<1>4. KILL(tab[s][v].nick) \in Message /\ QUIT(tab[s][v].nick) \in Message
  BY <1>3, MessageTypes DEF IInv
<1>5. q \in Seq(Message) /\ link \in [Wires -> Seq(Message)]
  BY <1>4 DEF IInv
<1>6. butone(link, s, s, q) \in [Wires -> Seq(Message)]
  BY <1>5, ButOneGood
<1>7. now' \in Nat /\ given' \in Nat /\ late' \in BOOLEAN
  BY <1>1 DEF IInv
<1>8. QED
  <2> HIDE DEF q
  <2> QED BY <1>1, <1>2, <1>6, <1>7, ExitsGood DEF q

----------------------------------------------------------------------------
(* Messages.                                                               *)

\* A new client enters in the place of whoever has its nick, both exit, or
\* nothing changes.
LEMMA ReceiveNick ==
  ASSUME IInv, NEW s \in Servers, NEW t, NEW l \in [Wires -> Seq(Message)],
         NEW m \in Message, m.type = "NICK", recv_NICK(s, t, l, m),
         UNCHANGED <<fresh, now, given, crossed, late>>
  PROVE  IInv'
<1> DEFINE X == Owners(s, m.nick)
           T == exit(tab[s], X)
           H == off_history(tab[s], hist[s], X)
           r == ruling(s, m.who, m.nick, m.ts)
           q == kill_loser(r, m.nick) \o <<m>>
<1>1. m.who \in Clients \ fresh /\ m.nick \in Nicks /\ m.ts \in Nat
  BY DEF Message
<1>2. fresh \in SUBSET Clients /\ Message' = Message
  BY DEF IInv, Message
<1>3. /\ GoodTab(tab[s]) /\ GoodHist(tab[s], hist[s]) /\ GoodFresh(tab[s], fresh)
      /\ now' \in Nat /\ given' \in Nat /\ crossed' \in BOOLEAN /\ late' \in BOOLEAN
  BY AtServer DEF IInv
<1>4. KILL(m.nick) \in Message
  BY <1>1, MessageTypes
<1>5. CASE r \in {"enter", "replace"}
  <2>1. Ends(s, put(T, m.who, m.nick, m.ts, TRUE), H, butone(l, s, t, q))
    BY <1>5 DEF recv_NICK
  <2>2. kill_loser(r, m.nick) \in Seq(Message) /\ <<m>> \in Seq(Message)
    BY <1>4 DEF kill_loser
  <2>3. q \in Seq(Message)
    BY <2>2, ConcatProperties
  <2>4. butone(l, s, t, q) \in [Wires -> Seq(Message)]
    BY <2>3, ButOneGood
  <2>5. GoodTab(T) /\ GoodHist(T, H) /\ GoodFresh(T, fresh)
    BY <1>2, <1>3, ExitGood
  <2>6. \A d \in Clients \ {m.who} : T[d].nick # m.nick
    BY <1>1, ExitFrees
  <2>7. /\ GoodTab(put(T, m.who, m.nick, m.ts, TRUE))
        /\ GoodHist(put(T, m.who, m.nick, m.ts, TRUE), H)
        /\ GoodFresh(put(T, m.who, m.nick, m.ts, TRUE), fresh)
    <3> HIDE DEF T, H
    <3> QED BY <1>1, <1>2, <2>5, <2>6, PutGood
  <2>8. QED
    <3> HIDE DEF T, H, q
    <3> QED BY <1>2, <1>3, <2>1, <2>4, <2>7, EndsGood
<1>6. CASE r = "both"
  <2>1. Exits(s, X, butone(l, s, s, <<KILL(m.nick)>>))
    BY <1>6 DEF recv_NICK
  <2>2. butone(l, s, s, <<KILL(m.nick)>>) \in [Wires -> Seq(Message)]
    BY <1>4, ButOneSent
  <2>3. QED BY <1>3, <2>1, <2>2, ExitsGood
<1>7. CASE r = "keep"
  <2>1. Ends(s, tab[s], hist[s], l)
    BY <1>7 DEF recv_NICK
  <2>2. QED BY <1>2, <1>3, <2>1, EndsGood
<1>8. QED BY <1>5, <1>6, <1>7 DEF recv_NICK

\* A nick change of a client that is there.
LEMMA ReceiveChange ==
  ASSUME IInv, NEW s \in Servers, NEW t, NEW l \in [Wires -> Seq(Message)],
         NEW m \in Message, m.type = "CHANGE",
         NEW p \in Owners(s, m.prefix), recv_CHANGE(s, t, l, m, p),
         UNCHANGED <<fresh, now, given, crossed, late>>
  PROVE  IInv'
<1> DEFINE X == Owners(s, m.nick)
           r == ruling(s, p, m.nick, m.ts)
           q == kill_loser(r, m.nick) \o <<m>>
<1>1. m.prefix \in Nicks /\ m.nick \in Nicks /\ m.ts \in Nat
  BY DEF Message
<1>2. p \in Clients /\ tab[s][p].nick # None
  BY <1>1, NickAssumption DEF Owners
<1>3. now' \in Nat /\ given' \in Nat /\ crossed' \in BOOLEAN /\ late' \in BOOLEAN /\ fresh' = fresh
  BY DEF IInv
<1>4. KILL(m.nick) \in Message /\ KILL(m.prefix) \in Message
  BY <1>1, MessageTypes
<1>5. CASE r \in {"enter", "replace"}
  <2>1. Renames(s, p, m.prefix, m.nick, m.ts, X, butone(l, s, t, q))
    BY <1>5 DEF recv_CHANGE
  <2>2. kill_loser(r, m.nick) \in Seq(Message) /\ <<m>> \in Seq(Message)
    BY <1>4 DEF kill_loser
  <2>3. q \in Seq(Message)
    BY <2>2, ConcatProperties
  <2>4. butone(l, s, t, q) \in [Wires -> Seq(Message)]
    BY <2>3, ButOneGood
  <2>5. QED
    <3> HIDE DEF q
    <3> QED BY <1>1, <1>2, <1>3, <2>1, <2>4, RenamesGood
<1>6. CASE r = "both"
  <2>1. Exits(s, X \cup {p}, butone(l, s, s, <<KILL(m.prefix), KILL(m.nick)>>))
    BY <1>6 DEF recv_CHANGE
  <2>2. <<KILL(m.prefix), KILL(m.nick)>> \in Seq(Message)
    BY <1>4
  <2>3. butone(l, s, s, <<KILL(m.prefix), KILL(m.nick)>>) \in [Wires -> Seq(Message)]
    BY <2>2, ButOneGood
  <2>4. QED BY <1>3, <2>1, <2>3, ExitsGood
<1>7. CASE r = "keep"
  <2>1. Exits(s, {p}, butone(l, s, t, <<KILL(m.prefix)>>))
    BY <1>7 DEF recv_CHANGE
  <2>2. butone(l, s, t, <<KILL(m.prefix)>>) \in [Wires -> Seq(Message)]
    BY <1>4, ButOneSent
  <2>3. QED BY <1>3, <2>1, <2>2, ExitsGood
<1>8. QED BY <1>5, <1>6, <1>7 DEF recv_CHANGE

\* A KILL, of somebody or of nobody.
LEMMA ReceiveKill ==
  ASSUME IInv, NEW s \in Servers, NEW t, NEW l \in [Wires -> Seq(Message)],
         NEW m \in Message, m.type = "KILL", recv_KILL(s, t, l, m),
         UNCHANGED <<fresh, now, given, crossed>>
  PROVE  IInv'
<1>1. m.nick \in Nicks
  BY DEF Message
<1>2. PICK v \in Victims(s, m.nick) :
        /\ late' = (late \/ (v = None /\ hist[s][m.nick] # None))
        /\ IF v = None THEN Ends(s, tab[s], hist[s], l)
           ELSE Exits(s, {v}, butone(l, s, IF tab[s][v].nick = m.nick THEN t ELSE s,
                                     <<KILL(tab[s][v].nick)>>))
  BY DEF recv_KILL
<1>3. now' \in Nat /\ given' \in Nat /\ crossed' \in BOOLEAN /\ late' \in BOOLEAN /\ fresh' = fresh
  BY <1>2 DEF IInv
<1>4. CASE v = None
  <2>1. Ends(s, tab[s], hist[s], l)
    BY <1>2, <1>4
  <2>2. GoodTab(tab[s]) /\ GoodHist(tab[s], hist[s]) /\ GoodFresh(tab[s], fresh)
    BY AtServer
  <2>3. Message' = Message
    BY DEF Message
  <2>4. QED BY <1>3, <2>1, <2>2, <2>3, EndsGood
<1>5. CASE v # None
  <2> DEFINE u == IF tab[s][v].nick = m.nick THEN t ELSE s
             L == butone(l, s, u, <<KILL(tab[s][v].nick)>>)
  <2>1. Exits(s, {v}, L)
    BY <1>2, <1>5
  <2>2. tab[s][v].nick \in Nicks
    BY <1>1, <1>5, VictimNamed
  <2>3. KILL(tab[s][v].nick) \in Message
    BY <2>2, MessageTypes DEF IInv
  <2>4. L \in [Wires -> Seq(Message)]
    <3> HIDE DEF u
    <3> QED BY <2>3, ButOneSent
  <2>5. QED
    <3> HIDE DEF L
    <3> QED BY <1>3, <2>1, <2>4, ExitsGood
<1>6. QED BY <1>4, <1>5

\* A message is taken from a link and handled.
LEMMA StepReceive ==
  ASSUME IInv, NEW s \in Servers, NEW t \in Servers, <<s, t>> \in Wires, Receive(s, t)
  PROVE  IInv'
<1> DEFINE m == Head(link[<<t, s>>])
           l == [link EXCEPT ![<<t, s>>] = Tail(@)]
           p == find_client(s, m.prefix)
<1>1. <<t, s>> \in Wires /\ link \in [Wires -> Seq(Message)]
  <2>1. {t, s} = {s, t}
    OBVIOUS
  <2>2. QED BY <2>1 DEF Wires, IInv
<1>2. link[<<t, s>>] \in Seq(Message) /\ link[<<t, s>>] # <<>>
  BY <1>1 DEF Receive
<1>3. m \in Message /\ l \in [Wires -> Seq(Message)]
  BY <1>1, <1>2
<1>4. UNCHANGED <<fresh, now, given, crossed>>
  BY DEF Receive
<1>5. CASE m.type = "NICK" /\ recv_NICK(s, t, l, m) /\ UNCHANGED late
  <2> HIDE DEF m, l
  <2> QED BY <1>3, <1>4, <1>5, ReceiveNick
<1>6. CASE m.type = "KILL" /\ recv_KILL(s, t, l, m)
  <2> HIDE DEF m, l
  <2> QED BY <1>3, <1>4, <1>6, ReceiveKill
<1>7. CASE m.type \in {"CHANGE", "QUIT"} /\ UNCHANGED late
           /\ \/ p = None /\ remove_unknown(s, t, l, m)
              \/ p # None /\ from(s, p) # t /\ Ends(s, tab[s], hist[s], l)
              \/ p # None /\ from(s, p) = t /\ m.type = "CHANGE" /\ recv_CHANGE(s, t, l, m, p)
              \/ p # None /\ from(s, p) = t /\ m.type = "QUIT" /\ recv_QUIT(s, t, l, p)
  <2> HIDE DEF m, l
  <2>1. m.prefix \in Nicks
    BY <1>3, <1>7 DEF Message
  <2>2. /\ GoodTab(tab[s]) /\ GoodHist(tab[s], hist[s]) /\ GoodFresh(tab[s], fresh)
        /\ Message' = Message /\ fresh' = fresh
        /\ now' \in Nat /\ given' \in Nat /\ crossed' \in BOOLEAN /\ late' \in BOOLEAN
    BY <1>4, <1>7, AtServer DEF IInv, Message
  <2>3. p # None => p \in Owners(s, m.prefix)
    BY <2>1, FindClient
  <2>4. CASE remove_unknown(s, t, l, m)
    <3> DEFINE L == [l EXCEPT ![<<s, t>>] = Append(@, KILL(m.prefix))]
    <3>1. KILL(m.prefix) \in Message
      BY <2>1, MessageTypes DEF IInv
    <3>2. L \in [Wires -> Seq(Message)]
      BY <1>3, <3>1
    <3>3. Ends(s, tab[s], hist[s], L)
      BY <2>4 DEF remove_unknown
    <3>4. QED
      <4> HIDE DEF L
      <4> QED BY <2>2, <3>2, <3>3, EndsGood
  <2>5. CASE Ends(s, tab[s], hist[s], l)
    BY <1>3, <2>2, <2>5, EndsGood
  <2>6. CASE p # None /\ m.type = "CHANGE" /\ recv_CHANGE(s, t, l, m, p)
    <3> HIDE DEF p
    <3> QED BY <1>3, <1>4, <1>7, <2>3, <2>6, ReceiveChange
  <2>7. CASE p # None /\ recv_QUIT(s, t, l, p)
    <3>1. tab[s][p].nick = m.prefix
      BY <2>3, <2>7 DEF Owners
    <3>2. QUIT(tab[s][p].nick) \in Message
      BY <2>1, <3>1, MessageTypes DEF IInv
    <3>3. butone(l, s, t, <<QUIT(tab[s][p].nick)>>) \in [Wires -> Seq(Message)]
      BY <1>3, <3>2, ButOneSent
    <3>4. Exits(s, {p}, butone(l, s, t, <<QUIT(tab[s][p].nick)>>))
      BY <2>7 DEF recv_QUIT
    <3>5. QED BY <2>2, <3>3, <3>4, ExitsGood
  <2>8. QED
    BY <1>7, <2>4, <2>5, <2>6, <2>7
<1>8. QED
  BY <1>5, <1>6, <1>7 DEF Receive

----------------------------------------------------------------------------
(* The theorems.                                                           *)

\* Every step keeps the invariant.
LEMMA NextIInv == IInv /\ [Next]_vars => IInv'
<1> SUFFICES ASSUME IInv, [Next]_vars PROVE IInv'
  OBVIOUS
<1>1. ASSUME NEW c \in Clients, register_user(c) PROVE IInv'
  BY <1>1, StepRegister
<1>2. ASSUME NEW c \in Clients, m_quit(c) PROVE IInv'
  BY <1>2, StepQuit
<1>3. ASSUME NEW c \in Clients, NEW n \in Nicks,
             m_nick_first(c, n) \/ m_nick_unregistered(c, n) \/ m_nick_local(c, n)
      PROVE  IInv'
  BY <1>3, StepFirst, StepUnregistered, StepLocal
<1>4. ASSUME NEW c \in Clients, NEW w \in Nicks, NEW n \in Nicks, m_svsnick_collide(c, w, n)
      PROVE  IInv'
  BY <1>4, StepCollide
<1>5. ASSUME NEW c \in Clients, NEW w \in Nicks, NEW n \in Nicks, NEW t \in 1..MaxTime,
             m_svsnick(c, w, n, t)
      PROVE  IInv'
  <2>1. t \in Nat
    BY NickAssumption
  <2>2. QED BY <1>5, <2>1, StepSvsnick
<1>6. ASSUME NEW s \in Servers, NEW n \in Nicks, m_kill_local(s, n) PROVE IInv'
  BY <1>6, StepKill
<1>7. ASSUME NEW e \in Wires, Receive(e[1], e[2]) PROVE IInv'
  <2>1. e[1] \in Servers /\ e[2] \in Servers /\ <<e[1], e[2]>> \in Wires
    BY DEF Wires
  <2>2. QED BY <1>7, <2>1, StepReceive
<1>8. ASSUME Tick \/ UNCHANGED vars PROVE IInv'
  <2>1. UNCHANGED <<tab, hist, link, fresh, given, crossed, late>> /\ now' \in Nat
    BY <1>8 DEF Tick, vars, IInv
  <2>2. Message' = Message
    BY <2>1 DEF Message
  <2>3. QED BY <2>1, <2>2 DEF IInv
<1>9. QED
  BY <1>1, <1>2, <1>3, <1>4, <1>5, <1>6, <1>7, <1>8 DEF Next

\* What the invariant says of one server, it says of all.
LEMMA IInvImplies == IInv => TypeOK /\ NickUnique /\ HistSound
<1> SUFFICES ASSUME IInv PROVE TypeOK /\ NickUnique /\ HistSound
  OBVIOUS
<1>1. TypeOK
  BY DEF IInv, TypeOK
<1>2. NickUnique
  BY AtServer DEF NickUnique, GoodTab
<1>3. HistSound
  BY AtServer DEF HistSound, GoodHist
<1>4. QED BY <1>1, <1>2, <1>3

\* The invariant holds always.
LEMMA AlwaysIInv == Spec => []IInv
BY InitIInv, NextIInv, PTL DEF Spec

\* The state stays well formed: every NICK on a link is of a client that has
\* connected, and every other message names a nick (sendto_serv_butone).
THEOREM NickTypeCorrect == Spec => []TypeOK
BY AlwaysIInv, IInvImplies, PTL

\* No server ever has two clients under one nick, however NICKs, nick
\* changes, KILLs and QUITs of any servers cross (m_nick).
THEOREM NicksUnique == Spec => []NickUnique
BY AlwaysIInv, IInvImplies, PTL

\* The WHOWAS entry that m_kill chases never points to a client that has
\* exited (off_history in remove_client_from_list).
THEOREM HistorySound == Spec => []HistSound
BY AlwaysIInv, IInvImplies, PTL

\* A server's tables are sound after every message (m_nick, m_kill, exit_client).
THEOREM NickTablesSound == Spec => []NickTables
BY NickTypeCorrect, NicksUnique, HistorySound, PTL DEF NickTables

----------------------------------------------------------------------------
(* Module Umodes.                                                          *)

PeopleTabs == [Chatters -> People \cup {Nobody}]
Plain      == Letters \ {"r"}
UserMsgs   == [cmd : {"NICK"}, user : Chatters, umode : SUBSET Plain]
                \cup [cmd : {"QUIT", "NEWNICK"}, user : Chatters]
                \cup [cmd : {"MODE"}, user : Chatters, change : [add : SUBSET Plain, del : SUBSET Letters]]
SvsMsgs    == [cmd : {"SVSMODE"}, user : Chatters, nick : Nat,
               change : [add : SUBSET Letters, del : SUBSET Letters]]
PastRecs   == [steps : Nat, granted : SUBSET (Chatters \X Nat), crossed : SUBSET Chatters,
               drifted : BOOLEAN]

\* The user p after message m.
Svs(p, k, ch) ==
  IF p # Nobody /\ p.nick = k
  THEN [p EXCEPT !.umode = Applied(p.umode, [add |-> ch.add \ {"o", "O"}, del |-> ch.del])]
  ELSE p
After(p, m) ==
  CASE m.cmd = "NICK"    -> [nick |-> 0, umode |-> m.umode]
    [] m.cmd = "QUIT"    -> Nobody
    [] m.cmd = "NEWNICK" -> renamed(p)
    [] m.cmd = "MODE"    -> [p EXCEPT !.umode = Applied(p.umode, m.change)]
    [] m.cmd = "SVSMODE" -> Svs(p, m.nick, m.change)

\* A NICK introduces a user that is not there, other messages are about one that is.
Presence(p) == IF p = Nobody THEN "out" ELSE "in"
Fits == {t \in {"in", "out"} \X UserMsgs \X {"in", "out"} :
           /\ t[1] = IF t[2].cmd = "NICK" THEN "out" ELSE "in"
           /\ t[3] = IF t[2].cmd = "QUIT" THEN "out" ELSE "in"}
Does == {t \in (People \cup {Nobody}) \X (UserMsgs \cup SvsMsgs) \X (People \cup {Nobody}) :
           t[3] = After(t[1], t[2])}

\* The messages of q about c lead from a to b, each by a step of R.
Course(q, c, a, b, R) ==
  \E F : /\ F[0] = a /\ F[Len(q)] = b
         /\ \A i \in 1 .. Len(q) : IF q[i].user = c THEN <<F[i - 1], q[i], F[i]>> \in R
                                   ELSE F[i] = F[i - 1]
Silent(q, c) == \A i \in 1 .. Len(q) : q[i].user # c

\* What the two servers have of user c, a and b, while q1 and q2 are under way: a server
\* that is behind gets there by the messages, unless X says that they crossed.
Seen(c, q1, q2, a, b, X, G) ==
  /\ Course(q2, c, Presence(b), Presence(a), Fits)
  /\ c \notin X => \/ Silent(q1, c) /\ Course(q2, c, b, a, Does)
                   \/ Silent(q2, c) /\ Course(q1, c, a, b, Does)
  /\ \A p \in {a, b} : p # Nobody /\ "r" \in p.umode => <<c, p.nick>> \in G
  /\ \A i \in 1 .. Len(q1) : q1[i].user = c /\ "r" \in q1[i].change.add => <<c, q1[i].nick>> \in G

OpersIn(k)  == {c \in Chatters : k[c] # Nobody /\ IsAnOper(k[c].umode)}
HiddenIn(k) == {c \in Chatters : k[c] # Nobody /\ Invisible(k[c].umode)}
Tally(k)    == [oper |-> Cardinality(OpersIn(k)), invisi |-> Cardinality(HiddenIn(k))]
Mild(q)     == \A i \in 1 .. Len(q) : q[i].change.add \cup q[i].change.del = {"r"}

Listing(l, k) == l \in Seq(Chatters) /\ IsInjective(l) /\ Range(l) = OpersIn(k)
Blocks(o, at, k) ==
  /\ o \in [Chatters -> OperBlocks \cup {Nobody}] /\ at \in [OperBlocks -> Int]
  /\ \A c \in OpersIn(k) : o[c] # Nobody
  /\ \A b \in OperBlocks : at[b] >= Cardinality({c \in Chatters : o[c] = b})

UmodeTypes ==
  /\ known \in [Both -> PeopleTabs] /\ counts \in [Both -> [oper : Int, invisi : Int]]
  /\ toward \in [Both -> Seq(UserMsgs \cup SvsMsgs)]
  /\ toward[1] \in Seq(SvsMsgs) /\ toward[2] \in Seq(UserMsgs) /\ past \in PastRecs
UmodeCounts == past.drifted = FALSE => /\ counts[1] = Tally(known[1]) /\ counts[2] = Tally(known[2])
                                       /\ Mild(toward[1])
UmodeSeen == \A c \in Chatters :
  Seen(c, toward[1], toward[2], known[1][c], known[2][c], past.crossed, past.granted)

UmodeInv == /\ UmodeTypes /\ Listing(operList, known[1]) /\ Blocks(oper, attached, known[1])
            /\ UmodeCounts /\ UmodeSeen

----------------------------------------------------------------------------
(* The courses of messages.                                                *)

LEMMA CourseAppend ==
  ASSUME NEW M, NEW q \in Seq(M), NEW m \in M, NEW c, NEW a, NEW b, NEW y, NEW R, Course(q, c, a, b, R),
         NEW r, r = Append(q, m), IF m.user = c THEN <<b, m, y>> \in R ELSE y = b
  PROVE  Course(r, c, a, y, R)
<1>1. PICK F : /\ F[0] = a /\ F[Len(q)] = b
               /\ \A i \in 1 .. Len(q) : IF q[i].user = c THEN <<F[i - 1], q[i], F[i]>> \in R
                                         ELSE F[i] = F[i - 1]
  BY DEF Course
<1>2. PICK n \in Nat : n = Len(q)
  OBVIOUS
<1>3. Len(r) = n + 1 /\ r[n + 1] = m /\ \A i \in 1 .. n : r[i] = q[i]
  BY <1>2
<1>4. PICK H : H = [i \in 0 .. n + 1 |-> IF i = n + 1 THEN y ELSE F[i]]
  OBVIOUS
<1>5. H[0] = a /\ H[n + 1] = y /\ H[n] = b /\ \A i \in 0 .. n : H[i] = F[i]
  BY <1>1, <1>2, <1>4
<1>6. ASSUME NEW i \in 1 .. n + 1
      PROVE  IF r[i].user = c THEN <<H[i - 1], r[i], H[i]>> \in R ELSE H[i] = H[i - 1]
  <2>1. CASE i = n + 1
    <3>1. i - 1 = n
      BY <2>1
    <3>2. r[i] = m /\ H[i] = y /\ H[i - 1] = b
      BY <1>3, <1>5, <2>1, <3>1
    <3> QED BY <3>2
  <2>2. CASE i # n + 1
    <3>1. i \in 1 .. n /\ i - 1 \in 0 .. n /\ i \in 0 .. n
      BY <2>2
    <3>2. H[i] = F[i] /\ H[i - 1] = F[i - 1] /\ r[i] = q[i]
      BY <1>3, <1>5, <3>1
    <3> QED BY <1>1, <1>2, <3>1, <3>2
  <2> QED BY <2>1, <2>2
<1> QED BY <1>3, <1>5, <1>6 DEF Course

LEMMA CourseTail ==
  ASSUME NEW M, NEW q \in Seq(M), q # << >>, NEW c, NEW a, NEW b, NEW R, Course(q, c, a, b, R),
         NEW r, r = Tail(q)
  PROVE  /\ Head(q).user = c => \E y : Course(r, c, y, b, R) /\ <<a, Head(q), y>> \in R
         /\ Head(q).user # c => Course(r, c, a, b, R)
<1>1. PICK F : /\ F[0] = a /\ F[Len(q)] = b
               /\ \A i \in 1 .. Len(q) : IF q[i].user = c THEN <<F[i - 1], q[i], F[i]>> \in R
                                         ELSE F[i] = F[i - 1]
  BY DEF Course
<1>2. PICK n \in Nat : Len(q) = n + 1
  <2>1. Len(q) \in Nat /\ Len(q) # 0
    OBVIOUS
  <2>2. Len(q) - 1 \in Nat /\ Len(q) = (Len(q) - 1) + 1
    BY <2>1
  <2> QED BY <2>2
<1>3. Len(r) = n /\ Head(q) = q[1] /\ \A i \in 1 .. n : r[i] = q[i + 1]
  BY <1>2
<1>4. PICK H : H = [i \in 0 .. n |-> F[i + 1]]
  OBVIOUS
<1>5. \A i \in 0 .. n : H[i] = F[i + 1]
  BY <1>4
<1>6. ASSUME NEW i \in 1 .. n
      PROVE  IF r[i].user = c THEN <<H[i - 1], r[i], H[i]>> \in R ELSE H[i] = H[i - 1]
  <2>1. PICK j \in 1 .. n + 1 : j = i + 1
    OBVIOUS
  <2>2. r[i] = q[j] /\ H[i] = F[j]
    BY <1>3, <1>5, <2>1
  <2>3. H[i - 1] = F[j - 1]
    <3>1. i - 1 \in 0 .. n /\ (i - 1) + 1 = j - 1
      BY <2>1
    <3> QED BY <1>5, <3>1
  <2> QED BY <1>1, <1>2, <2>2, <2>3
<1>7. H[0] = F[1] /\ H[n] = b
  BY <1>1, <1>2, <1>5
<1>8. Course(r, c, F[1], b, R)
  BY <1>3, <1>6, <1>7 DEF Course
<1>9. IF Head(q).user = c THEN <<a, Head(q), F[1]>> \in R ELSE F[1] = a
  <2>1. 1 \in 1 .. Len(q) /\ 1 - 1 = 0
    BY <1>2
  <2>2. IF q[1].user = c THEN <<F[1 - 1], q[1], F[1]>> \in R ELSE F[1] = F[1 - 1]
    BY <1>1, <2>1
  <2> QED BY <1>1, <1>3, <2>1, <2>2
<1> QED BY <1>8, <1>9, SMTT(30)

\* Where there is no message about c nothing changes.
LEMMA CourseSilent ==
  ASSUME NEW M, NEW q \in Seq(M), NEW c, Silent(q, c), NEW a, NEW b, NEW R
  PROVE  /\ Course(q, c, a, a, R)
         /\ Course(q, c, a, b, R) => a = b
<1>1. PICK n \in Nat : n = Len(q)
  OBVIOUS
<1>2. Course(q, c, a, a, R)
  <2>1. PICK H : H = [i \in 0 .. n |-> a]
    OBVIOUS
  <2>2. \A i \in 0 .. n : H[i] = a
    BY <2>1
  <2>3. H[0] = a /\ H[n] = a
    BY <2>2
  <2>4. \A i \in 1 .. n : q[i].user # c /\ H[i] = H[i - 1]
    BY <1>1, <2>2 DEF Silent
  <2> QED BY <1>1, <2>3, <2>4 DEF Course
<1>3. ASSUME Course(q, c, a, b, R) PROVE a = b
  <2>1. PICK F : /\ F[0] = a /\ F[Len(q)] = b
                 /\ \A i \in 1 .. Len(q) : IF q[i].user = c THEN <<F[i - 1], q[i], F[i]>> \in R
                                           ELSE F[i] = F[i - 1]
    BY <1>3 DEF Course
  <2>2. \A i \in 1 .. n : F[i] = F[i - 1]
    BY <1>1, <2>1 DEF Silent
  <2>3. PICK S : S = {i \in 0 .. n : F[i] = a}
    OBVIOUS
  <2>4. 0 \in S
    BY <2>1, <2>3
  <2>5. ASSUME NEW i \in 0 .. n - 1, i \in S PROVE i + 1 \in S
    <3>1. i + 1 \in 1 .. n /\ (i + 1) - 1 = i /\ i + 1 \in 0 .. n
      OBVIOUS
    <3>2. F[i + 1] = F[i]
      BY <2>2, <3>1
    <3> QED BY <2>3, <2>5, <3>1, <3>2
  <2>6. \A i \in 0 .. n - 1 : i \in S => i + 1 \in S
    BY <2>5
  <2>7. \A i \in 0 .. n : i \in S
    BY <2>4, <2>6, InductUpTo
  <2>8. n \in S
    BY <2>7
  <2> QED BY <1>1, <2>1, <2>3, <2>8
<1> QED BY <1>2, <1>3

LEMMA SilentKept ==
  ASSUME NEW M, NEW q \in Seq(M), NEW c, Silent(q, c)
  PROVE  /\ \A m \in M : m.user # c => Silent(Append(q, m), c)
         /\ q # << >> => Silent(Tail(q), c) /\ Head(q).user # c
<1>1. ASSUME NEW m \in M, m.user # c PROVE Silent(Append(q, m), c)
  BY <1>1 DEF Silent
<1>2. ASSUME q # << >> PROVE Silent(Tail(q), c) /\ Head(q).user # c
  BY <1>2 DEF Silent
<1> QED BY <1>1, <1>2

----------------------------------------------------------------------------
(* Messages.                                                               *)

LEMMA UserMsg ==
  ASSUME NEW m \in UserMsgs
  PROVE  /\ m.user \in Chatters /\ m.cmd \in {"NICK", "QUIT", "NEWNICK", "MODE"}
         /\ m.cmd = "NICK" => m.umode \in SUBSET Plain
         /\ m.cmd = "MODE" => m.change.add \in SUBSET Plain /\ m.change.del \in SUBSET Letters
  BY DEF UserMsgs

LEMMA SvsMsg ==
  ASSUME NEW m \in SvsMsgs
  PROVE  /\ m.user \in Chatters /\ m.cmd = "SVSMODE" /\ m.nick \in Nat
         /\ m.change.add \in SUBSET Letters /\ m.change.del \in SUBSET Letters
  BY DEF SvsMsgs

LEMMA PersonFields ==
  ASSUME NEW p \in People
  PROVE  /\ p # Nobody /\ p.nick \in Nat /\ p.umode \in SUBSET Letters
         /\ \A um \in SUBSET Letters : LET z == [p EXCEPT !.umode = um]
              IN z \in People /\ z.umode = um /\ z.nick = p.nick
  BY UmodesNull DEF People

\* What a message makes of a user, and that +r comes from services only.
LEMMA AfterUser ==
  ASSUME NEW m \in UserMsgs, NEW p \in People \cup {Nobody}, m.cmd = "NICK" <=> p = Nobody
  PROVE  /\ After(p, m) \in People \cup {Nobody}
         /\ After(p, m) = Nobody <=> m.cmd = "QUIT"
         /\ After(p, m) # Nobody /\ "r" \in After(p, m).umode
              => p # Nobody /\ "r" \in p.umode /\ After(p, m).nick = p.nick
<1>1. CASE m.cmd = "NICK"
  <2>1. PICK z : z = [nick |-> 0, umode |-> m.umode]
    OBVIOUS
  <2>2. z \in People /\ "r" \notin z.umode
    BY <1>1, <2>1, UserMsg DEF People, Plain
  <2>3. After(p, m) = z
    BY <1>1, <2>1 DEF After
  <2> QED BY <1>1, <2>2, <2>3, PersonFields
<1>2. CASE m.cmd = "QUIT"
  BY <1>2 DEF After
<1>3. CASE m.cmd = "NEWNICK"
  <2>1. p \in People /\ p.nick \in Nat /\ p.umode \in SUBSET Letters
    BY <1>3, PersonFields
  <2>2. PICK z : z = renamed(p)
    OBVIOUS
  <2>3. z \in People /\ "r" \notin z.umode
    BY <2>1, <2>2 DEF renamed, People
  <2>4. After(p, m) = z
    BY <1>3, <2>2 DEF After
  <2> QED BY <1>3, <2>3, <2>4, PersonFields
<1>4. CASE m.cmd = "MODE"
  <2>1. p \in People /\ p.umode \in SUBSET Letters
    BY <1>4, PersonFields
  <2>2. PICK um : um = Applied(p.umode, m.change)
    OBVIOUS
  <2>3. um \in SUBSET Letters /\ ("r" \in um => "r" \in p.umode)
    BY <1>4, <2>1, <2>2, UserMsg DEF Applied, Plain
  <2>4. PICK z : z = [p EXCEPT !.umode = um]
    OBVIOUS
  <2>5. z \in People /\ z.umode = um /\ z.nick = p.nick /\ z # Nobody
    BY <2>1, <2>3, <2>4, PersonFields
  <2>6. After(p, m) = z
    BY <1>4, <2>2, <2>4 DEF After
  <2> QED BY <1>4, <2>1, <2>3, <2>5, <2>6, PersonFields
<1> QED BY <1>1, <1>2, <1>3, <1>4, UserMsg

LEMMA AfterSvs ==
  ASSUME NEW m \in SvsMsgs, NEW p \in People \cup {Nobody}
  PROVE  /\ After(p, m) \in People \cup {Nobody}
         /\ After(p, m) = Nobody <=> p = Nobody
         /\ After(p, m) = Svs(p, m.nick, m.change)
         /\ After(p, m) # Nobody /\ "r" \in After(p, m).umode
              => /\ After(p, m).nick = p.nick
                 /\ "r" \in p.umode \/ ("r" \in m.change.add /\ p.nick = m.nick)
<1>1. After(p, m) = Svs(p, m.nick, m.change)
  BY SvsMsg DEF After
<1>2. CASE p # Nobody /\ p.nick = m.nick
  <2>1. p \in People /\ p.umode \in SUBSET Letters
    BY <1>2, PersonFields
  <2>2. PICK um : um = Applied(p.umode, [add |-> m.change.add \ {"o", "O"}, del |-> m.change.del])
    OBVIOUS
  <2>3. um \in SUBSET Letters /\ ("r" \in um => "r" \in p.umode \/ "r" \in m.change.add)
    BY <2>1, <2>2, SvsMsg DEF Applied
  <2>4. PICK z : z = [p EXCEPT !.umode = um]
    OBVIOUS
  <2>5. z \in People /\ z.umode = um /\ z.nick = p.nick /\ z # Nobody
    BY <2>1, <2>3, <2>4, PersonFields
  <2>6. After(p, m) = z
    BY <1>1, <1>2, <2>2, <2>4 DEF Svs
  <2> QED BY <1>1, <1>2, <2>3, <2>5, <2>6
<1>3. CASE ~ (p # Nobody /\ p.nick = m.nick)
  BY <1>1, <1>3 DEF Svs
<1> QED BY <1>2, <1>3

LEMMA FitsIff ==
  ASSUME NEW m \in UserMsgs, NEW x, NEW y, <<x, m, y>> \in Fits
  PROVE  /\ x = IF m.cmd = "NICK" THEN "out" ELSE "in"
         /\ y = IF m.cmd = "QUIT" THEN "out" ELSE "in"
  BY DEF Fits

LEMMA FitsNow ==
  ASSUME NEW m \in UserMsgs, NEW p \in People \cup {Nobody}, m.cmd = "NICK" <=> p = Nobody,
         NEW z, z = After(p, m)
  PROVE  <<Presence(p), m, Presence(z)>> \in Fits
<1>1. z = Nobody <=> m.cmd = "QUIT"
  BY AfterUser
<1>2. PICK x, y : x = Presence(p) /\ y = Presence(z)
  OBVIOUS
<1>3. /\ x = IF m.cmd = "NICK" THEN "out" ELSE "in"
      /\ y = IF m.cmd = "QUIT" THEN "out" ELSE "in"
  BY <1>1, <1>2 DEF Presence
<1>4. <<x, m, y>> \in Fits
  BY <1>3 DEF Fits
<1> QED BY <1>2, <1>4

LEMMA DoesIff ==
  ASSUME NEW m \in UserMsgs \cup SvsMsgs, NEW x, NEW y
  PROVE  /\ <<x, m, y>> \in Does => y = After(x, m)
         /\ x \in People \cup {Nobody} /\ y \in People \cup {Nobody} /\ y = After(x, m) => <<x, m, y>> \in Does
<1>1. ASSUME <<x, m, y>> \in Does PROVE y = After(x, m)
  BY <1>1 DEF Does
<1>2. ASSUME x \in People \cup {Nobody}, y \in People \cup {Nobody}, y = After(x, m) PROVE <<x, m, y>> \in Does
  BY <1>2 DEF Does
<1> QED BY <1>1, <1>2

----------------------------------------------------------------------------
(* What the servers know of one user.                                      *)

\* The user's own server says m of user c, which server 2 will hear.
LEMMA SeenSaid ==
  ASSUME NEW c \in Chatters, NEW q1 \in Seq(SvsMsgs), NEW q2 \in Seq(UserMsgs),
         NEW a \in People, NEW b \in People \cup {Nobody}, NEW X, NEW G, Seen(c, q1, q2, a, b, X, G),
         NEW m \in UserMsgs, m.user = c, m.cmd # "NICK", NEW r, r = Append(q2, m),
         NEW z, z = After(a, m), NEW Y, X \subseteq Y, Silent(q1, c) \/ c \in Y
  PROVE  Seen(c, q1, r, z, b, Y, G)
<1>0. a \in People \cup {Nobody} /\ a # Nobody
  BY PersonFields
<1>1. /\ z \in People \cup {Nobody}
      /\ z # Nobody /\ "r" \in z.umode => "r" \in a.umode /\ z.nick = a.nick
  BY <1>0, AfterUser
<1>2. Course(r, c, Presence(b), Presence(z), Fits)
  <2>1. <<Presence(a), m, Presence(z)>> \in Fits
    BY <1>0, FitsNow
  <2>2. Course(q2, c, Presence(b), Presence(a), Fits)
    BY DEF Seen
  <2> QED BY <2>1, <2>2, CourseAppend
<1>3. ASSUME c \notin Y
      PROVE  Silent(q1, c) /\ Course(r, c, b, z, Does)
  <2>1. c \notin X /\ Silent(q1, c)
    BY <1>3
  <2>2. Course(q2, c, b, a, Does)
    <3>1. CASE Course(q2, c, b, a, Does)
      BY <3>1
    <3>2. CASE Silent(q2, c) /\ Course(q1, c, a, b, Does)
      <4>1. a = b
        BY <2>1, <3>2, CourseSilent
      <4> QED BY <3>2, <4>1, CourseSilent
    <3> QED BY <2>1, <3>1, <3>2 DEF Seen
  <2>3. <<a, m, z>> \in Does
    BY <1>0, <1>1, DoesIff
  <2> QED BY <2>1, <2>2, <2>3, CourseAppend
<1>4. \A p \in {z, b} : p # Nobody /\ "r" \in p.umode => <<c, p.nick>> \in G
  BY <1>0, <1>1 DEF Seen
<1>5. \A i \in 1 .. Len(q1) : q1[i].user = c /\ "r" \in q1[i].change.add => <<c, q1[i].nick>> \in G
  BY DEF Seen
<1> QED BY <1>2, <1>3, <1>4, <1>5 DEF Seen

\* Services say m of user c, which its own server will hear.
LEMMA SeenForced ==
  ASSUME NEW c \in Chatters, NEW q1 \in Seq(SvsMsgs), NEW q2 \in Seq(UserMsgs),
         NEW a \in People \cup {Nobody}, NEW b \in People, NEW X, NEW G, Seen(c, q1, q2, a, b, X, G),
         NEW m \in SvsMsgs, m.user = c, m.nick = b.nick, NEW r, r = Append(q1, m),
         NEW z, z = After(b, m), NEW Y, X \subseteq Y, Silent(q2, c) \/ c \in Y,
         NEW H, G \subseteq H, "r" \in m.change.add => <<c, m.nick>> \in H
  PROVE  Seen(c, r, q2, a, z, Y, H)
<1>0. b \in People \cup {Nobody} /\ b # Nobody
  BY PersonFields
<1>1. /\ z \in People \cup {Nobody} /\ z # Nobody
      /\ "r" \in z.umode => z.nick = b.nick /\ ("r" \in b.umode \/ "r" \in m.change.add)
  BY <1>0, AfterSvs
<1>2. Course(q2, c, Presence(z), Presence(a), Fits)
  BY <1>0, <1>1 DEF Seen, Presence
<1>3. ASSUME c \notin Y
      PROVE  Silent(q2, c) /\ Course(r, c, a, z, Does)
  <2>1. c \notin X /\ Silent(q2, c)
    BY <1>3
  <2>2. Course(q1, c, a, b, Does)
    <3>1. CASE Course(q1, c, a, b, Does)
      BY <3>1
    <3>2. CASE Silent(q1, c) /\ Course(q2, c, b, a, Does)
      <4>1. b = a
        BY <2>1, <3>2, CourseSilent
      <4> QED BY <3>2, <4>1, CourseSilent
    <3> QED BY <2>1, <3>1, <3>2 DEF Seen
  <2>3. <<b, m, z>> \in Does
    BY <1>0, <1>1, DoesIff
  <2> QED BY <2>1, <2>2, <2>3, CourseAppend
<1>4. \A p \in {a, z} : p # Nobody /\ "r" \in p.umode => <<c, p.nick>> \in H
  BY <1>0, <1>1 DEF Seen
<1>5. ASSUME NEW i \in 1 .. Len(r), r[i].user = c, "r" \in r[i].change.add PROVE <<c, r[i].nick>> \in H
  <2>1. CASE i \in 1 .. Len(q1)
    <3>1. r[i] = q1[i]
      BY <2>1
    <3> QED BY <1>5, <2>1, <3>1 DEF Seen
  <2>2. CASE i \notin 1 .. Len(q1)
    <3>1. r[i] = m
      BY <2>2
    <3> QED BY <1>5, <3>1
  <2> QED BY <2>1, <2>2
<1> QED BY <1>2, <1>3, <1>4, <1>5 DEF Seen

\* Server 2 hears what is said of user c.
LEMMA SeenHeard ==
  ASSUME NEW c \in Chatters, NEW q1 \in Seq(SvsMsgs), NEW q2 \in Seq(UserMsgs), q2 # << >>,
         NEW a \in People \cup {Nobody}, NEW b \in People \cup {Nobody}, NEW X, NEW G,
         Seen(c, q1, q2, a, b, X, G), Head(q2).user = c, NEW r, r = Tail(q2),
         NEW z, z = After(b, Head(q2))
  PROVE  /\ Seen(c, q1, r, a, z, X, G)
         /\ Head(q2).cmd = "NICK" <=> b = Nobody
<1>1. PICK m \in UserMsgs : m = Head(q2)
  OBVIOUS
<1>2. PICK y : Course(r, c, y, Presence(a), Fits) /\ <<Presence(b), m, y>> \in Fits
  <2>1. Course(q2, c, Presence(b), Presence(a), Fits)
    BY DEF Seen
  <2> QED BY <1>1, <2>1, CourseTail
<1>3. m.cmd = "NICK" <=> b = Nobody
  BY <1>2, FitsIff DEF Presence
<1>4. /\ z \in People \cup {Nobody} /\ (z = Nobody <=> m.cmd = "QUIT")
      /\ z # Nobody /\ "r" \in z.umode => b # Nobody /\ "r" \in b.umode /\ z.nick = b.nick
  BY <1>1, <1>3, AfterUser
<1>5. y = Presence(z)
  BY <1>2, <1>4, FitsIff DEF Presence
<1>6. ASSUME c \notin X PROVE Silent(q1, c) /\ Course(r, c, z, a, Does)
  <2>1. ~ Silent(q2, c)
    BY SilentKept
  <2>2. Silent(q1, c) /\ Course(q2, c, b, a, Does)
    BY <1>6, <2>1 DEF Seen
  <2>3. PICK w : Course(r, c, w, a, Does) /\ <<b, m, w>> \in Does
    BY <1>1, <2>2, CourseTail
  <2>4. w = z
    BY <1>1, <2>3, DoesIff
  <2> QED BY <2>2, <2>3, <2>4
<1>7. \A p \in {a, z} : p # Nobody /\ "r" \in p.umode => <<c, p.nick>> \in G
  BY <1>4 DEF Seen
<1>8. \A i \in 1 .. Len(q1) : q1[i].user = c /\ "r" \in q1[i].change.add => <<c, q1[i].nick>> \in G
  BY DEF Seen
<1>9. Seen(c, q1, r, a, z, X, G)
  BY <1>2, <1>5, <1>6, <1>7, <1>8 DEF Seen
<1> QED BY <1>1, <1>3, <1>9

\* The user's own server hears what services say of user c.
LEMMA SeenObeyed ==
  ASSUME NEW c \in Chatters, NEW q1 \in Seq(SvsMsgs), q1 # << >>, NEW q2 \in Seq(UserMsgs),
         NEW a \in People \cup {Nobody}, NEW b \in People \cup {Nobody}, NEW X, NEW G,
         Seen(c, q1, q2, a, b, X, G), Head(q1).user = c, NEW r, r = Tail(q1),
         NEW z, z = After(a, Head(q1))
  PROVE  Seen(c, r, q2, z, b, X, G)
<1>1. PICK m \in SvsMsgs : m = Head(q1)
  OBVIOUS
<1>2. /\ z \in People \cup {Nobody} /\ (z = Nobody <=> a = Nobody)
      /\ z # Nobody /\ "r" \in z.umode => z.nick = a.nick /\ ("r" \in a.umode \/ ("r" \in m.change.add /\ a.nick = m.nick))
  BY <1>1, AfterSvs
<1>3. Course(q2, c, Presence(b), Presence(z), Fits)
  BY <1>2 DEF Seen, Presence
<1>4. ASSUME c \notin X PROVE Silent(q2, c) /\ Course(r, c, z, b, Does)
  <2>1. ~ Silent(q1, c)
    BY SilentKept
  <2>2. Silent(q2, c) /\ Course(q1, c, a, b, Does)
    BY <1>4, <2>1 DEF Seen
  <2>3. PICK w : Course(r, c, w, b, Does) /\ <<a, m, w>> \in Does
    BY <1>1, <2>2, CourseTail
  <2>4. w = z
    BY <1>1, <2>3, DoesIff
  <2> QED BY <2>2, <2>3, <2>4
<1>5. \A i \in 1 .. Len(q1) : q1[i].user = c /\ "r" \in q1[i].change.add => <<c, q1[i].nick>> \in G
  BY DEF Seen
<1>6. "r" \in m.change.add => <<c, m.nick>> \in G
  <2>1. 1 \in 1 .. Len(q1) /\ q1[1] = m
    BY <1>1
  <2> QED BY <1>1, <1>5, <2>1
<1>7. \A p \in {z, b} : p # Nobody /\ "r" \in p.umode => <<c, p.nick>> \in G
  BY <1>2, <1>6 DEF Seen
<1>8. ASSUME NEW i \in 1 .. Len(r), r[i].user = c, "r" \in r[i].change.add PROVE <<c, r[i].nick>> \in G
  <2>1. PICK j \in 1 .. Len(q1) : r[i] = q1[j]
    <3>1. i + 1 \in 1 .. Len(q1) /\ r[i] = q1[i + 1]
      OBVIOUS
    <3> QED BY <3>1
  <2> QED BY <1>5, <1>8, <2>1
<1> QED BY <1>3, <1>4, <1>7, <1>8 DEF Seen

\* r is q after something was said or heard of others than d.
Apart(r, q, M, d) ==
  \/ r = q
  \/ \E m \in M : m.user # d /\ r = Append(q, m)
  \/ q # << >> /\ Head(q).user # d /\ r = Tail(q)

LEMMA CourseApart ==
  ASSUME NEW M, NEW q \in Seq(M), NEW r, NEW d, Apart(r, q, M, d)
  PROVE  /\ \A x, y, R : Course(q, d, x, y, R) => Course(r, d, x, y, R)
         /\ Silent(q, d) => Silent(r, d)
         /\ \A i \in 1 .. Len(r) : r[i].user = d => \E j \in 1 .. Len(q) : r[i] = q[j]
<1>1. CASE r = q
  BY <1>1
<1>2. ASSUME NEW m \in M, m.user # d, r = Append(q, m)
      PROVE  /\ \A x, y, R : Course(q, d, x, y, R) => Course(r, d, x, y, R)
             /\ Silent(q, d) => Silent(r, d)
             /\ \A i \in 1 .. Len(r) : r[i].user = d => \E j \in 1 .. Len(q) : r[i] = q[j]
  <2>1. ASSUME NEW x, NEW y, NEW R, Course(q, d, x, y, R) PROVE Course(r, d, x, y, R)
    BY <1>2, <2>1, CourseAppend
  <2>2. Silent(q, d) => Silent(r, d)
    BY <1>2, SilentKept
  <2>3. ASSUME NEW i \in 1 .. Len(r), r[i].user = d PROVE i \in 1 .. Len(q) /\ r[i] = q[i]
    BY <1>2, <2>3
  <2> QED BY <2>1, <2>2, <2>3
<1>3. CASE q # << >> /\ Head(q).user # d /\ r = Tail(q)
  <2>1. ASSUME NEW x, NEW y, NEW R, Course(q, d, x, y, R) PROVE Course(r, d, x, y, R)
    BY <1>3, <2>1, CourseTail
  <2>2. Silent(q, d) => Silent(r, d)
    BY <1>3, SilentKept
  <2>3. ASSUME NEW i \in 1 .. Len(r) PROVE i + 1 \in 1 .. Len(q) /\ r[i] = q[i + 1]
    BY <1>3
  <2> QED BY <2>1, <2>2, <2>3
<1> QED BY <1>1, <1>2, <1>3 DEF Apart

\* What is said of others leaves what is known of d as it is.
LEMMA SeenApart ==
  ASSUME NEW d \in Chatters, NEW q1 \in Seq(SvsMsgs), NEW q2 \in Seq(UserMsgs),
         NEW a, NEW b, NEW X, NEW G, Seen(d, q1, q2, a, b, X, G),
         NEW r1, NEW r2, Apart(r1, q1, SvsMsgs, d), Apart(r2, q2, UserMsgs, d),
         NEW Y, d \in X => d \in Y, NEW H, \A n : <<d, n>> \in G => <<d, n>> \in H
  PROVE  Seen(d, r1, r2, a, b, Y, H)
<1>1. /\ \A x, y, R : Course(q1, d, x, y, R) => Course(r1, d, x, y, R)
      /\ Silent(q1, d) => Silent(r1, d)
      /\ \A i \in 1 .. Len(r1) : r1[i].user = d => \E j \in 1 .. Len(q1) : r1[i] = q1[j]
  BY CourseApart
<1>2. /\ \A x, y, R : Course(q2, d, x, y, R) => Course(r2, d, x, y, R)
      /\ Silent(q2, d) => Silent(r2, d)
  BY CourseApart
<1>4. Course(r2, d, Presence(b), Presence(a), Fits)
  BY <1>2 DEF Seen
<1>5. ASSUME d \notin Y
      PROVE  \/ Silent(r1, d) /\ Course(r2, d, b, a, Does)
             \/ Silent(r2, d) /\ Course(r1, d, a, b, Does)
  <2>1. \/ Silent(q1, d) /\ Course(q2, d, b, a, Does)
        \/ Silent(q2, d) /\ Course(q1, d, a, b, Does)
    BY <1>5 DEF Seen
  <2> QED BY <1>1, <1>2, <2>1
<1>6. \A p \in {a, b} : p # Nobody /\ "r" \in p.umode => <<d, p.nick>> \in H
  BY DEF Seen
<1>7. \A i \in 1 .. Len(q1) : q1[i].user = d /\ "r" \in q1[i].change.add => <<d, q1[i].nick>> \in H
  BY DEF Seen
<1>8. ASSUME NEW i \in 1 .. Len(r1), r1[i].user = d, "r" \in r1[i].change.add PROVE <<d, r1[i].nick>> \in H
  BY <1>1, <1>7, <1>8
<1> QED BY <1>4, <1>5, <1>6, <1>8 DEF Seen

\* A user who registers is not known yet.
LEMMA SeenNew ==
  ASSUME NEW c \in Chatters, NEW q1 \in Seq(SvsMsgs), NEW q2 \in Seq(UserMsgs),
         Silent(q1, c), Silent(q2, c), NEW m \in UserMsgs, m.user = c, m.cmd = "NICK",
         NEW r, r = Append(q2, m), NEW z, z = After(Nobody, m), NEW X, NEW G
  PROVE  Seen(c, q1, r, z, Nobody, X, G)
<1>1. z \in People \cup {Nobody} /\ (z # Nobody => "r" \notin z.umode)
  BY AfterUser
<1>2. Course(r, c, Presence(Nobody), Presence(z), Fits)
  <2>1. PICK x, y : x = Presence(Nobody) /\ y = Presence(z)
    OBVIOUS
  <2>2. <<x, m, y>> \in Fits
    BY <2>1, FitsNow
  <2>3. Course(q2, c, x, x, Fits)
    BY CourseSilent
  <2>4. Course(r, c, x, y, Fits)
    BY <2>2, <2>3, CourseAppend
  <2> QED BY <2>1, <2>4
<1>3. Course(r, c, Nobody, z, Does)
  <2>1. <<Nobody, m, z>> \in Does
    BY <1>1, DoesIff
  <2>2. Course(q2, c, Nobody, Nobody, Does)
    BY CourseSilent
  <2> QED BY <2>1, <2>2, CourseAppend
<1> QED BY <1>1, <1>2, <1>3 DEF Seen, Silent

----------------------------------------------------------------------------
(* Tables and counters.                                                    *)

PutUser(k2, k, c, p) == k2 = [k EXCEPT ![c] = p]
ModesOf(p) == IF p = Nobody THEN {} ELSE p.umode

LEMMA PutUserOK ==
  ASSUME NEW k \in PeopleTabs, NEW c \in Chatters, NEW p \in People \cup {Nobody}, NEW k2, PutUser(k2, k, c, p)
  PROVE  k2 \in PeopleTabs /\ k2[c] = p /\ \A d \in Chatters : d # c => k2[d] = k[d]
  BY DEF PutUser, PeopleTabs

LEMMA Swapped ==
  ASSUME NEW S \in SUBSET Chatters, NEW T \in SUBSET Chatters, NEW c, T \ {c} = S \ {c}
  PROVE  /\ Cardinality(S) \in Nat /\ Cardinality(T) \in Nat
         /\ Cardinality(T) = Cardinality(S) + (IF c \in T THEN 1 ELSE 0) - (IF c \in S THEN 1 ELSE 0)
<1>1. IsFiniteSet(S) /\ IsFiniteSet(T)
  BY UmodesAssumption, FS_Subset
<1>2. PICK D : D = S \ {c}
  OBVIOUS
<1>3. IsFiniteSet(D) /\ Cardinality(D) \in Nat /\ c \notin D
  BY <1>1, <1>2, FS_Subset, FS_CardinalityType
<1>4. Cardinality(D \cup {c}) = Cardinality(D) + 1
  BY <1>3, FS_AddElement
<1>5. /\ c \in S => S = D \cup {c}
      /\ c \notin S => S = D
      /\ c \in T => T = D \cup {c}
      /\ c \notin T => T = D
  BY <1>2
<1>6. Cardinality(S) = Cardinality(D) + (IF c \in S THEN 1 ELSE 0)
  <2>1. CASE c \in S
    BY <1>3, <1>4, <1>5, <2>1
  <2>2. CASE c \notin S
    BY <1>3, <1>5, <2>2
  <2> QED BY <2>1, <2>2
<1>7. Cardinality(T) = Cardinality(D) + (IF c \in T THEN 1 ELSE 0)
  <2>1. CASE c \in T
    BY <1>3, <1>4, <1>5, <2>1
  <2>2. CASE c \notin T
    BY <1>3, <1>5, <2>2
  <2> QED BY <2>1, <2>2
<1> QED BY <1>3, <1>6, <1>7

\* The counters follow one user's change.
LEMMA TallyStep ==
  ASSUME NEW k \in PeopleTabs, NEW c \in Chatters, NEW p \in People \cup {Nobody}, NEW k2, PutUser(k2, k, c, p),
         NEW old, NEW new, old = ModesOf(k[c]), new = ModesOf(p)
  PROVE  tallied(Tally(k), old, new) = Tally(k2)
<1>1. k2[c] = p /\ \A d \in Chatters : d # c => k2[d] = k[d]
  BY PutUserOK
<1>2. OpersIn(k2) \ {c} = OpersIn(k) \ {c} /\ HiddenIn(k2) \ {c} = HiddenIn(k) \ {c}
  BY <1>1 DEF OpersIn, HiddenIn
<1>3. /\ c \in OpersIn(k) <=> IsAnOper(old)
      /\ c \in OpersIn(k2) <=> IsAnOper(new)
  BY <1>1 DEF OpersIn, ModesOf, IsAnOper
<1>4. /\ c \in HiddenIn(k) <=> Invisible(old)
      /\ c \in HiddenIn(k2) <=> Invisible(new)
  BY <1>1 DEF HiddenIn, ModesOf, Invisible
<1>5. Cardinality(OpersIn(k2)) = Cardinality(OpersIn(k)) + Step(IsAnOper, old, new)
  <2>1. /\ Cardinality(OpersIn(k)) \in Nat /\ Cardinality(OpersIn(k2)) \in Nat
        /\ Cardinality(OpersIn(k2)) = Cardinality(OpersIn(k)) + (IF c \in OpersIn(k2) THEN 1 ELSE 0)
                                        - (IF c \in OpersIn(k) THEN 1 ELSE 0)
    <3>1. OpersIn(k) \in SUBSET Chatters /\ OpersIn(k2) \in SUBSET Chatters
      BY DEF OpersIn
    <3> QED BY <1>2, <3>1, Swapped
  <2> QED BY <1>3, <2>1 DEF Step
<1>6. Cardinality(HiddenIn(k2)) = Cardinality(HiddenIn(k)) + Step(Invisible, old, new)
  <2>1. /\ Cardinality(HiddenIn(k)) \in Nat /\ Cardinality(HiddenIn(k2)) \in Nat
        /\ Cardinality(HiddenIn(k2)) = Cardinality(HiddenIn(k)) + (IF c \in HiddenIn(k2) THEN 1 ELSE 0)
                                        - (IF c \in HiddenIn(k) THEN 1 ELSE 0)
    <3>1. HiddenIn(k) \in SUBSET Chatters /\ HiddenIn(k2) \in SUBSET Chatters
      BY DEF HiddenIn
    <3> QED BY <1>2, <3>1, Swapped
  <2> QED BY <1>4, <2>1 DEF Step
<1> QED BY <1>5, <1>6 DEF tallied, Tally

LEMMA TallySame ==
  ASSUME NEW k \in PeopleTabs, NEW c \in Chatters, NEW p \in People \cup {Nobody}, NEW k2, PutUser(k2, k, c, p),
         k[c] = Nobody <=> p = Nobody, ModesOf(p) \ {"r"} = ModesOf(k[c]) \ {"r"}
  PROVE  OpersIn(k2) = OpersIn(k) /\ Tally(k2) = Tally(k)
<1>1. k2[c] = p /\ \A d \in Chatters : d # c => k2[d] = k[d]
  BY PutUserOK
<1>2. OpersIn(k2) = OpersIn(k) /\ HiddenIn(k2) = HiddenIn(k)
  BY <1>1 DEF OpersIn, HiddenIn, ModesOf, IsAnOper, Invisible
<1> QED BY <1>2 DEF Tally

LEMMA RecountTally ==
  \A s \in Both : Recount(s) = Tally(known[s])
  BY DEF Recount, Tally, OpersIn, HiddenIn, Person

LEMMA TallyType ==
  ASSUME counts \in [Both -> [oper : Int, invisi : Int]], NEW s \in Both, NEW old, NEW new
  PROVE  tallied(counts[s], old, new) \in [oper : Int, invisi : Int]
<1>1. counts[s].oper \in Int /\ counts[s].invisi \in Int
  OBVIOUS
<1>2. Step(IsAnOper, old, new) \in Int /\ Step(Invisible, old, new) \in Int
  BY DEF Step
<1> QED BY <1>1, <1>2 DEF tallied

\* The list of operators, when user c becomes one, is none any more or stays what he is.
LEMMA ListingStep ==
  ASSUME NEW k \in PeopleTabs, NEW c \in Chatters, NEW p \in People \cup {Nobody}, NEW k2, PutUser(k2, k, c, p),
         NEW l, Listing(l, k)
  PROVE  /\ ~ IsAnOper(ModesOf(k[c])) /\ IsAnOper(ModesOf(p)) => Listing(<<c>> \o l, k2)
         /\ IsAnOper(ModesOf(k[c])) /\ ~ IsAnOper(ModesOf(p)) => Listing(without_oper(l, c), k2)
         /\ IsAnOper(ModesOf(k[c])) <=> IsAnOper(ModesOf(p)) => Listing(l, k2)
<1>1. k2[c] = p /\ \A d \in Chatters : d # c => k2[d] = k[d]
  BY PutUserOK
<1>2. OpersIn(k2) \ {c} = OpersIn(k) \ {c}
  BY <1>1 DEF OpersIn
<1>3. /\ c \in OpersIn(k) <=> IsAnOper(ModesOf(k[c]))
      /\ c \in OpersIn(k2) <=> IsAnOper(ModesOf(p))
  BY <1>1 DEF OpersIn, ModesOf, IsAnOper
<1>4. l \in Seq(Chatters) /\ IsInjective(l) /\ Range(l) = OpersIn(k)
  BY DEF Listing
<1>5. ASSUME ~ IsAnOper(ModesOf(k[c])), IsAnOper(ModesOf(p)) PROVE Listing(<<c>> \o l, k2)
  <2>1. PICK r : r = <<c>> \o l
    OBVIOUS
  <2>2. r \in Seq(Chatters) /\ Range(r) = Range(l) \cup {c} /\ IsInjective(r)
    BY <1>3, <1>4, <1>5, <2>1, PushSpec
  <2>3. OpersIn(k2) = OpersIn(k) \cup {c}
    BY <1>2, <1>3, <1>5
  <2> QED BY <1>4, <2>1, <2>2, <2>3 DEF Listing
<1>6. ASSUME IsAnOper(ModesOf(k[c])), ~ IsAnOper(ModesOf(p)) PROVE Listing(without_oper(l, c), k2)
  <2>1. PICK r : r = without_oper(l, c)
    OBVIOUS
  <2>2. r \in Seq(Chatters) /\ Range(r) = Range(l) \ {c} /\ IsInjective(r)
    BY <1>4, <2>1, RemoveFirstSpec DEF without_oper
  <2>3. OpersIn(k2) = OpersIn(k) \ {c}
    BY <1>2, <1>3, <1>6
  <2> QED BY <1>4, <2>1, <2>2, <2>3 DEF Listing
<1>7. ASSUME IsAnOper(ModesOf(k[c])) <=> IsAnOper(ModesOf(p)) PROVE Listing(l, k2)
  <2>3. OpersIn(k2) = OpersIn(k)
    BY <1>2, <1>3, <1>7
  <2> QED BY <1>4, <2>3 DEF Listing
<1> QED BY <1>5, <1>6, <1>7

\* The users of block b, and its counter.
LEMMA BlocksStep ==
  ASSUME NEW k \in PeopleTabs, NEW c \in Chatters, NEW p \in People \cup {Nobody}, NEW k2, PutUser(k2, k, c, p),
         NEW o, NEW at, Blocks(o, at, k)
  PROVE  /\ \A b \in OperBlocks : Blocks([o EXCEPT ![c] = b], [at EXCEPT ![b] = at[b] + 1], k2)
         /\ o[c] # Nobody /\ ~ IsAnOper(ModesOf(p)) =>
              Blocks([o EXCEPT ![c] = Nobody], [at EXCEPT ![o[c]] = at[o[c]] - 1], k2)
         /\ (IsAnOper(ModesOf(p)) => IsAnOper(ModesOf(k[c]))) => Blocks(o, at, k2)
<1>1. k2[c] = p /\ \A d \in Chatters : d # c => k2[d] = k[d]
  BY PutUserOK
<1>2. OpersIn(k2) \ {c} = OpersIn(k) \ {c}
  BY <1>1 DEF OpersIn
<1>3. /\ c \in OpersIn(k) <=> IsAnOper(ModesOf(k[c]))
      /\ c \in OpersIn(k2) <=> IsAnOper(ModesOf(p))
  BY <1>1 DEF OpersIn, ModesOf, IsAnOper
<1>4. /\ o \in [Chatters -> OperBlocks \cup {Nobody}] /\ at \in [OperBlocks -> Int]
      /\ \A d \in OpersIn(k) : o[d] # Nobody
      /\ \A b \in OperBlocks : at[b] >= Cardinality({d \in Chatters : o[d] = b})
  BY DEF Blocks
<1>5. ASSUME NEW b \in OperBlocks
      PROVE  Blocks([o EXCEPT ![c] = b], [at EXCEPT ![b] = at[b] + 1], k2)
  <2>1. PICK o2, at2 : o2 = [o EXCEPT ![c] = b] /\ at2 = [at EXCEPT ![b] = at[b] + 1]
    OBVIOUS
  <2>2. /\ o2 \in [Chatters -> OperBlocks \cup {Nobody}] /\ at2 \in [OperBlocks -> Int]
        /\ o2[c] = b /\ at2[b] = at[b] + 1
        /\ \A d \in Chatters : d # c => o2[d] = o[d]
        /\ \A e \in OperBlocks : e # b => at2[e] = at[e]
    BY <1>4, <2>1
  <2>3. \A d \in OpersIn(k2) : o2[d] # Nobody
    BY <1>2, <1>4, <2>2, UmodesAssumption DEF OpersIn
  <2>4. ASSUME NEW e \in OperBlocks PROVE at2[e] >= Cardinality({d \in Chatters : o2[d] = e})
    <3>1. PICK S, T : S = {d \in Chatters : o[d] = e} /\ T = {d \in Chatters : o2[d] = e}
      OBVIOUS
    <3>2. S \in SUBSET Chatters /\ T \in SUBSET Chatters /\ T \ {c} = S \ {c} /\ (c \in T <=> e = b)
      BY <2>2, <3>1
    <3>3. /\ Cardinality(S) \in Nat /\ Cardinality(T) \in Nat
          /\ Cardinality(T) = Cardinality(S) + (IF c \in T THEN 1 ELSE 0) - (IF c \in S THEN 1 ELSE 0)
      BY <3>2, Swapped
    <3>4. at[e] >= Cardinality(S) /\ at[e] \in Int
      BY <1>4, <3>1
    <3>5. at2[e] = IF e = b THEN at[e] + 1 ELSE at[e]
      BY <2>2
    <3>6. at2[e] >= Cardinality(T)
      BY <3>2, <3>3, <3>4, <3>5
    <3> QED BY <3>1, <3>6
  <2> QED BY <2>1, <2>2, <2>3, <2>4 DEF Blocks
<1>6. ASSUME o[c] # Nobody, ~ IsAnOper(ModesOf(p))
      PROVE  Blocks([o EXCEPT ![c] = Nobody], [at EXCEPT ![o[c]] = at[o[c]] - 1], k2)
  <2>0. PICK b \in OperBlocks : b = o[c]
    BY <1>4, <1>6
  <2>1. PICK o2, at2 : o2 = [o EXCEPT ![c] = Nobody] /\ at2 = [at EXCEPT ![b] = at[b] - 1]
    OBVIOUS
  <2>2. /\ o2 \in [Chatters -> OperBlocks \cup {Nobody}] /\ at2 \in [OperBlocks -> Int]
        /\ o2[c] = Nobody /\ at2[b] = at[b] - 1
        /\ \A d \in Chatters : d # c => o2[d] = o[d]
        /\ \A e \in OperBlocks : e # b => at2[e] = at[e]
    BY <1>4, <2>1
  <2>3. \A d \in OpersIn(k2) : o2[d] # Nobody
    BY <1>2, <1>3, <1>4, <1>6, <2>2 DEF OpersIn
  <2>4. ASSUME NEW e \in OperBlocks PROVE at2[e] >= Cardinality({d \in Chatters : o2[d] = e})
    <3>1. PICK S, T : S = {d \in Chatters : o[d] = e} /\ T = {d \in Chatters : o2[d] = e}
      OBVIOUS
    <3>2. /\ S \in SUBSET Chatters /\ T \in SUBSET Chatters /\ T \ {c} = S \ {c} /\ c \notin T
          /\ c \in S <=> e = b
      BY <2>0, <2>2, <3>1, UmodesAssumption
    <3>3. /\ Cardinality(S) \in Nat /\ Cardinality(T) \in Nat
          /\ Cardinality(T) = Cardinality(S) + (IF c \in T THEN 1 ELSE 0) - (IF c \in S THEN 1 ELSE 0)
      BY <3>2, Swapped
    <3>4. at[e] >= Cardinality(S) /\ at[e] \in Int
      BY <1>4, <3>1
    <3>5. at2[e] = IF e = b THEN at[e] - 1 ELSE at[e]
      BY <2>2
    <3>6. at2[e] >= Cardinality(T)
      BY <3>2, <3>3, <3>4, <3>5
    <3> QED BY <3>1, <3>6
  <2> QED BY <2>0, <2>1, <2>2, <2>3, <2>4 DEF Blocks
<1>7. ASSUME IsAnOper(ModesOf(p)) => IsAnOper(ModesOf(k[c])) PROVE Blocks(o, at, k2)
  <2>1. \A d \in OpersIn(k2) : o[d] # Nobody
    BY <1>2, <1>3, <1>4, <1>7
  <2> QED BY <1>4, <2>1 DEF Blocks
<1> QED BY <1>5, <1>6, <1>7

----------------------------------------------------------------------------
(* The actions.                                                            *)

LEMMA UmodeInitInv == UmodesInit => UmodeInv
<1> SUFFICES ASSUME UmodesInit PROVE UmodeInv
  OBVIOUS
<1> USE DEF UmodesInit
<1>1. PICK k : k = [c \in Chatters |-> Nobody]
  OBVIOUS
<1>2. k \in PeopleTabs /\ \A c \in Chatters : k[c] = Nobody
  BY <1>1 DEF PeopleTabs
<1>3. known[1] = k /\ known[2] = k /\ known \in [Both -> PeopleTabs]
  BY <1>1, <1>2 DEF Both
<1>4. /\ toward[1] = << >> /\ toward[2] = << >> /\ toward \in [Both -> Seq(UserMsgs \cup SvsMsgs)]
      /\ toward[1] \in Seq(SvsMsgs) /\ toward[2] \in Seq(UserMsgs)
  BY DEF Both
<1>5. UmodeTypes
  <2>1. past \in PastRecs
    BY DEF PastRecs
  <2>2. counts \in [Both -> [oper : Int, invisi : Int]]
    OBVIOUS
  <2> QED BY <1>3, <1>4, <2>1, <2>2 DEF UmodeTypes
<1>6. OpersIn(k) = {} /\ HiddenIn(k) = {}
  BY <1>2 DEF OpersIn, HiddenIn
<1>7. Listing(operList, known[1])
  BY <1>3, <1>6 DEF Listing, IsInjective, Range
<1>8. Blocks(oper, attached, known[1])
  <2>1. ASSUME NEW b \in OperBlocks PROVE attached[b] >= Cardinality({c \in Chatters : oper[c] = b})
    <3>1. {c \in Chatters : oper[c] = b} = {}
      BY UmodesAssumption
    <3>2. Cardinality({}) = 0
      BY FS_EmptySet
    <3>3. attached[b] = 0
      OBVIOUS
    <3>4. Cardinality({c \in Chatters : oper[c] = b}) = 0
      BY <3>1, <3>2
    <3> QED BY <3>3, <3>4
  <2> QED BY <1>3, <1>6, <2>1, SMTT(30) DEF Blocks
<1>9. UmodeCounts
  <2>1. Tally(k) = [oper |-> 0, invisi |-> 0]
    BY <1>6, FS_EmptySet DEF Tally
  <2>2. counts[1] = [oper |-> 0, invisi |-> 0] /\ counts[2] = [oper |-> 0, invisi |-> 0]
    BY DEF Both
  <2> QED BY <1>3, <1>4, <2>1, <2>2, SMTT(30) DEF UmodeCounts, Mild
<1>10. UmodeSeen
  <2>1. PICK q : q = << >>
    OBVIOUS
  <2>2. ASSUME NEW c \in Chatters, NEW R, NEW x PROVE Course(q, c, x, x, R)
    <3>1. q \in Seq({}) /\ Silent(q, c)
      BY <2>1 DEF Silent
    <3> QED BY <3>1, CourseSilent
  <2>3. \A c \in Chatters : Seen(c, q, q, Nobody, Nobody, {}, {})
    BY <2>1, <2>2 DEF Seen, Silent
  <2>4. past.crossed = {} /\ past.granted = {}
    OBVIOUS
  <2> QED BY <1>2, <1>3, <1>4, <2>1, <2>3, <2>4 DEF UmodeSeen
<1> QED BY <1>5, <1>7, <1>8, <1>9, <1>10 DEF UmodeInv

\* What a step of the user's own server does to what is known: p is what user c
\* becomes there, and m is said of it.
Said(c, m, p) ==
  /\ known' = [known EXCEPT ![1] = [known[1] EXCEPT ![c] = p]]
  /\ toward' = [toward EXCEPT ![2] = Append(toward[2], m)]
  /\ counts' = [counts EXCEPT ![1] = tallied(counts[1], ModesOf(known[1][c]), ModesOf(p))]
Noted(c) == /\ past' \in PastRecs /\ past'.drifted = past.drifted /\ past'.granted = past.granted
            /\ past.crossed \subseteq past'.crossed /\ (Silent(toward[1], c) \/ c \in past'.crossed)

LEMMA CommandIs ==
  ASSUME UmodeTypes, NEW c \in Chatters, NEW s \in Both, NEW f, f = Command(c, s)
  PROVE  /\ f \in PastRecs /\ f.drifted = past.drifted /\ f.granted = past.granted
         /\ past.crossed \subseteq f.crossed /\ (Silent(toward[s], c) \/ c \in f.crossed)
<1>1. past \in PastRecs /\ DOMAIN toward[s] = 1 .. Len(toward[s])
  BY DEF UmodeTypes
<1>2. PICK X : X = IF \E i \in DOMAIN toward[s] : toward[s][i].user = c
                   THEN past.crossed \cup {c} ELSE past.crossed
  OBVIOUS
<1>3. f = [past EXCEPT !.steps = past.steps + 1, !.crossed = X]
  BY <1>2 DEF Command
<1>4. past.crossed \in SUBSET Chatters /\ past.steps \in Nat
  BY <1>1 DEF PastRecs
<1>5. X \in SUBSET Chatters /\ past.crossed \subseteq X /\ (Silent(toward[s], c) \/ c \in X)
  BY <1>1, <1>2, <1>4 DEF Silent
<1>6. PICK g : g = [past EXCEPT !.steps = past.steps + 1]
  OBVIOUS
<1>7. g \in PastRecs /\ g.drifted = past.drifted /\ g.granted = past.granted
  BY <1>1, <1>4, <1>6 DEF PastRecs
<1>8. PICK h : h = [g EXCEPT !.crossed = X]
  OBVIOUS
<1>9. h \in PastRecs /\ h.drifted = g.drifted /\ h.granted = g.granted /\ h.crossed = X
  BY <1>5, <1>7, <1>8 DEF PastRecs
<1>10. f = h
  BY <1>3, <1>6, <1>8
<1> QED BY <1>5, <1>7, <1>9, <1>10

LEMMA CommandNoted ==
  ASSUME UmodeTypes, NEW c \in Chatters, NEW s \in Both, past' = Command(c, s)
  PROVE  /\ past' \in PastRecs /\ past'.drifted = past.drifted /\ past'.granted = past.granted
         /\ past.crossed \subseteq past'.crossed /\ (Silent(toward[s], c) \/ c \in past'.crossed)
  BY CommandIs

\* Said keeps the types, the counters and what the servers know of each other.
LEMMA SaidStep ==
  ASSUME UmodeInv, NEW c \in Chatters, known[1][c] # Nobody, NEW m \in UserMsgs, m.user = c, m.cmd # "NICK",
         NEW p, p = After(known[1][c], m), Said(c, m, p), Noted(c)
  PROVE  /\ UmodeTypes' /\ UmodeCounts' /\ UmodeSeen' /\ p \in People \cup {Nobody}
         /\ PutUser(known'[1], known[1], c, p)
<1>1. PICK k, k2, q1, q2 : k = known[1] /\ k2 = known[2] /\ q1 = toward[1] /\ q2 = toward[2]
  OBVIOUS
<1>2. /\ k \in PeopleTabs /\ k2 \in PeopleTabs /\ q1 \in Seq(SvsMsgs) /\ q2 \in Seq(UserMsgs)
      /\ known \in [Both -> PeopleTabs] /\ toward \in [Both -> Seq(UserMsgs \cup SvsMsgs)]
      /\ counts \in [Both -> [oper : Int, invisi : Int]]
  BY <1>1 DEF UmodeInv, UmodeTypes, Both
<1>3. k[c] \in People /\ k[c] \in People \cup {Nobody} /\ k[c] # Nobody
  BY <1>1, <1>2 DEF PeopleTabs
<1>4. p \in People \cup {Nobody}
  BY <1>1, <1>3, AfterUser
<1>5. PICK j, r : j = [k EXCEPT ![c] = p] /\ r = Append(q2, m)
  OBVIOUS
<1>6. PutUser(j, k, c, p)
  BY <1>5 DEF PutUser
<1>7. j \in PeopleTabs /\ j[c] = p /\ \A d \in Chatters : d # c => j[d] = k[d]
  BY <1>2, <1>4, <1>5 DEF PeopleTabs
<1>8. r \in Seq(UserMsgs) /\ r \in Seq(UserMsgs \cup SvsMsgs)
  BY <1>2, <1>5
<1>9. known' = [known EXCEPT ![1] = j] /\ toward' = [toward EXCEPT ![2] = r]
  BY <1>1, <1>5 DEF Said
<1>10. /\ known' \in [Both -> PeopleTabs] /\ known'[1] = j /\ known'[2] = k2
       /\ toward' \in [Both -> Seq(UserMsgs \cup SvsMsgs)] /\ toward'[1] = q1 /\ toward'[2] = r
  BY <1>1, <1>2, <1>7, <1>8, <1>9 DEF Both
<1>11. PICK t : t = tallied(counts[1], ModesOf(k[c]), ModesOf(p))
  OBVIOUS
<1>12. t \in [oper : Int, invisi : Int]
  <2>1. 1 \in Both
    BY DEF Both
  <2> QED BY <1>2, <1>11, <2>1, TallyType
<1>13. counts' = [counts EXCEPT ![1] = t]
  BY <1>1, <1>11 DEF Said
<1>14. counts' \in [Both -> [oper : Int, invisi : Int]] /\ counts'[1] = t /\ counts'[2] = counts[2]
  BY <1>2, <1>12, <1>13 DEF Both
<1>15. UmodeTypes'
  BY <1>2, <1>8, <1>10, <1>14 DEF UmodeTypes, Noted
<1>16. UmodeCounts'
  <2>1. SUFFICES ASSUME past.drifted = FALSE
                 PROVE  counts'[1] = Tally(j) /\ counts'[2] = Tally(k2) /\ Mild(q1)
    BY <1>10 DEF UmodeCounts, Noted
  <2>2. counts[1] = Tally(k) /\ counts[2] = Tally(k2) /\ Mild(q1)
    BY <1>1, <2>1 DEF UmodeInv, UmodeCounts
  <2>3. t = Tally(j)
    BY <1>2, <1>4, <1>6, <1>11, <2>2, TallyStep
  <2> QED BY <1>14, <2>2, <2>3
<1>17. UmodeSeen'
  <2>1. PICK X, Y, G : X = past.crossed /\ Y = past'.crossed /\ G = past.granted
    OBVIOUS
  <2>2. past'.granted = G /\ X \subseteq Y /\ (Silent(q1, c) \/ c \in Y)
    BY <1>1, <2>1 DEF Noted
  <2>3. ASSUME NEW d \in Chatters PROVE Seen(d, q1, r, j[d], k2[d], Y, G)
    <3>1. Seen(d, q1, q2, k[d], k2[d], X, G)
      BY <1>1, <2>1 DEF UmodeInv, UmodeSeen
    <3>2. k2[d] \in People \cup {Nobody}
      BY <1>2 DEF PeopleTabs
    <3>3. CASE d = c
      <4>1. Seen(c, q1, q2, k[c], k2[c], X, G) /\ p = After(k[c], m) /\ k2[c] \in People \cup {Nobody}
        BY <1>1, <3>1, <3>2, <3>3
      <4>2. Seen(c, q1, r, p, k2[c], Y, G)
        BY <1>2, <1>3, <1>5, <2>2, <4>1, SeenSaid
      <4> QED BY <1>7, <3>3, <4>2
    <3>4. CASE d # c
      <4>1. Apart(q1, q1, SvsMsgs, d) /\ Apart(r, q2, UserMsgs, d)
        BY <1>5, <3>4 DEF Apart
      <4>2. Seen(d, q1, r, k[d], k2[d], Y, G)
        BY <1>2, <2>2, <3>1, <4>1, SeenApart
      <4> QED BY <1>7, <3>4, <4>2
    <3> QED BY <3>3, <3>4
  <2> QED BY <1>10, <2>1, <2>2, <2>3 DEF UmodeSeen
<1> QED BY <1>1, <1>4, <1>6, <1>10, <1>15, <1>16, <1>17

----------------------------------------------------------------------------
LEMMA UmodeRegister ==
  ASSUME UmodeInv, NEW c \in Chatters, NEW um \in {{}, {"i"}}, register_person(c, um)
  PROVE  UmodeInv'
<1>1. PICK k, k2, q1, q2 : k = known[1] /\ k2 = known[2] /\ q1 = toward[1] /\ q2 = toward[2]
  OBVIOUS
<1>2. /\ k \in PeopleTabs /\ k2 \in PeopleTabs /\ q1 \in Seq(SvsMsgs) /\ q2 \in Seq(UserMsgs)
      /\ known \in [Both -> PeopleTabs] /\ toward \in [Both -> Seq(UserMsgs \cup SvsMsgs)]
      /\ counts \in [Both -> [oper : Int, invisi : Int]] /\ past \in PastRecs
  BY <1>1 DEF UmodeInv, UmodeTypes, Both
<1>3. k[c] = Nobody /\ k2[c] = Nobody /\ Silent(q1, c) /\ Silent(q2, c)
  BY <1>1, <1>2 DEF register_person, Person, Silent, Both
<1>4. PICK m, p : m = [cmd |-> "NICK", user |-> c, umode |-> um] /\ p = [nick |-> 0, umode |-> um]
  OBVIOUS
<1>5. m \in UserMsgs /\ m.user = c /\ m.cmd = "NICK" /\ m.umode = um
  BY <1>4 DEF UserMsgs, Plain, Letters
<1>6. p \in People /\ p \in People \cup {Nobody} /\ p.umode = um /\ p # Nobody
  <2>1. p \in People /\ p.umode = um
    BY <1>4 DEF People, Letters
  <2> QED BY <2>1, PersonFields
<1>7. p = After(Nobody, m)
  BY <1>4, <1>5 DEF After
<1>8. PICK j, r : j = [k EXCEPT ![c] = p] /\ r = Append(q2, m)
  OBVIOUS
<1>9. j \in PeopleTabs /\ j[c] = p /\ \A d \in Chatters : d # c => j[d] = k[d]
  BY <1>2, <1>6, <1>8 DEF PeopleTabs
<1>10. PutUser(j, k, c, p)
  BY <1>8 DEF PutUser
<1>11. r \in Seq(UserMsgs) /\ r \in Seq(UserMsgs \cup SvsMsgs)
  BY <1>2, <1>5, <1>8
<1>12. known' = [known EXCEPT ![1] = j] /\ toward' = [toward EXCEPT ![2] = r]
  BY <1>1, <1>4, <1>8 DEF register_person, Queue
<1>13. /\ known' \in [Both -> PeopleTabs] /\ known'[1] = j /\ known'[2] = k2
       /\ toward' \in [Both -> Seq(UserMsgs \cup SvsMsgs)] /\ toward'[1] = q1 /\ toward'[2] = r
  BY <1>1, <1>2, <1>9, <1>11, <1>12 DEF Both
<1>14. ModesOf(k[c]) = {} /\ ModesOf(p) = um /\ ~ IsAnOper({}) /\ ~ IsAnOper(um)
  BY <1>3, <1>6 DEF ModesOf, IsAnOper
<1>15. PICK t : t = tallied(counts[1], {}, um)
  OBVIOUS
<1>16. t \in [oper : Int, invisi : Int]
  <2>1. 1 \in Both
    BY DEF Both
  <2> QED BY <1>2, <1>15, <2>1, TallyType
<1>17. counts' = [counts EXCEPT ![1] = t]
  BY <1>15 DEF register_person
<1>18. counts' \in [Both -> [oper : Int, invisi : Int]] /\ counts'[1] = t /\ counts'[2] = counts[2]
  BY <1>2, <1>16, <1>17 DEF Both
<1>19. PICK X, Y, G, H : /\ X = past.crossed /\ G = past.granted
                         /\ Y = X \ {c} /\ H = {g \in G : g[1] # c}
  OBVIOUS
<1>20. past' \in PastRecs /\ past'.drifted = past.drifted /\ past'.granted = H /\ past'.crossed = Y
  <2>1. past' = [past EXCEPT !.steps = past.steps + 1, !.crossed = Y, !.granted = H]
    BY <1>19 DEF register_person
  <2>2. PICK g : g = [past EXCEPT !.steps = past.steps + 1]
    OBVIOUS
  <2>3. g \in PastRecs /\ g.drifted = past.drifted
    <3>1. past.steps \in Nat
      BY <1>2 DEF PastRecs
    <3>2. past \in PastRecs
      BY <1>2
    <3> QED BY <2>2, <3>1, <3>2 DEF PastRecs
  <2>4. PICK h : h = [g EXCEPT !.crossed = Y]
    OBVIOUS
  <2>5. Y \in SUBSET Chatters /\ H \in SUBSET (Chatters \X Nat)
    BY <1>2, <1>19 DEF PastRecs
  <2>6. h \in PastRecs /\ h.drifted = g.drifted /\ h.crossed = Y
    BY <2>3, <2>4, <2>5 DEF PastRecs
  <2>7. PICK f : f = [h EXCEPT !.granted = H]
    OBVIOUS
  <2>8. f \in PastRecs /\ f.drifted = h.drifted /\ f.crossed = Y /\ f.granted = H
    BY <2>5, <2>6, <2>7 DEF PastRecs
  <2>9. past' = f
    BY <2>1, <2>2, <2>4, <2>7
  <2> QED BY <2>3, <2>6, <2>8, <2>9
<1>21. UmodeTypes'
  BY <1>2, <1>11, <1>13, <1>18, <1>20 DEF UmodeTypes
<1>22. UmodeCounts'
  <2>1. SUFFICES ASSUME past.drifted = FALSE
                 PROVE  counts'[1] = Tally(j) /\ counts'[2] = Tally(k2) /\ Mild(q1)
    BY <1>13, <1>20 DEF UmodeCounts
  <2>2. counts[1] = Tally(k) /\ counts[2] = Tally(k2) /\ Mild(q1)
    BY <1>1, <2>1 DEF UmodeInv, UmodeCounts
  <2>3. tallied(Tally(k), {}, um) = Tally(j)
    <3>1. PICK old, new : old = ModesOf(k[c]) /\ new = ModesOf(p)
      OBVIOUS
    <3>2. tallied(Tally(k), old, new) = Tally(j)
      BY <1>2, <1>6, <1>10, <3>1, TallyStep
    <3> QED BY <1>14, <3>1, <3>2
  <2>4. t = Tally(j)
    BY <1>15, <2>2, <2>3
  <2> QED BY <1>18, <2>2, <2>4
<1>23. UmodeSeen'
  <2>1. ASSUME NEW d \in Chatters PROVE Seen(d, q1, r, j[d], k2[d], Y, H)
    <3>1. Seen(d, q1, q2, k[d], k2[d], X, G)
      BY <1>1, <1>19 DEF UmodeInv, UmodeSeen
    <3>2. CASE d = c
      <4>1. Seen(c, q1, r, p, Nobody, Y, H)
        BY <1>2, <1>3, <1>5, <1>7, <1>8, SeenNew
      <4> QED BY <1>3, <1>9, <3>2, <4>1
    <3>3. CASE d # c
      <4>1. Apart(q1, q1, SvsMsgs, d) /\ Apart(r, q2, UserMsgs, d)
        BY <1>5, <1>8, <3>3 DEF Apart
      <4>2. (d \in X => d \in Y) /\ \A n : <<d, n>> \in G => <<d, n>> \in H
        BY <1>19, <3>3
      <4>3. Seen(d, q1, r, k[d], k2[d], Y, H)
        BY <1>2, <3>1, <4>1, <4>2, SeenApart
      <4> QED BY <1>9, <3>3, <4>3
    <3> QED BY <3>2, <3>3
  <2> QED BY <1>13, <1>20, <2>1 DEF UmodeSeen
<1>24. Listing(operList, j) /\ Blocks(oper, attached, j)
  <2>1. Listing(operList, k) /\ Blocks(oper, attached, k)
    BY <1>1 DEF UmodeInv
  <2>2. Listing(operList, j)
    BY <1>2, <1>6, <1>10, <1>14, <2>1, ListingStep
  <2> QED BY <1>2, <1>6, <1>10, <1>14, <2>1, <2>2, BlocksStep
<1>25. operList' = operList /\ oper' = oper /\ attached' = attached
  BY DEF register_person
<1> QED BY <1>13, <1>21, <1>22, <1>23, <1>24, <1>25 DEF UmodeInv

LEMMA UmodeQuit ==
  ASSUME UmodeInv, NEW c \in Chatters, m_quit_person(c)
  PROVE  UmodeInv'
<1>1. PICK m : m = [cmd |-> "QUIT", user |-> c]
  OBVIOUS
<1>2. m \in UserMsgs /\ m.user = c /\ m.cmd = "QUIT"
  BY <1>1 DEF UserMsgs
<1>3. known[1][c] # Nobody /\ UmodeTypes
  BY DEF m_quit_person, Person, UmodeInv
<1>4. Nobody = After(known[1][c], m)
  BY <1>2 DEF After
<1>5. Said(c, m, Nobody)
  BY <1>1, <1>3 DEF m_quit_person, Said, Queue, ModesOf
<1>6. Noted(c)
  <2>1. past' = Command(c, 1) /\ 1 \in Both
    BY DEF m_quit_person, Both
  <2> QED BY <1>3, <2>1, CommandNoted DEF Noted
<1>7. UmodeTypes' /\ UmodeCounts' /\ UmodeSeen' /\ PutUser(known'[1], known[1], c, Nobody)
  BY <1>2, <1>3, <1>4, <1>5, <1>6, SaidStep
<1>8. PICK k, j, l, o, at : k = known[1] /\ j = known'[1] /\ l = operList /\ o = oper /\ at = attached
  OBVIOUS
<1>9. k \in PeopleTabs /\ PutUser(j, k, c, Nobody) /\ Listing(l, k) /\ Blocks(o, at, k) /\ k[c] # Nobody
  BY <1>3, <1>7, <1>8 DEF UmodeInv, UmodeTypes, Both
<1>10. ModesOf(k[c]) = k[c].umode /\ ModesOf(Nobody) = {} /\ ~ IsAnOper({})
  BY <1>9 DEF ModesOf, IsAnOper
<1>11. Listing(operList', j)
  <2>1. CASE IsAnOper(k[c].umode)
    <3>1. operList' = without_oper(l, c)
      BY <1>8, <2>1 DEF m_quit_person
    <3>2. Listing(without_oper(l, c), j)
      BY <1>9, <1>10, <2>1, ListingStep
    <3> QED BY <3>1, <3>2
  <2>2. CASE ~ IsAnOper(k[c].umode)
    <3>1. operList' = l
      BY <1>8, <2>2 DEF m_quit_person
    <3>2. Listing(l, j)
      BY <1>9, <1>10, <2>2, ListingStep
    <3> QED BY <3>1, <3>2
  <2> QED BY <2>1, <2>2
<1>12. Blocks(oper', attached', j)
  <2>1. CASE o[c] = Nobody
    <3>1. [o EXCEPT ![c] = Nobody] = o
      BY <1>9, <2>1 DEF Blocks
    <3>2. oper' = o /\ attached' = at
      BY <1>8, <2>1, <3>1 DEF m_quit_person
    <3>3. Blocks(o, at, j)
      BY <1>9, <1>10, BlocksStep
    <3> QED BY <3>2, <3>3
  <2>2. CASE o[c] # Nobody
    <3>1. oper' = [o EXCEPT ![c] = Nobody] /\ attached' = [at EXCEPT ![o[c]] = at[o[c]] - 1]
      BY <1>8, <2>2 DEF m_quit_person
    <3>2. Blocks([o EXCEPT ![c] = Nobody], [at EXCEPT ![o[c]] = at[o[c]] - 1], j)
      BY <1>9, <1>10, <2>2, BlocksStep
    <3> QED BY <3>1, <3>2
  <2> QED BY <2>1, <2>2
<1> QED BY <1>7, <1>8, <1>11, <1>12 DEF UmodeInv

LEMMA UmodeRename ==
  ASSUME UmodeInv, NEW c \in Chatters, m_nick_person(c)
  PROVE  UmodeInv'
<1>1. PICK m, p : m = [cmd |-> "NEWNICK", user |-> c] /\ p = renamed(known[1][c])
  OBVIOUS
<1>2. m \in UserMsgs /\ m.user = c /\ m.cmd = "NEWNICK"
  BY <1>1 DEF UserMsgs
<1>3. known[1][c] # Nobody /\ UmodeTypes
  BY DEF m_nick_person, Person, UmodeInv
<1>4. p = After(known[1][c], m)
  BY <1>1, <1>2 DEF After
<1>5. PICK k, l, o, at : k = known[1] /\ l = operList /\ o = oper /\ at = attached
  OBVIOUS
<1>6. k \in PeopleTabs /\ Listing(l, k) /\ Blocks(o, at, k) /\ k[c] # Nobody /\ k[c] \in People
  BY <1>3, <1>5 DEF UmodeInv, UmodeTypes, Both, PeopleTabs
<1>7. p \in People /\ p \in People \cup {Nobody} /\ p # Nobody /\ p.umode = k[c].umode \ {"r"}
  <2>1. p \in People /\ p.umode = k[c].umode \ {"r"}
    BY <1>1, <1>5, <1>6, PersonFields DEF renamed, People
  <2> QED BY <2>1, PersonFields
<1>8. /\ ModesOf(k[c]) = k[c].umode /\ ModesOf(p) = k[c].umode \ {"r"}
      /\ IsAnOper(ModesOf(k[c])) <=> IsAnOper(ModesOf(p))
      /\ Invisible(ModesOf(k[c])) <=> Invisible(ModesOf(p))
  BY <1>6, <1>7 DEF ModesOf, IsAnOper, Invisible
<1>9. Said(c, m, p)
  <2>1. PICK n : n = counts[1]
    OBVIOUS
  <2>2. n.oper \in Int /\ n.invisi \in Int /\ n = [oper |-> n.oper, invisi |-> n.invisi]
    BY <1>3, <2>1 DEF UmodeTypes, Both
  <2>3. tallied(n, ModesOf(k[c]), ModesOf(p)) = n
    <3>1. Step(IsAnOper, ModesOf(k[c]), ModesOf(p)) = 0 /\ Step(Invisible, ModesOf(k[c]), ModesOf(p)) = 0
      BY <1>8 DEF Step
    <3> QED BY <2>2, <3>1 DEF tallied
  <2>4. [counts EXCEPT ![1] = n] = counts
    BY <1>3, <2>1 DEF UmodeTypes
  <2> QED BY <1>1, <1>5, <2>1, <2>3, <2>4 DEF m_nick_person, Said, Queue
<1>10. Noted(c)
  <2>1. past' = Command(c, 1) /\ 1 \in Both
    BY DEF m_nick_person, Both
  <2> QED BY <1>3, <2>1, CommandNoted DEF Noted
<1>11. UmodeTypes' /\ UmodeCounts' /\ UmodeSeen' /\ PutUser(known'[1], known[1], c, p)
  BY <1>2, <1>3, <1>4, <1>9, <1>10, SaidStep
<1>12. PICK j : j = known'[1]
  OBVIOUS
<1>13. PutUser(j, k, c, p)
  BY <1>5, <1>11, <1>12
<1>14. Listing(l, j) /\ Blocks(o, at, j)
  BY <1>6, <1>7, <1>8, <1>13, ListingStep, BlocksStep
<1>15. operList' = l /\ oper' = o /\ attached' = at
  BY <1>5 DEF m_nick_person
<1> QED BY <1>11, <1>12, <1>14, <1>15 DEF UmodeInv

\* The operator's block decides what m_umode takes away; +r is nobody's to change.
LEMMA ModesAsked ==
  ASSUME NEW old \in SUBSET Letters, NEW ch \in Tried, NEW b
  PROVE  LET new == Allowed(old, ch, b)
         IN  /\ new \in SUBSET Letters /\ ("r" \in new <=> "r" \in old)
             /\ IsAnOper(new) => IsAnOper(old)
<1>1. ch.add \in SUBSET Plain /\ ch.del \in SUBSET Plain
  BY DEF Tried, Plain, Letters
<1>2. PICK um : um = Asked(old, ch)
  OBVIOUS
<1>3. um \in SUBSET Letters /\ ("r" \in um <=> "r" \in old) /\ \A x \in {"o", "O"} : x \in um => x \in old
  BY <1>1, <1>2 DEF Asked, Applied, Plain, Letters
<1>4. PICK new : new = Allowed(old, ch, b)
  OBVIOUS
<1>5. new = um \/ new = um \ {"a"}
  BY <1>2, <1>4 DEF Allowed, OperModes
<1>6. new \in SUBSET Letters /\ ("r" \in new <=> "r" \in old) /\ (IsAnOper(new) => IsAnOper(old))
  BY <1>3, <1>5 DEF IsAnOper
<1> QED BY <1>4, <1>6

\* A MODE that says how new differs from old makes new of it.
LEMMA DiffMessage ==
  ASSUME NEW c \in Chatters, NEW p \in People, NEW new \in SUBSET Letters, "r" \in new => "r" \in p.umode,
         NEW m, m = [cmd |-> "MODE", user |-> c, change |-> Diff(p.umode, new)],
         NEW z, z = [p EXCEPT !.umode = new]
  PROVE  /\ m \in UserMsgs /\ m.user = c /\ m.cmd = "MODE" /\ z = After(p, m)
         /\ z \in People /\ z # Nobody /\ z.umode = new
<1>1. PICK old \in SUBSET Letters : old = p.umode
  BY PersonFields
<1>2. PICK ch : ch = Diff(old, new)
  OBVIOUS
<1>3. ch \in [add : SUBSET Plain, del : SUBSET Letters]
  BY <1>1, <1>2 DEF Diff, Plain
<1>4. m \in UserMsgs /\ m.user = c /\ m.cmd = "MODE" /\ m.change = ch
  BY <1>1, <1>2, <1>3 DEF UserMsgs
<1>5. Applied(old, ch) = new
  BY <1>2 DEF Applied, Diff
<1>6. After(p, m) = z
  BY <1>1, <1>4, <1>5 DEF After
<1>7. z \in People /\ z.umode = new /\ z # Nobody
  <2>1. z \in People /\ z.umode = new
    BY PersonFields
  <2> QED BY <2>1, PersonFields
<1> QED BY <1>4, <1>6, <1>7

LEMMA UmodeOper ==
  ASSUME UmodeInv, NEW c \in Chatters, NEW b \in OperBlocks, m_oper_person(c, b)
  PROVE  UmodeInv'
<1>1. PICK k, l, o, at : k = known[1] /\ l = operList /\ o = oper /\ at = attached
  OBVIOUS
<1>2. known[1][c] # Nobody /\ UmodeTypes
  BY DEF m_oper_person, Person, UmodeInv
<1>3. k \in PeopleTabs /\ Listing(l, k) /\ Blocks(o, at, k) /\ k[c] # Nobody /\ k[c] \in People
  BY <1>1, <1>2 DEF UmodeInv, UmodeTypes, Both, PeopleTabs
<1>4. PICK old : old = k[c].umode
  OBVIOUS
<1>5. PICK new : new = old \cup (IF "global" \in opflags[b] THEN {"o"} ELSE {"O"})
                           \cup (IF "sadmin" \in opflags[b] THEN {"a", "o"} ELSE {})
  OBVIOUS
<1>6. old \in SUBSET Letters /\ ~ IsAnOper(old)
  BY <1>1, <1>3, <1>4, PersonFields DEF m_oper_person
<1>7. new \in SUBSET Letters /\ ("r" \in new => "r" \in old) /\ IsAnOper(new)
  BY <1>5, <1>6 DEF Letters, IsAnOper
<1>8. PICK m, p : /\ m = [cmd |-> "MODE", user |-> c, change |-> Diff(old, new)]
                  /\ p = [k[c] EXCEPT !.umode = new]
  OBVIOUS
<1>9. /\ m \in UserMsgs /\ m.user = c /\ m.cmd = "MODE" /\ p = After(k[c], m)
      /\ p \in People /\ p # Nobody /\ p.umode = new
  BY <1>3, <1>4, <1>7, <1>8, DiffMessage
<1>10. ModesOf(k[c]) = old /\ ModesOf(p) = new
  BY <1>3, <1>4, <1>9 DEF ModesOf
<1>11. Said(c, m, p)
  BY <1>1, <1>4, <1>5, <1>8, <1>10 DEF m_oper_person, Said, Queue
<1>12. Noted(c)
  <2>1. past' = Command(c, 1) /\ 1 \in Both
    BY DEF m_oper_person, Both
  <2> QED BY <1>2, <2>1, CommandNoted DEF Noted
<1>13. UmodeTypes' /\ UmodeCounts' /\ UmodeSeen' /\ PutUser(known'[1], known[1], c, p)
  BY <1>1, <1>2, <1>9, <1>11, <1>12, SaidStep
<1>14. PICK j : j = known'[1]
  OBVIOUS
<1>15. PutUser(j, k, c, p) /\ p \in People \cup {Nobody}
  BY <1>1, <1>9, <1>13, <1>14
<1>16. Listing(<<c>> \o l, j)
  BY <1>3, <1>6, <1>7, <1>10, <1>15, ListingStep
<1>17. Blocks([o EXCEPT ![c] = b], [at EXCEPT ![b] = at[b] + 1], j)
  BY <1>3, <1>15, BlocksStep
<1>18. /\ operList' = <<c>> \o l /\ oper' = [o EXCEPT ![c] = b]
       /\ attached' = [at EXCEPT ![b] = at[b] + 1]
  BY <1>1 DEF m_oper_person
<1> QED BY <1>13, <1>14, <1>16, <1>17, <1>18 DEF UmodeInv

LEMMA UmodeAsk ==
  ASSUME UmodeInv, NEW c \in Chatters, NEW ch \in Tried, m_umode_person(c, ch)
  PROVE  UmodeInv'
<1>1. PICK k, l, o, at : k = known[1] /\ l = operList /\ o = oper /\ at = attached
  OBVIOUS
<1>2. known[1][c] # Nobody /\ UmodeTypes
  BY DEF m_umode_person, Person, UmodeInv
<1>3. k \in PeopleTabs /\ Listing(l, k) /\ Blocks(o, at, k) /\ k[c] # Nobody /\ k[c] \in People
  BY <1>1, <1>2 DEF UmodeInv, UmodeTypes, Both, PeopleTabs
<1>4. PICK old, new : old = k[c].umode /\ new = Allowed(old, ch, o[c])
  OBVIOUS
<1>5. old \in SUBSET Letters
  BY <1>3, <1>4, PersonFields
<1>6. new \in SUBSET Letters /\ ("r" \in new => "r" \in old) /\ (IsAnOper(new) => IsAnOper(old))
  BY <1>4, <1>5, ModesAsked
<1>7. PICK m, p : /\ m = [cmd |-> "MODE", user |-> c, change |-> Diff(old, new)]
                  /\ p = [k[c] EXCEPT !.umode = new]
  OBVIOUS
<1>8. /\ m \in UserMsgs /\ m.user = c /\ m.cmd = "MODE" /\ p = After(k[c], m)
      /\ p \in People /\ p # Nobody /\ p.umode = new
  BY <1>3, <1>4, <1>6, <1>7, DiffMessage, SMTT(30)
<1>9. ModesOf(k[c]) = old /\ ModesOf(p) = new
  BY <1>3, <1>4, <1>8 DEF ModesOf
<1>10. Said(c, m, p)
  BY <1>1, <1>4, <1>7, <1>9 DEF m_umode_person, Said, Queue
<1>11. Noted(c)
  <2>1. past' = Command(c, 1) /\ 1 \in Both
    BY DEF m_umode_person, Both
  <2> QED BY <1>2, <2>1, CommandNoted DEF Noted
<1>12. UmodeTypes' /\ UmodeCounts' /\ UmodeSeen' /\ PutUser(known'[1], known[1], c, p)
  BY <1>1, <1>2, <1>8, <1>10, <1>11, SaidStep
<1>13. PICK j : j = known'[1]
  OBVIOUS
<1>14. PutUser(j, k, c, p) /\ p \in People \cup {Nobody}
  BY <1>1, <1>8, <1>12, <1>13
<1>15. CASE IsAnOper(old) /\ ~ IsAnOper(new)
  <2>1. /\ operList' = without_oper(l, c) /\ oper' = [o EXCEPT ![c] = Nobody]
        /\ attached' = [at EXCEPT ![o[c]] = at[o[c]] - 1]
    BY <1>1, <1>4, <1>15 DEF m_umode_person
  <2>2. Listing(without_oper(l, c), j)
    BY <1>3, <1>9, <1>14, <1>15, ListingStep
  <2>3. o[c] # Nobody
    BY <1>3, <1>4, <1>15 DEF Blocks, OpersIn
  <2>4. Blocks([o EXCEPT ![c] = Nobody], [at EXCEPT ![o[c]] = at[o[c]] - 1], j)
    BY <1>3, <1>9, <1>14, <1>15, <2>3, BlocksStep
  <2> QED BY <1>12, <1>13, <2>1, <2>2, <2>4 DEF UmodeInv
<1>16. CASE ~ (IsAnOper(old) /\ ~ IsAnOper(new))
  <2>1. operList' = l /\ oper' = o /\ attached' = at
    BY <1>1, <1>4, <1>16 DEF m_umode_person
  <2>2. Listing(l, j)
    BY <1>3, <1>6, <1>9, <1>14, <1>16, ListingStep
  <2>3. Blocks(o, at, j)
    BY <1>3, <1>6, <1>9, <1>14, BlocksStep
  <2> QED BY <1>12, <1>13, <2>1, <2>2, <2>3 DEF UmodeInv
<1> QED BY <1>15, <1>16

\* What SVSMODE does where the user has the nick, and elsewhere.
Placed(t, s, c, p) == t = [known EXCEPT ![s] = [known[s] EXCEPT ![c] = p]]
LEMMA SvsTable ==
  ASSUME UmodeTypes, NEW s \in Both, NEW c \in Chatters, NEW m \in SvsMsgs,
         NEW p, p = After(known[s][c], m)
  PROVE  /\ Placed(svsmode_known(s, c, m.nick, m.change), s, c, p)
         /\ p \in People \cup {Nobody} /\ (p = Nobody <=> known[s][c] = Nobody)
<1>1. PICK k : k = known[s]
  OBVIOUS
<1>2. k \in PeopleTabs /\ k[c] \in People \cup {Nobody}
  BY <1>1 DEF UmodeTypes, PeopleTabs
<1>3. /\ p \in People \cup {Nobody} /\ (p = Nobody <=> k[c] = Nobody)
      /\ p = Svs(k[c], m.nick, m.change)
  BY <1>1, <1>2, AfterSvs
<1>4. CASE k[c] # Nobody /\ k[c].nick = m.nick
  BY <1>1, <1>3, <1>4 DEF svsmode_known, Person, Svs, Placed
<1>5. CASE ~ (k[c] # Nobody /\ k[c].nick = m.nick)
  <2>1. p = k[c]
    BY <1>3, <1>5 DEF Svs
  <2>2. svsmode_known(s, c, m.nick, m.change) = known
    BY <1>1, <1>5 DEF svsmode_known, Person
  <2>3. [k EXCEPT ![c] = p] = k
    BY <1>2, <2>1 DEF PeopleTabs
  <2>4. [known EXCEPT ![s] = k] = known
    BY <1>1 DEF UmodeTypes
  <2> QED BY <1>1, <1>3, <2>2, <2>3, <2>4 DEF Placed
<1> QED BY <1>1, <1>3, <1>4, <1>5

\* A change of +r alone touches neither operators nor counters.
LEMMA SvsMild ==
  ASSUME NEW p \in People \cup {Nobody}, NEW m \in SvsMsgs, m.change.add \cup m.change.del = {"r"}
  PROVE  ModesOf(After(p, m)) \ {"r"} = ModesOf(p) \ {"r"}
<1>1. /\ (After(p, m) = Nobody <=> p = Nobody)
      /\ After(p, m) = Svs(p, m.nick, m.change)
  BY AfterSvs
<1>2. CASE p # Nobody /\ p.nick = m.nick
  <2>1. PICK um : um = Applied(p.umode, [add |-> m.change.add \ {"o", "O"}, del |-> m.change.del])
    OBVIOUS
  <2>2. um \ {"r"} = p.umode \ {"r"}
    BY <2>1 DEF Applied
  <2>3. p \in People /\ p.umode \in SUBSET Letters
    BY <1>2, PersonFields
  <2>4. um \in SUBSET Letters
    BY <2>1, <2>3, SvsMsg DEF Applied
  <2>5. PICK z : z = [p EXCEPT !.umode = um]
    OBVIOUS
  <2>6. z.umode = um
    BY <2>3, <2>4, <2>5, PersonFields
  <2>7. After(p, m) = z
    BY <1>1, <1>2, <2>1, <2>5 DEF Svs
  <2> QED BY <1>1, <1>2, <2>2, <2>6, <2>7 DEF ModesOf
<1>3. CASE ~ (p # Nobody /\ p.nick = m.nick)
  BY <1>1, <1>3 DEF Svs
<1> QED BY <1>2, <1>3

\* Nobody becomes an operator this way.
LEMMA SvsNoOper ==
  ASSUME NEW p \in People \cup {Nobody}, NEW m \in SvsMsgs
  PROVE  IsAnOper(ModesOf(After(p, m))) => IsAnOper(ModesOf(p))
<1>1. /\ (After(p, m) = Nobody <=> p = Nobody)
      /\ After(p, m) = Svs(p, m.nick, m.change)
  BY AfterSvs
<1>2. CASE p # Nobody /\ p.nick = m.nick
  <2>1. PICK um : um = Applied(p.umode, [add |-> m.change.add \ {"o", "O"}, del |-> m.change.del])
    OBVIOUS
  <2>2. IsAnOper(um) => IsAnOper(p.umode)
    BY <2>1 DEF Applied, IsAnOper
  <2>3. p \in People /\ p.umode \in SUBSET Letters
    BY <1>2, PersonFields
  <2>4. um \in SUBSET Letters
    BY <2>1, <2>3, SvsMsg DEF Applied
  <2>5. PICK z : z = [p EXCEPT !.umode = um]
    OBVIOUS
  <2>6. z.umode = um
    BY <2>3, <2>4, <2>5, PersonFields
  <2>7. After(p, m) = z
    BY <1>1, <1>2, <2>1, <2>5 DEF Svs
  <2> QED BY <1>1, <1>2, <2>2, <2>6, <2>7 DEF ModesOf
<1>3. CASE ~ (p # Nobody /\ p.nick = m.nick)
  BY <1>1, <1>3 DEF Svs
<1> QED BY <1>2, <1>3

LEMMA UmodeForce ==
  ASSUME UmodeInv, NEW c \in Chatters, NEW ch \in Forced, m_svsmode(c, ch)
  PROVE  UmodeInv'
<1>0. UmodeTypes /\ 2 \in Both
  BY DEF UmodeInv, Both
<1>1. PICK k, k2, q1, q2 : k = known[1] /\ k2 = known[2] /\ q1 = toward[1] /\ q2 = toward[2]
  OBVIOUS
<1>2. /\ k \in PeopleTabs /\ k2 \in PeopleTabs /\ q1 \in Seq(SvsMsgs) /\ q2 \in Seq(UserMsgs)
      /\ known \in [Both -> PeopleTabs] /\ toward \in [Both -> Seq(UserMsgs \cup SvsMsgs)]
      /\ counts \in [Both -> [oper : Int, invisi : Int]] /\ past \in PastRecs
  BY <1>0, <1>1 DEF UmodeTypes, Both
<1>3. k2[c] # Nobody /\ k2[c] \in People /\ k2[c] \in People \cup {Nobody} /\ k2[c].nick \in Nat
  <2>1. k2[c] # Nobody /\ k2[c] \in People
    BY <1>1, <1>2 DEF m_svsmode, Person, PeopleTabs
  <2> QED BY <2>1, PersonFields
<1>4. ch \in [add : SUBSET Letters, del : SUBSET Letters]
  BY DEF Forced, Tried, Letters
<1>5. PICK n \in Nat : n = k2[c].nick
  BY <1>3
<1>6. PICK m : m = [cmd |-> "SVSMODE", user |-> c, nick |-> n, change |-> ch]
  OBVIOUS
<1>7. m \in SvsMsgs /\ m.user = c /\ m.nick = n /\ m.change = ch
  BY <1>4, <1>5, <1>6 DEF SvsMsgs
<1>8. PICK p : p = After(k2[c], m)
  OBVIOUS
<1>9. PICK j, r : j = [k2 EXCEPT ![c] = p] /\ r = Append(q1, m)
  OBVIOUS
<1>10. p \in People \cup {Nobody} /\ (p = Nobody <=> k2[c] = Nobody)
  BY <1>3, <1>7, <1>8, AfterSvs
<1>11. j \in PeopleTabs /\ j[c] = p /\ \A d \in Chatters : d # c => j[d] = k2[d]
  BY <1>2, <1>9, <1>10 DEF PeopleTabs
<1>12. known' = [known EXCEPT ![2] = j]
  <2>1. known' = svsmode_known(2, c, n, ch)
    BY <1>1, <1>5 DEF m_svsmode
  <2>2. p = After(known[2][c], m)
    BY <1>1, <1>8
  <2>3. Placed(svsmode_known(2, c, m.nick, m.change), 2, c, p)
    BY <1>0, <1>7, <2>2, SvsTable
  <2> QED BY <1>1, <1>7, <1>9, <2>1, <2>3 DEF Placed
<1>13. toward' = [toward EXCEPT ![1] = r]
  BY <1>1, <1>5, <1>6, <1>9 DEF m_svsmode, Queue
<1>14. r \in Seq(SvsMsgs) /\ r \in Seq(UserMsgs \cup SvsMsgs)
  BY <1>2, <1>7, <1>9
<1>15. /\ known' \in [Both -> PeopleTabs] /\ known'[1] = k /\ known'[2] = j
       /\ toward' \in [Both -> Seq(UserMsgs \cup SvsMsgs)] /\ toward'[1] = r /\ toward'[2] = q2
  BY <1>1, <1>2, <1>11, <1>12, <1>13, <1>14 DEF Both
<1>16. PICK X, Y, G, H : /\ X = past.crossed /\ G = past.granted
                         /\ Y = Command(c, 2).crossed
                         /\ H = IF "r" \in ch.add THEN G \cup {<<c, n>>} ELSE G
  OBVIOUS
<1>17. /\ past' \in PastRecs /\ past'.granted = H /\ past'.crossed = Y
       /\ past'.drifted = FALSE => past.drifted = FALSE /\ ch.add \cup ch.del = {"r"}
       /\ X \subseteq Y /\ (Silent(q2, c) \/ c \in Y)
  <2>1. PICK f : f = Command(c, 2)
    OBVIOUS
  <2>2. /\ f \in PastRecs /\ f.drifted = past.drifted /\ f.granted = past.granted
        /\ past.crossed \subseteq f.crossed /\ (Silent(toward[2], c) \/ c \in f.crossed)
    BY <1>0, <2>1, CommandIs
  <2>3. PICK g : g = [f EXCEPT !.granted = H]
    OBVIOUS
  <2>4. G \in SUBSET (Chatters \X Nat) /\ <<c, n>> \in Chatters \X Nat
    BY <1>2, <1>16 DEF PastRecs
  <2>5. H \in SUBSET (Chatters \X Nat)
    BY <1>16, <2>4
  <2>6. g \in PastRecs /\ g.granted = H /\ g.crossed = f.crossed /\ g.drifted = f.drifted
    BY <2>2, <2>3, <2>5 DEF PastRecs
  <2>7. PICK e : e = [g EXCEPT !.drifted = past.drifted \/ ch.del \cup ch.add # {"r"}]
    OBVIOUS
  <2>8. past' = e
    <3>1. past' = [f EXCEPT !.granted = H, !.drifted = f.drifted \/ ch.del \cup ch.add # {"r"}]
      BY <1>1, <1>5, <1>16, <2>1, <2>2 DEF m_svsmode
    <3> QED BY <2>2, <2>3, <2>7, <3>1
  <2>9. e \in PastRecs /\ e.granted = H /\ e.crossed = f.crossed
    BY <2>6, <2>7 DEF PastRecs
  <2>10. e.drifted = FALSE => past.drifted = FALSE /\ ch.add \cup ch.del = {"r"}
    BY <1>2, <2>6, <2>7 DEF PastRecs
  <2> QED BY <1>1, <1>16, <2>1, <2>2, <2>8, <2>9, <2>10
<1>18. counts' = counts /\ operList' = operList /\ oper' = oper /\ attached' = attached
  BY DEF m_svsmode
<1>19. UmodeTypes'
  BY <1>2, <1>14, <1>15, <1>17, <1>18 DEF UmodeTypes
<1>20. UmodeCounts'
  <2>1. SUFFICES ASSUME past'.drifted = FALSE
                 PROVE  counts[1] = Tally(k) /\ counts[2] = Tally(j) /\ Mild(r)
    BY <1>15, <1>18 DEF UmodeCounts
  <2>2. past.drifted = FALSE /\ ch.add \cup ch.del = {"r"}
    BY <1>17, <2>1
  <2>3. counts[1] = Tally(k) /\ counts[2] = Tally(k2) /\ Mild(q1)
    BY <1>1, <2>2 DEF UmodeInv, UmodeCounts
  <2>4. Mild(r)
    BY <1>2, <1>7, <1>9, <2>2, <2>3 DEF Mild
  <2>5. ModesOf(p) \ {"r"} = ModesOf(k2[c]) \ {"r"}
    BY <1>3, <1>7, <1>8, <2>2, SvsMild
  <2>6. PutUser(j, k2, c, p)
    BY <1>9 DEF PutUser
  <2>7. Tally(j) = Tally(k2)
    BY <1>2, <1>10, <2>5, <2>6, TallySame
  <2> QED BY <2>3, <2>4, <2>7
<1>21. UmodeSeen'
  <2>1. G \subseteq H /\ ("r" \in m.change.add => <<c, m.nick>> \in H)
    BY <1>7, <1>16
  <2>2. ASSUME NEW d \in Chatters PROVE Seen(d, r, q2, k[d], j[d], Y, H)
    <3>1. Seen(d, q1, q2, k[d], k2[d], X, G)
      BY <1>1, <1>16 DEF UmodeInv, UmodeSeen
    <3>2. k[d] \in People \cup {Nobody}
      BY <1>2 DEF PeopleTabs
    <3>3. CASE d = c
      <4>1. Seen(c, q1, q2, k[c], k2[c], X, G) /\ k[c] \in People \cup {Nobody} /\ m.nick = k2[c].nick
        BY <1>5, <1>7, <3>1, <3>2, <3>3
      <4>2. Seen(c, r, q2, k[c], p, Y, H)
        BY <1>2, <1>3, <1>7, <1>8, <1>9, <1>17, <2>1, <4>1, SeenForced, ZenonT(40)
      <4> QED BY <1>11, <3>3, <4>2
    <3>4. CASE d # c
      <4>1. Apart(r, q1, SvsMsgs, d) /\ Apart(q2, q2, UserMsgs, d)
        BY <1>7, <1>9, <3>4 DEF Apart
      <4>2. (d \in X => d \in Y) /\ \A i : <<d, i>> \in G => <<d, i>> \in H
        BY <1>17, <2>1
      <4>3. Seen(d, r, q2, k[d], k2[d], Y, H)
        BY <1>2, <3>1, <4>1, <4>2, SeenApart
      <4> QED BY <1>11, <3>4, <4>3
    <3> QED BY <3>3, <3>4
  <2> QED BY <1>15, <1>17, <2>2 DEF UmodeSeen
<1> QED BY <1>1, <1>15, <1>18, <1>19, <1>20, <1>21 DEF UmodeInv

\* Server 2 hears of user c.
LEMMA UmodeHear ==
  ASSUME UmodeInv, receive2
  PROVE  UmodeInv'
<1>0. UmodeTypes
  BY DEF UmodeInv
<1>1. PICK k, k2, q1, q2 : k = known[1] /\ k2 = known[2] /\ q1 = toward[1] /\ q2 = toward[2]
  OBVIOUS
<1>2. /\ k \in PeopleTabs /\ k2 \in PeopleTabs /\ q1 \in Seq(SvsMsgs) /\ q2 \in Seq(UserMsgs)
      /\ known \in [Both -> PeopleTabs] /\ toward \in [Both -> Seq(UserMsgs \cup SvsMsgs)]
      /\ counts \in [Both -> [oper : Int, invisi : Int]] /\ past \in PastRecs
  BY <1>0, <1>1 DEF UmodeTypes, Both
<1>3. q2 # << >>
  BY <1>1 DEF receive2
<1>4. PICK m \in UserMsgs : m = Head(q2)
  BY <1>2, <1>3
<1>5. PICK c \in Chatters : c = m.user
  BY <1>4, UserMsg
<1>6. PICK p, r : p = After(k2[c], m) /\ r = Tail(q2)
  OBVIOUS
<1>7. k2[c] \in People \cup {Nobody}
  BY <1>2 DEF PeopleTabs
<1>8. PICK X, G : X = past.crossed /\ G = past.granted
  OBVIOUS
<1>9. ASSUME NEW d \in Chatters PROVE Seen(d, q1, q2, k[d], k2[d], X, G)
  BY <1>1, <1>8 DEF UmodeInv, UmodeSeen
<1>10. Seen(c, q1, r, k[c], p, X, G) /\ (m.cmd = "NICK" <=> k2[c] = Nobody)
  <2>1. k[c] \in People \cup {Nobody} /\ Seen(c, q1, q2, k[c], k2[c], X, G)
    BY <1>2, <1>9 DEF PeopleTabs
  <2>2. Head(q2).user = c /\ p = After(k2[c], Head(q2))
    BY <1>4, <1>5, <1>6
  <2>3. PICK x, y : x = k[c] /\ y = k2[c]
    OBVIOUS
  <2>4. /\ x \in People \cup {Nobody} /\ y \in People \cup {Nobody} /\ Seen(c, q1, q2, x, y, X, G)
        /\ Head(q2).user = c /\ p = After(y, Head(q2)) /\ r = Tail(q2)
    BY <1>6, <1>7, <2>1, <2>2, <2>3
  <2>5. q1 \in Seq(SvsMsgs) /\ q2 \in Seq(UserMsgs)
    BY <1>2
  <2>6. Seen(c, q1, r, x, p, X, G) /\ (Head(q2).cmd = "NICK" <=> y = Nobody)
    BY <1>3, <2>4, <2>5, SeenHeard, ZenonT(60)
  <2> QED BY <1>4, <2>3, <2>6
<1>11. p \in People \cup {Nobody} /\ (p = Nobody <=> m.cmd = "QUIT")
  BY <1>6, <1>7, <1>10, AfterUser
<1>12. PICK j : j = [k2 EXCEPT ![c] = p]
  OBVIOUS
<1>13. j \in PeopleTabs /\ j[c] = p /\ \A d \in Chatters : d # c => j[d] = k2[d]
  BY <1>2, <1>11, <1>12 DEF PeopleTabs
<1>14. PutUser(j, k2, c, p)
  BY <1>12 DEF PutUser
<1>15. r \in Seq(UserMsgs) /\ r \in Seq(UserMsgs \cup SvsMsgs)
  BY <1>2, <1>3, <1>6
<1>16. toward' = [toward EXCEPT ![2] = r] /\ past' = past
  BY <1>1, <1>6 DEF receive2
<1>17. PICK t : t = tallied(counts[2], ModesOf(k2[c]), ModesOf(p))
  OBVIOUS
<1>18. known' = [known EXCEPT ![2] = j] /\ counts' = [counts EXCEPT ![2] = t]
  <2>1. CASE m.cmd = "NICK"
    <3>1. /\ known' = [known EXCEPT ![2][c] = [nick |-> 0, umode |-> m.umode]]
          /\ counts' = [counts EXCEPT ![2] = tallied(counts[2], {}, m.umode)]
      BY <1>1, <1>4, <1>5, <2>1 DEF receive2
    <3>2. p = [nick |-> 0, umode |-> m.umode]
      BY <1>6, <2>1 DEF After
    <3>3. ModesOf(k2[c]) = {} /\ ModesOf(p) = m.umode
      BY <1>10, <1>11, <2>1, <3>2 DEF ModesOf
    <3> QED BY <1>1, <1>12, <1>17, <3>1, <3>2, <3>3
  <2>2. CASE m.cmd = "QUIT"
    <3>1. /\ known' = [known EXCEPT ![2][c] = Nobody]
          /\ counts' = [counts EXCEPT ![2] = tallied(counts[2], k2[c].umode, {})]
      BY <1>1, <1>4, <1>5, <2>2 DEF receive2
    <3>2. p = Nobody /\ k2[c] # Nobody
      BY <1>10, <1>11, <2>2
    <3>3. ModesOf(k2[c]) = k2[c].umode /\ ModesOf(p) = {}
      BY <3>2 DEF ModesOf
    <3> QED BY <1>1, <1>12, <1>17, <3>1, <3>2, <3>3
  <2>3. CASE m.cmd = "NEWNICK"
    <3>1. known' = [known EXCEPT ![2][c] = renamed(k2[c])] /\ counts' = counts
      BY <1>1, <1>4, <1>5, <2>3 DEF receive2
    <3>2. p = renamed(k2[c])
      BY <1>6, <2>3 DEF After
    <3>3. k2[c] # Nobody /\ k2[c] \in People /\ p # Nobody
      BY <1>7, <1>10, <1>11, <2>3
    <3>4. ModesOf(p) = ModesOf(k2[c]) \ {"r"}
      BY <3>2, <3>3 DEF ModesOf, renamed
    <3>5. t = counts[2]
      <4>1. PICK n : n = counts[2]
        OBVIOUS
      <4>2. n.oper \in Int /\ n.invisi \in Int /\ n = [oper |-> n.oper, invisi |-> n.invisi]
        BY <1>2, <4>1 DEF Both
      <4>3. Step(IsAnOper, ModesOf(k2[c]), ModesOf(p)) = 0 /\ Step(Invisible, ModesOf(k2[c]), ModesOf(p)) = 0
        BY <3>4 DEF Step, IsAnOper, Invisible
      <4> QED BY <1>17, <4>1, <4>2, <4>3 DEF tallied
    <3>6. [counts EXCEPT ![2] = t] = counts
      BY <1>2, <3>5
    <3> QED BY <1>1, <1>12, <3>1, <3>2, <3>6
  <2>4. CASE m.cmd = "MODE"
    <3>1. PICK new : new = Applied(k2[c].umode, m.change)
      OBVIOUS
    <3>2. /\ known' = [known EXCEPT ![2][c].umode = new]
          /\ counts' = [counts EXCEPT ![2] = tallied(counts[2], k2[c].umode, new)]
      BY <1>1, <1>4, <1>5, <2>4, <3>1 DEF receive2
    <3>3. p = [k2[c] EXCEPT !.umode = new]
      BY <1>6, <2>4, <3>1 DEF After
    <3>4. k2[c] # Nobody /\ k2[c] \in People /\ p # Nobody
      BY <1>7, <1>10, <1>11, <2>4
    <3>5. p.umode = new
      BY <3>3, <3>4 DEF People
    <3>6. ModesOf(k2[c]) = k2[c].umode /\ ModesOf(p) = new
      BY <3>4, <3>5 DEF ModesOf
    <3> QED BY <1>1, <1>12, <1>17, <3>2, <3>3, <3>6
  <2> QED BY <1>4, <2>1, <2>2, <2>3, <2>4, UserMsg
<1>19. /\ known' \in [Both -> PeopleTabs] /\ known'[1] = k /\ known'[2] = j
       /\ toward' \in [Both -> Seq(UserMsgs \cup SvsMsgs)] /\ toward'[1] = q1 /\ toward'[2] = r
  BY <1>1, <1>2, <1>13, <1>15, <1>16, <1>18 DEF Both
<1>20. t \in [oper : Int, invisi : Int]
  <2>1. 2 \in Both
    BY DEF Both
  <2> QED BY <1>2, <1>17, <2>1, TallyType
<1>21. counts' \in [Both -> [oper : Int, invisi : Int]] /\ counts'[1] = counts[1] /\ counts'[2] = t
  BY <1>2, <1>18, <1>20 DEF Both
<1>22. UmodeTypes'
  BY <1>2, <1>15, <1>16, <1>19, <1>21 DEF UmodeTypes
<1>23. UmodeCounts'
  <2>1. SUFFICES ASSUME past.drifted = FALSE
                 PROVE  counts'[1] = Tally(k) /\ counts'[2] = Tally(j) /\ Mild(q1)
    BY <1>16, <1>19 DEF UmodeCounts
  <2>2. counts[1] = Tally(k) /\ counts[2] = Tally(k2) /\ Mild(q1)
    BY <1>1, <2>1 DEF UmodeInv, UmodeCounts
  <2>3. t = Tally(j)
    BY <1>2, <1>11, <1>14, <1>17, <2>2, TallyStep
  <2> QED BY <1>21, <2>2, <2>3
<1>24. UmodeSeen'
  <2>1. ASSUME NEW d \in Chatters PROVE Seen(d, q1, r, k[d], j[d], X, G)
    <3>1. CASE d = c
      BY <1>10, <1>13, <3>1
    <3>2. CASE d # c
      <4>1. Apart(q1, q1, SvsMsgs, d) /\ Apart(r, q2, UserMsgs, d)
        BY <1>3, <1>4, <1>5, <1>6, <3>2 DEF Apart
      <4>2. Seen(d, q1, q2, k[d], k2[d], X, G)
        BY <1>9
      <4>3. Seen(d, q1, r, k[d], k2[d], X, G)
        BY <1>2, <4>1, <4>2, SeenApart
      <4> QED BY <1>13, <3>2, <4>3
    <3> QED BY <3>1, <3>2
  <2> QED BY <1>8, <1>16, <1>19, <2>1 DEF UmodeSeen
<1>25. operList' = operList /\ oper' = oper /\ attached' = attached
  BY DEF receive2
<1> QED BY <1>1, <1>19, <1>22, <1>23, <1>24, <1>25 DEF UmodeInv

\* The user's own server obeys services.
LEMMA UmodeObey ==
  ASSUME UmodeInv, receive1
  PROVE  UmodeInv'
<1>0. UmodeTypes /\ 1 \in Both
  BY DEF UmodeInv, Both
<1>1. PICK k, k2, q1, q2 : k = known[1] /\ k2 = known[2] /\ q1 = toward[1] /\ q2 = toward[2]
  OBVIOUS
<1>2. /\ k \in PeopleTabs /\ k2 \in PeopleTabs /\ q1 \in Seq(SvsMsgs) /\ q2 \in Seq(UserMsgs)
      /\ known \in [Both -> PeopleTabs] /\ toward \in [Both -> Seq(UserMsgs \cup SvsMsgs)]
      /\ past \in PastRecs
  BY <1>0, <1>1 DEF UmodeTypes, Both
<1>3. q1 # << >>
  BY <1>1 DEF receive1
<1>4. PICK m \in SvsMsgs : m = Head(q1)
  BY <1>2, <1>3
<1>5. PICK c \in Chatters : c = m.user
  BY <1>4, SvsMsg
<1>6. PICK p, r : p = After(k[c], m) /\ r = Tail(q1)
  OBVIOUS
<1>7. k[c] \in People \cup {Nobody}
  BY <1>2 DEF PeopleTabs
<1>8. PICK X, G : X = past.crossed /\ G = past.granted
  OBVIOUS
<1>9. ASSUME NEW d \in Chatters PROVE Seen(d, q1, q2, k[d], k2[d], X, G)
  BY <1>1, <1>8 DEF UmodeInv, UmodeSeen
<1>10. Seen(c, r, q2, p, k2[c], X, G)
  <2>1. k2[c] \in People \cup {Nobody} /\ Seen(c, q1, q2, k[c], k2[c], X, G)
    BY <1>2, <1>9 DEF PeopleTabs
  <2>2. Head(q1).user = c /\ p = After(k[c], Head(q1))
    BY <1>4, <1>5, <1>6
  <2> QED BY <1>2, <1>3, <1>4, <1>6, <1>7, <2>1, <2>2, SeenObeyed
<1>11. p \in People \cup {Nobody} /\ (p = Nobody <=> k[c] = Nobody)
  BY <1>6, <1>7, AfterSvs
<1>12. PICK j : j = [k EXCEPT ![c] = p]
  OBVIOUS
<1>13. j \in PeopleTabs /\ j[c] = p /\ \A d \in Chatters : d # c => j[d] = k[d]
  BY <1>2, <1>11, <1>12 DEF PeopleTabs
<1>14. PutUser(j, k, c, p)
  BY <1>12 DEF PutUser
<1>15. r \in Seq(SvsMsgs) /\ r \in Seq(UserMsgs \cup SvsMsgs)
  BY <1>2, <1>3, <1>6
<1>16. toward' = [toward EXCEPT ![1] = r] /\ past' = past /\ counts' = counts
  BY <1>1, <1>6 DEF receive1
<1>17. known' = [known EXCEPT ![1] = j]
  <2>1. known' = svsmode_known(1, c, m.nick, m.change)
    BY <1>1, <1>4, <1>5 DEF receive1
  <2>2. p = After(known[1][c], m)
    BY <1>1, <1>6
  <2>3. Placed(svsmode_known(1, c, m.nick, m.change), 1, c, p)
    BY <1>0, <2>2, SvsTable
  <2> QED BY <1>1, <1>12, <2>1, <2>3 DEF Placed
<1>18. /\ known' \in [Both -> PeopleTabs] /\ known'[1] = j /\ known'[2] = k2
       /\ toward' \in [Both -> Seq(UserMsgs \cup SvsMsgs)] /\ toward'[1] = r /\ toward'[2] = q2
  BY <1>1, <1>2, <1>13, <1>15, <1>16, <1>17 DEF Both
<1>19. UmodeTypes'
  BY <1>0, <1>2, <1>15, <1>16, <1>18 DEF UmodeTypes
<1>20. UmodeCounts'
  <2>1. SUFFICES ASSUME past.drifted = FALSE
                 PROVE  counts[1] = Tally(j) /\ counts[2] = Tally(k2) /\ Mild(r)
    BY <1>16, <1>18 DEF UmodeCounts
  <2>2. counts[1] = Tally(k) /\ counts[2] = Tally(k2) /\ Mild(q1)
    BY <1>1, <2>1 DEF UmodeInv, UmodeCounts
  <2>3. Mild(r)
    BY <1>2, <1>3, <1>6, <2>2 DEF Mild
  <2>4. m.change.add \cup m.change.del = {"r"}
    <3>1. 1 \in 1 .. Len(q1) /\ q1[1] = m
      BY <1>2, <1>3, <1>4
    <3> QED BY <2>2, <3>1 DEF Mild
  <2>5. ModesOf(p) \ {"r"} = ModesOf(k[c]) \ {"r"}
    BY <1>6, <1>7, <2>4, SvsMild
  <2>6. Tally(j) = Tally(k)
    BY <1>2, <1>11, <1>14, <2>5, TallySame
  <2> QED BY <2>2, <2>3, <2>6
<1>21. UmodeSeen'
  <2>1. ASSUME NEW d \in Chatters PROVE Seen(d, r, q2, j[d], k2[d], X, G)
    <3>1. CASE d = c
      BY <1>10, <1>13, <3>1
    <3>2. CASE d # c
      <4>1. Apart(r, q1, SvsMsgs, d) /\ Apart(q2, q2, UserMsgs, d)
        BY <1>3, <1>4, <1>5, <1>6, <3>2 DEF Apart
      <4>2. Seen(d, q1, q2, k[d], k2[d], X, G)
        BY <1>9
      <4>3. Seen(d, r, q2, k[d], k2[d], X, G)
        BY <1>2, <4>1, <4>2, SeenApart
      <4> QED BY <1>13, <3>2, <4>3
    <3> QED BY <3>1, <3>2
  <2> QED BY <1>8, <1>16, <1>18, <2>1 DEF UmodeSeen
<1>22. Listing(operList, k) /\ Blocks(oper, attached, k) /\ (IsAnOper(ModesOf(p)) => IsAnOper(ModesOf(k[c])))
  <2>1. IsAnOper(ModesOf(p)) => IsAnOper(ModesOf(k[c]))
    BY <1>6, <1>7, SvsNoOper
  <2> QED BY <1>1, <2>1 DEF UmodeInv
<1>23. oper' = oper /\ attached' = attached
  BY DEF receive1
<1>24. Blocks(oper, attached, j)
  BY <1>2, <1>11, <1>14, <1>22, BlocksStep
<1>25. Listing(operList', j)
  <2>1. PICK l : l = operList
    OBVIOUS
  <2>2. /\ known'[1][c] = p /\ Listing(l, k)
        /\ operList' = IF k[c] # Nobody /\ IsAnOper(k[c].umode) /\ ~ IsAnOper(known'[1][c].umode)
                       THEN without_oper(l, c) ELSE l
    BY <1>1, <1>4, <1>5, <1>13, <1>18, <1>22, <2>1 DEF receive1, Person
  <2>3. /\ IsAnOper(ModesOf(k[c])) /\ ~ IsAnOper(ModesOf(p)) => Listing(without_oper(l, c), j)
        /\ (IsAnOper(ModesOf(k[c])) <=> IsAnOper(ModesOf(p))) => Listing(l, j)
    <3>1. Listing(l, k) /\ k \in PeopleTabs /\ p \in People \cup {Nobody} /\ PutUser(j, k, c, p)
      BY <1>2, <1>11, <1>14, <2>2
    <3> QED BY <3>1, ListingStep
  <2>4. CASE IsAnOper(ModesOf(k[c])) /\ ~ IsAnOper(ModesOf(p))
    <3>1. k[c] # Nobody /\ p # Nobody
      BY <1>11, <2>4 DEF ModesOf, IsAnOper
    <3>2. operList' = without_oper(l, c)
      BY <2>2, <2>4, <3>1 DEF ModesOf
    <3>3. Listing(without_oper(l, c), j)
      BY <2>4, <2>3
    <3> QED BY <3>2, <3>3
  <2>5. CASE IsAnOper(ModesOf(k[c])) <=> IsAnOper(ModesOf(p))
    <3>1. operList' = l
      BY <1>11, <2>2, <2>5 DEF ModesOf
    <3>2. Listing(l, j)
      BY <2>5, <2>3
    <3> QED BY <3>1, <3>2
  <2> QED BY <1>22, <2>4, <2>5
<1> QED BY <1>18, <1>19, <1>20, <1>21, <1>23, <1>24, <1>25 DEF UmodeInv

LEMMA UmodeLusers ==
  ASSUME UmodeInv, NEW s \in Both, send_lusers(s)
  PROVE  UmodeInv'
<1>1. UNCHANGED <<known, oper, attached, operList, toward, past>>
  BY DEF send_lusers
<1>2. counts' = [counts EXCEPT ![s] = Tally(known[s])]
  BY RecountTally DEF send_lusers
<1>3. UmodeTypes /\ UmodeCounts /\ UmodeSeen /\ Listing(operList, known[1]) /\ Blocks(oper, attached, known[1])
  BY DEF UmodeInv
<1>4. ASSUME NEW k PROVE Tally(k) \in [oper : Int, invisi : Int]
  <2>1. OpersIn(k) \in SUBSET Chatters /\ HiddenIn(k) \in SUBSET Chatters
    BY DEF OpersIn, HiddenIn
  <2>2. Cardinality(OpersIn(k)) \in Nat /\ Cardinality(HiddenIn(k)) \in Nat
    BY <2>1, UmodesAssumption, FS_Subset, FS_CardinalityType
  <2> QED BY <2>2 DEF Tally
<1>5. counts' \in [Both -> [oper : Int, invisi : Int]]
  BY <1>2, <1>3, <1>4 DEF UmodeTypes
<1>6. UmodeTypes'
  BY <1>1, <1>3, <1>5 DEF UmodeTypes
<1>7. UmodeCounts'
  BY <1>1, <1>2, <1>3 DEF UmodeCounts, UmodeTypes, Both
<1>8. UmodeSeen'
  BY <1>1, <1>3 DEF UmodeSeen
<1> QED BY <1>1, <1>3, <1>6, <1>7, <1>8 DEF UmodeInv

LEMMA UmodeStep == UmodeInv /\ [UmodesNext]_umodeVars => UmodeInv'
<1> SUFFICES ASSUME UmodeInv, [UmodesNext]_umodeVars PROVE UmodeInv'
  OBVIOUS
<1>1. CASE UNCHANGED umodeVars
  BY <1>1 DEF umodeVars, UmodeInv, UmodeTypes, UmodeCounts, UmodeSeen
<1>2. CASE receive1
  BY <1>2, UmodeObey
<1>3. CASE receive2
  BY <1>3, UmodeHear
<1>4. ASSUME NEW s \in Both, send_lusers(s) PROVE UmodeInv'
  BY <1>4, UmodeLusers
<1>5. ASSUME NEW c \in Chatters, NEW um \in {{}, {"i"}}, register_person(c, um) PROVE UmodeInv'
  BY <1>5, UmodeRegister
<1>6. ASSUME NEW c \in Chatters, m_quit_person(c) PROVE UmodeInv'
  BY <1>6, UmodeQuit
<1>7. ASSUME NEW c \in Chatters, m_nick_person(c) PROVE UmodeInv'
  BY <1>7, UmodeRename
<1>8. ASSUME NEW c \in Chatters, NEW b \in OperBlocks, m_oper_person(c, b) PROVE UmodeInv'
  BY <1>8, UmodeOper
<1>9. ASSUME NEW c \in Chatters, NEW ch \in Tried, m_umode_person(c, ch) PROVE UmodeInv'
  BY <1>9, UmodeAsk
<1>10. ASSUME NEW c \in Chatters, NEW ch \in Forced, m_svsmode(c, ch) PROVE UmodeInv'
  BY <1>10, UmodeForce
<1> QED BY <1>1, <1>2, <1>3, <1>4, <1>5, <1>6, <1>7, <1>8, <1>9, <1>10 DEF UmodesNext

\* oper_list has exactly the operators of this server, each with a block that is not freed
\* while somebody points to it, and the counters are right until services interfere, for
\* any number of users and blocks (m_oper, m_umode, m_svsmode, exit_client).
THEOREM OperTablesAlwaysRight == UmodesSpec => []OperTables
<1>1. UmodeInv => OperTables
  <2> SUFFICES ASSUME UmodeInv PROVE OperTables
    OBVIOUS
  <2>1. UmodeCounts /\ Listing(operList, known[1]) /\ Blocks(oper, attached, known[1])
    BY DEF UmodeInv
  <2>2. ASSUME NEW c \in Chatters
        PROVE  /\ Cardinality({i \in DOMAIN operList : operList[i] = c})
                    = IF Person(1, c) /\ IsAnOper(known[1][c].umode) THEN 1 ELSE 0
               /\ Person(1, c) /\ IsAnOper(known[1][c].umode) => oper[c] # Nobody
    <3>1. c \in OpersIn(known[1]) <=> Person(1, c) /\ IsAnOper(known[1][c].umode)
      BY DEF OpersIn, Person
    <3>2. /\ operList \in Seq(Chatters) /\ IsInjective(operList) /\ Range(operList) = OpersIn(known[1])
          /\ \A d \in OpersIn(known[1]) : oper[d] # Nobody
      BY <2>1 DEF Listing, Blocks
    <3>3. Cardinality({i \in DOMAIN operList : operList[i] = c}) = IF c \in Range(operList) THEN 1 ELSE 0
      BY <3>2, CountedOnce
    <3> QED BY <3>1, <3>2, <3>3
  <2>3. \A b \in OperBlocks : attached[b] >= Cardinality({c \in Chatters : oper[c] = b})
    BY <2>1 DEF Blocks
  <2>4. ~ past.drifted => \A s \in Both : counts[s] = Recount(s)
    <3>1. past.drifted \in BOOLEAN
      BY DEF UmodeInv, UmodeTypes, PastRecs
    <3>2. ~ past.drifted => counts[1] = Tally(known[1]) /\ counts[2] = Tally(known[2])
      BY <2>1, <3>1 DEF UmodeCounts
    <3> QED BY <3>2, RecountTally DEF Both
  <2> QED BY <2>2, <2>3, <2>4 DEF OperTables
<1> QED BY <1>1, UmodeInitInv, UmodeStep, PTL DEF UmodesSpec

\* Once the messages have arrived both servers have the same modes of a user, unless a change
\* by services crossed one by the user, and +r is had by no nick that services have not
\* registered, for any number of users (send_umode_out, m_umode, m_svsmode, m_nick).
THEOREM UmodesAlwaysAgree == UmodesSpec => []UmodesAgree
<1>1. UmodeInv => UmodesAgree
  <2> SUFFICES ASSUME UmodeInv, NEW c \in Chatters
               PROVE  /\ (\A s \in Both : toward[s] = <<>>) /\ c \notin past.crossed => known[1][c] = known[2][c]
                      /\ \A s \in Both : Person(s, c) /\ "r" \in known[s][c].umode =>
                           <<c, known[s][c].nick>> \in past.granted
    BY DEF UmodesAgree
  <2>1. PICK q1, q2, a, b, X, G : /\ q1 = toward[1] /\ q2 = toward[2] /\ a = known[1][c] /\ b = known[2][c]
                                  /\ X = past.crossed /\ G = past.granted
    OBVIOUS
  <2>2. Seen(c, q1, q2, a, b, X, G)
    BY <2>1 DEF UmodeInv, UmodeSeen
  <2>3. ASSUME q1 = << >>, q2 = << >>, c \notin X PROVE a = b
    <3>1. PICK q : q = << >>
      OBVIOUS
    <3>2. q \in Seq({}) /\ Silent(q, c)
      BY <3>1 DEF Silent
    <3>3. Course(q, c, a, b, Does) \/ Course(q, c, b, a, Does)
      BY <2>2, <2>3, <3>1 DEF Seen
    <3> QED BY <3>2, <3>3, CourseSilent
  <2>4. \A p \in {a, b} : p # Nobody /\ "r" \in p.umode => <<c, p.nick>> \in G
    BY <2>2 DEF Seen
  <2> QED BY <2>1, <2>3, <2>4 DEF Both, Person
<1> QED BY <1>1, UmodeInitInv, UmodeStep, PTL DEF UmodesSpec
=============================================================================
