------------------------------- MODULE Whowas -------------------------------
(***************************************************************************)
(* The WHOWAS tables (src/src/whowas.c): a ring of entries, each in the    *)
(* chain of its nick's hash and, while its client is on line, in the list  *)
(* of that client.  m_kill and find_chasing look for a client by a nick it *)
(* had (get_history).  An entry is re-used when the ring comes round to it *)
(* and has to leave both lists then; a client that exits has to leave all  *)
(* entries, because its structure is freed and handed out again.           *)
(***************************************************************************)
EXTENDS Common

CONSTANTS
  HistoryLength,  \* NICKNAMEHISTORYLENGTH
  hashOf,         \* hashOf[n]: hash_whowas_name
  Unhashed        \* hashv = -1: the entry was never used

ASSUME WhowasAssumption ==
  /\ HistoryLength \in Nat \ {0}
  /\ DOMAIN hashOf = Nicks
  /\ \A n \in Nicks : hashOf[n] # Unhashed

VARIABLES
  nick,    \* nick[c]: cptr->name, None for a structure not in use
  now,     \* NOW
  ww       \* the tables: [ring, chain, clist, next]

whowasVars == <<nick, now, ww>>

Slots   == 0 .. HistoryLength - 1
Buckets == {hashOf[n] : n \in Nicks}
Blank   == [hashv |-> Unhashed, name |-> None, logoff |-> 0, online |-> None]

----------------------------------------------------------------------------

\* add_history's beginning: the entry i to be re-used leaves its lists.
unhook(w, i) ==
  LET e == w.ring[i]
  IN IF e.hashv = Unhashed THEN w
     ELSE [w EXCEPT
             !.clist = IF e.online = None THEN @
                       ELSE [w.clist EXCEPT ![e.online] = RemoveFirst(@, i)],
             !.chain = [w.chain EXCEPT ![e.hashv] = RemoveFirst(@, i)]]

\* add_history's end: the slot to use next.
next_slot(i) == IF i + 1 = HistoryLength THEN 0 ELSE i + 1

\* Mutant: at the tail.
add_to_list_tail(s, i) == Append(s, i)

\* add_whowas_to_list, add_whowas_to_clist: at the head.
add_to_list(s, i) == <<i>> \o s

\* add_history: client c gives up nick n at time t; `online' tells whether it
\* goes on under another.
add_history(w0, c, n, t, online) ==
  LET i == w0.next
      w == unhook(w0, i)
  IN [ring  |-> [w.ring EXCEPT ![i] = [hashv |-> hashOf[n], name |-> n, logoff |-> t,
                                       online |-> IF online THEN c ELSE None]],
      chain |-> [w.chain EXCEPT ![hashOf[n]] = add_to_list(@, i)],
      clist |-> IF online THEN [w.clist EXCEPT ![c] = add_to_list(@, i)] ELSE w.clist,
      next  |-> next_slot(i)]

\* Mutant: the list of the client is cut without a visit to the entries.
off_history_cut(w, c) == [w EXCEPT !.clist = [@ EXCEPT ![c] = <<>>]]

\* off_history: no entry is about c any more.
off_history(w, c) ==
  [w EXCEPT
     !.ring  = [i \in Slots |-> IF i \in Range(w.clist[c])
                                THEN [w.ring[i] EXCEPT !.online = None] ELSE w.ring[i]],
     !.clist = [w.clist EXCEPT ![c] = <<>>]]

\* get_history: the first entry of the chain that has the nick and is recent.
Hits(w, n, limit) ==
  LET entry(k) == w.ring[w.chain[hashOf[n]][k]]
  IN {k \in DOMAIN w.chain[hashOf[n]] : entry(k).name = n /\ entry(k).logoff >= now - limit}

get_history(w, n, limit) ==
  LET hits == Hits(w, n, limit)
  IN IF hits = {} THEN None
     ELSE w.ring[w.chain[hashOf[n]][CHOOSE k \in hits : \A j \in hits : k <= j]].online

----------------------------------------------------------------------------
\* A client registers with nick n (its structure comes from make_client, with
\* an empty list).
Connect(c, n) == /\ nick[c] = None /\ nick' = [nick EXCEPT ![c] = n]
                 /\ UNCHANGED <<now, ww>>

\* m_nick, m_svsnick: a registered client changes its nick.  A change of case
\* only is a change as well.
ChangeNick(c, n) == /\ nick[c] # None
                    /\ ww' = add_history(ww, c, nick[c], now, TRUE)
                    /\ nick' = [nick EXCEPT ![c] = n] /\ UNCHANGED now

\* remove_client_from_list: a registered client exits.
remove_client_from_list(c) ==
  /\ nick[c] # None
  /\ ww' = off_history(add_history(ww, c, nick[c], now, FALSE), c)
  /\ nick' = [nick EXCEPT ![c] = None] /\ UNCHANGED now

WhowasTick == now < MaxClock /\ now' = now + 1 /\ UNCHANGED <<nick, ww>>

\* initwhowas.
initwhowas == [ring  |-> [i \in Slots |-> Blank],
               chain |-> [b \in Buckets |-> <<>>],
               clist |-> [c \in Clients |-> <<>>],
               next  |-> 0]

WhowasInit == nick = [c \in Clients |-> None] /\ now = 0 /\ ww = initwhowas

WhowasNext == \/ \E c \in Clients, n \in Nicks : Connect(c, n) \/ ChangeNick(c, n)
              \/ \E c \in Clients : remove_client_from_list(c)
              \/ WhowasTick

WhowasSpec == WhowasInit /\ [][WhowasNext]_whowasVars

----------------------------------------------------------------------------
(* Properties.                                                             *)

Entries == [hashv : Buckets, name : Nicks, logoff : Nat, online : Clients \cup {None}]

\* The ring has no other slots than NICKNAMEHISTORYLENGTH, and whowas_next is
\* one of them whenever add_history uses it.
WhowasTypeOK ==
  /\ nick \in [Clients -> Nicks \cup {None}] /\ now \in Nat
  /\ ww.ring \in [Slots -> Entries \cup {Blank}]
  /\ ww.chain \in [Buckets -> Seq(Slots)]
  /\ ww.clist \in [Clients -> Seq(Slots)]
  /\ ww.next \in Slots

\* A used entry is in the chain of its hash and in no other, in the list of a
\* client exactly while it points to that client, and never points to a
\* structure that is free: the list deletions of whowas.c, which trust this,
\* never corrupt a list.
WhowasLists ==
  /\ WhowasTypeOK
  /\ \A i \in Slots :
       /\ \A b \in Buckets : i \in Range(ww.chain[b]) <=> ww.ring[i].hashv = b
       /\ \A c \in Clients : i \in Range(ww.clist[c]) <=> ww.ring[i].online = c
       /\ ww.ring[i].online # None => nick[ww.ring[i].online] # None

\* The ring as the abstract history sees it: newest first.
Slot(i)  == IF i <= ww.next THEN ww.next - i ELSE ww.next - i + HistoryLength
Used     == {i \in Slots : ww.ring[i].hashv # Unhashed}
History  == [i \in 1 .. Cardinality(Used) |->
               [name   |-> ww.ring[Slot(i)].name,   logoff |-> ww.ring[Slot(i)].logoff,
                online |-> ww.ring[Slot(i)].online]]

Abstract == INSTANCE NickHistory
              WITH past <- History, name <- nick, clock <- now, Length <- HistoryLength

\* The ring implements the history of the last nicks given up.
ImplementsHistory == Abstract!HistSpec

\* get_history answers from the newest record of the nick, whatever other
\* nicks share its hash chain and however the ring was re-used: the client a
\* KILL chases is the last one who had the nick.
ChaseRight ==
  \A n \in Nicks, limit \in 0 .. MaxClock :
    get_history(ww, n, limit) = Abstract!LastHolder(n, limit)

\* Both: the lists of the ring are sound, and answer with the newest record.
WhowasRight == WhowasLists /\ ChaseRight
============================================================================
