------------------------------- MODULE Watch -------------------------------
(***************************************************************************)
(* WATCH (src/src/hash.c, m_watch of src/src/s_serv.c): a client keeps a   *)
(* list of nicks and is told when somebody appears under one of them or    *)
(* leaves it.  The table of nicks points to the clients, the clients to    *)
(* the table's headers; a header without clients is freed.  The notices    *)
(* come from every place where a nick is taken or given up.                *)
(***************************************************************************)
EXTENDS Common

CONSTANTS
  Watchers,   \* the clients of this server who use WATCH
  MaxWatch,   \* MAXWATCH
  Operators   \* the clients exempt from it

ASSUME WatchAssumption ==
  Watchers \subseteq Clients /\ MaxWatch \in Nat \ {0} /\ Operators \subseteq Clients

VARIABLES
  wnick,      \* wnick[c]: the nick of c, None for a structure not in use
  person,     \* the clients that have registered
  header,     \* header[n]: the clients in the watch list of n's header, which
              \* exists while the list is not empty
  watch,      \* watch[c]: the nicks whose headers cptr->watch points to
  watches,    \* watches[c]: cptr->watches
  told,       \* history: told[c][n]: what c was last told of n since it
              \* watches it: TRUE on line, FALSE off line
  forced      \* history: nicks taken or given up by SVSNICK

watchVars == <<wnick, person, header, watch, watches, told, forced>>

Owns(n) == {c \in person : wnick[c] = n}

----------------------------------------------------------------------------
\* hash_check_watch: all clients that watch n are told.
hash_check_watch(t, n, on) ==
  [c \in Clients |-> IF c \in Range(header[n]) THEN [t[c] EXCEPT ![n] = on] ELSE t[c]]

\* show_watch.
show_watch(c, n) == told' = [told EXCEPT ![c][n] = (Owns(n) # {})]

\* c no longer watches the nicks ns: what it was told of them is forgotten.
forget(t, c, ns) == [t EXCEPT ![c] = [n \in Nicks |-> @[n] /\ n \notin ns]]

\* Mutant: a nick that is watched already is added once more.
add_to_watch_again(n, c) ==
  /\ header' = [header EXCEPT ![n] = IF c \in Range(@) THEN @ ELSE <<c>> \o @]
  /\ watch' = [watch EXCEPT ![c] = <<n>> \o @]
  /\ watches' = [watches EXCEPT ![c] = @ + 1]

\* add_to_watch_hash_table.
add_to_watch_hash_table(n, c) ==
  IF c \in Range(header[n]) THEN UNCHANGED <<header, watch, watches>>
  ELSE /\ header' = [header EXCEPT ![n] = <<c>> \o @]
       /\ watch' = [watch EXCEPT ![c] = <<n>> \o @]
       /\ watches' = [watches EXCEPT ![c] = @ + 1]

\* del_from_watch_hash_table.
del_from_watch_hash_table(n, c) ==
  IF c \notin Range(header[n]) THEN UNCHANGED <<header, watch, watches>>
  ELSE /\ header' = [header EXCEPT ![n] = RemoveFirst(@, c)]
       /\ watch' = [watch EXCEPT ![c] = RemoveFirst(@, n)]
       /\ watches' = [watches EXCEPT ![c] = @ - 1]

\* hash_del_watch_list: follows the client's own list.
hash_del_watch_list(c) ==
  /\ header' = [n \in Nicks |-> IF n \in Range(watch[c]) THEN RemoveFirst(header[n], c)
                                ELSE header[n]]
  /\ watch' = [watch EXCEPT ![c] = <<>>]
  /\ watches' = [watches EXCEPT ![c] = 0]

----------------------------------------------------------------------------
\* m_watch +nick.
m_watch_add(c, n) ==
  /\ c \in person \cap Watchers
  /\ watches[c] < MaxWatch \/ c \in Operators
  /\ add_to_watch_hash_table(n, c) /\ show_watch(c, n)
  /\ UNCHANGED <<wnick, person, forced>>

\* m_watch -nick; the reply (show_watch) is the last c hears of it.
m_watch_del(c, n) ==
  /\ c \in person \cap Watchers
  /\ del_from_watch_hash_table(n, c) /\ told' = forget(told, c, {n})
  /\ UNCHANGED <<wnick, person, forced>>

\* m_watch C.
m_watch_clear(c) ==
  /\ c \in person \cap Watchers /\ hash_del_watch_list(c)
  /\ told' = forget(told, c, Nicks)
  /\ UNCHANGED <<wnick, person, forced>>

\* m_watch L: everybody on the list, on line or off.
m_watch_list(c) ==
  /\ c \in person \cap Watchers
  /\ told' = [told EXCEPT ![c] = [n \in Nicks |-> IF n \in Range(watch[c]) THEN Owns(n) # {}
                                                  ELSE @[n]]]
  /\ UNCHANGED <<wnick, person, header, watch, watches, forced>>

----------------------------------------------------------------------------
(* Where nicks are taken and given up.  Nobody else has the nick: see      *)
(* NickUnique of module NickNet.                                           *)

Unowned(n) == \A c \in Clients : wnick[c] # n

\* m_nick before USER: nobody is told.
m_nick_unregistered(c, n) ==
  /\ c \notin person /\ Unowned(n) /\ wnick' = [wnick EXCEPT ![c] = n]
  /\ UNCHANGED <<person, header, watch, watches, told, forced>>

\* register_user.
register_person(c) ==
  /\ c \notin person /\ wnick[c] # None
  /\ person' = person \cup {c} /\ told' = hash_check_watch(told, wnick[c], TRUE)
  /\ UNCHANGED <<wnick, header, watch, watches, forced>>

\* Mutant: the old nick is read after it was replaced.
m_nick_new_only(c, n) ==
  /\ c \in person /\ Unowned(n)
  /\ told' = hash_check_watch(hash_check_watch(told, n, FALSE), n, TRUE)
  /\ wnick' = [wnick EXCEPT ![c] = n]
  /\ UNCHANGED <<person, header, watch, watches, forced>>

\* m_nick of a registered client: told under both nicks.
m_nick(c, n) ==
  /\ c \in person /\ Unowned(n)
  /\ told' = hash_check_watch(hash_check_watch(told, wnick[c], FALSE), n, TRUE)
  /\ wnick' = [wnick EXCEPT ![c] = n]
  /\ UNCHANGED <<person, header, watch, watches, forced>>

\* m_svsnick does not call hash_check_watch.
m_svsnick(c, n) ==
  /\ c \in person /\ Unowned(n)
  /\ wnick' = [wnick EXCEPT ![c] = n] /\ forced' = forced \cup {wnick[c], n}
  /\ UNCHANGED <<person, header, watch, watches, told>>

\* exit_client of a registered client: a local one's list goes first.
exit_person(c) ==
  /\ c \in person /\ hash_del_watch_list(c)
  /\ person' = person \ {c} /\ wnick' = [wnick EXCEPT ![c] = None]
  /\ told' = forget(hash_check_watch(told, wnick[c], FALSE), c, Nicks)
  /\ UNCHANGED forced

\* exit_client before registration.
exit_unregistered(c) ==
  /\ c \notin person /\ wnick[c] # None /\ wnick' = [wnick EXCEPT ![c] = None]
  /\ UNCHANGED <<person, header, watch, watches, told, forced>>

WatchInit ==
  /\ wnick = [c \in Clients |-> None] /\ person = {}
  /\ header = [n \in Nicks |-> <<>>]
  /\ watch = [c \in Clients |-> <<>>] /\ watches = [c \in Clients |-> 0]
  /\ told = [c \in Clients |-> [n \in Nicks |-> FALSE]] /\ forced = {}

WatchNext ==
  \/ \E c \in Clients, n \in Nicks :
       \/ m_watch_add(c, n) \/ m_watch_del(c, n)
       \/ m_nick_unregistered(c, n) \/ m_nick(c, n) \/ m_svsnick(c, n)
  \/ \E c \in Clients : \/ m_watch_clear(c) \/ m_watch_list(c) \/ register_person(c)
                        \/ exit_person(c) \/ exit_unregistered(c)

WatchSpec == WatchInit /\ [][WatchNext]_watchVars

----------------------------------------------------------------------------
(* Properties.                                                             *)

\* The table and the clients' lists mirror each other, without duplicates,
\* and the counter that MAXWATCH is compared with counts the list: the "WATCH
\* debug error" of del_from_watch_hash_table never appears, and
\* hash_check_watch writes only to clients that are there.
WatchMirror ==
  /\ \A c \in Clients, n \in Nicks : c \in Range(header[n]) <=> n \in Range(watch[c])
  /\ \A c \in Clients : watches[c] = Len(watch[c]) /\ IsInjective(watch[c])
  /\ \A n \in Nicks : IsInjective(header[n]) /\ Range(header[n]) \subseteq person

\* What a client was last told of a nick it watches is so, however nicks are
\* taken and given up, unless SVSNICK did it (m_svsnick tells nobody).
WatchAccurate ==
  \A c \in Clients : \A n \in Range(watch[c]) \ forced : told[c][n] = (Owns(n) # {})

\* Both: the list a client keeps, and what it was told.
WatchRight == WatchMirror /\ WatchAccurate

============================================================================
