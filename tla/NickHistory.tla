----------------------------- MODULE NickHistory -----------------------------
(***************************************************************************)
(* What the nick history promises: the last `Length' nicks that were given *)
(* up are remembered, newest first, each with the time and with the client *)
(* who still is on line under another nick, if any.  src/src/whowas.c      *)
(* (module Whowas) implements this with a ring, hash chains and a list per *)
(* client.                                                                 *)
(***************************************************************************)
EXTENDS Common

CONSTANT Length

VARIABLES past,   \* records [name, logoff, online], newest first
          name,   \* name[c]: the nick of client c, None when not on line
          clock   \* NOW

histVars == <<past, name, clock>>

Records == [name : Nicks, logoff : Nat, online : Clients \cup {None}]

\* The newest record for n that is not older than `limit', and who had it.
Matches(n, limit) ==
  {i \in DOMAIN past : past[i].name = n /\ past[i].logoff >= clock - limit}
LastHolder(n, limit) ==
  IF Matches(n, limit) = {} THEN None
  ELSE past[CHOOSE i \in Matches(n, limit) : \A j \in Matches(n, limit) : i <= j].online

\* A nick is given up; the oldest record is forgotten when there are too many.
Remember(p, n, c) ==
  LET all == <<[name |-> n, logoff |-> clock, online |-> c]>> \o p
  IN SubSeq(all, 1, IF Len(all) > Length THEN Length ELSE Len(all))

\* Client c is gone from the records.
Forget(p, c) ==
  [i \in DOMAIN p |-> IF p[i].online = c THEN [p[i] EXCEPT !.online = None] ELSE p[i]]

Arrive(c, n) == /\ name[c] = None /\ name' = [name EXCEPT ![c] = n]
                /\ UNCHANGED <<past, clock>>

Change(c, n) == /\ name[c] # None /\ name' = [name EXCEPT ![c] = n]
                /\ past' = Remember(past, name[c], c) /\ UNCHANGED clock

Leave(c) == /\ name[c] # None /\ name' = [name EXCEPT ![c] = None]
            /\ past' = Forget(Remember(past, name[c], None), c) /\ UNCHANGED clock

Later == clock' = clock + 1 /\ UNCHANGED <<past, name>>

HistInit == past = <<>> /\ name = [c \in Clients |-> None] /\ clock = 0

HistNext == \/ \E c \in Clients, n \in Nicks : Arrive(c, n) \/ Change(c, n)
            \/ \E c \in Clients : Leave(c)
            \/ Later

HistSpec == HistInit /\ [][HistNext]_histVars
============================================================================
