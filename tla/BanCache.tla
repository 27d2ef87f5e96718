------------------------------ MODULE BanCache ------------------------------
(***************************************************************************)
(* The ban and exemption lists of one channel and the answer cached for    *)
(* every member (src/src/channel.c: add_banid .. kill_ban_list, is_banned, *)
(* can_send; src/src/m_nick.c).                                            *)
(*                                                                         *)
(* A member without status may not speak while a ban matches him.  Matching*)
(* is expensive, so the answer is kept in the member's chanMember with the *)
(* number (banserial) the lists had when it was computed; every change of  *)
(* a list must give the channel a new number.  A join fills the cache with *)
(* "not banned" without looking at the lists.                              *)
(*                                                                         *)
(* A client's identity is its nick and its host; a mask is the set of the  *)
(* identities it matches.                                                  *)
(***************************************************************************)
EXTENDS Common

CONSTANTS
  Members,       \* the clients that join and leave
  Hosts,
  Masks,         \* sets of identities
  FullMasks,     \* those that name a nick (MTYP_FULL)
  LocalSetters,  \* whether list changes by local operators are subject to
                 \* the redundancy test (both kinds of sender in {TRUE, FALSE})
  MAXBANS,       \* list length a local sender may reach
  MaxSerial,     \* bound: banserial, an unsigned int, is not driven past this
  Services       \* TRUE if services may force a nick or a host on a client

Ids == Nicks \X Hosts

ASSUME MaskAssumption == Masks \subseteq SUBSET Ids /\ FullMasks \subseteq Masks
                         /\ IsFiniteSet(Masks)
ASSUME SenderAssumption == LocalSetters \subseteq BOOLEAN
ASSUME BoundAssumption == MAXBANS \in Nat /\ MaxSerial \in Nat /\ Services \in BOOLEAN

VARIABLES
  banlist, exempts,  \* chptr->banlist, chptr->banexempt_list
  banserial,         \* chptr->banserial
  moderated,         \* +m
  on,                \* chptr->members
  status,            \* members with CHFL_CHANOP, CHFL_HALFOP or CHFL_VOICE
  cmserial,          \* cm->banserial
  cmbanned,          \* cm->flags & CHFL_BANNED
  id,                \* nick and host of each client
  seenAs             \* history: the identity the cached answer is about, or
                     \* NoId when the cache was filled without matching

NoId == <<>>

lists == <<banlist, exempts, banserial>>
cache == <<cmserial, cmbanned, seenAs>>
banVars == <<lists, moderated, on, status, cache, id>>

----------------------------------------------------------------------------
(* Matching.                                                               *)

\* What is_banned computes when it looks at the lists.
matched(i) == /\ \A e \in exempts : i \notin e
              /\ \E b \in banlist : i \in b

\* nick_is_banned: only masks that name a nick are looked at, exemptions
\* included.
nick_is_banned(i) == /\ \A e \in exempts \cap FullMasks : i \notin e
                     /\ \E b \in banlist \cap FullMasks : i \in b

\* is_banned with a chanMember: the cached answer if its number is current.
is_banned(u) == IF cmserial[u] = banserial THEN cmbanned[u] ELSE matched(id[u])

\* ... and what it leaves in the cache.
remember(u) ==
  IF cmserial[u] = banserial THEN UNCHANGED cache
  ELSE /\ cmserial' = [cmserial EXCEPT ![u] = banserial]
       /\ cmbanned' = [cmbanned EXCEPT ![u] = matched(id[u])]
       /\ seenAs' = [seenAs EXCEPT ![u] = id[u]]

\* can_send for a member: TRUE when the message goes out.  The cache is
\* only touched when the member has no status and the channel is not +m.
consults(u) == u \notin status /\ ~ moderated

can_send(u) == u \in status \/ (~ moderated /\ ~ is_banned(u))

----------------------------------------------------------------------------
(* The lists.                                                              *)

\* Every change of a list takes a new number.
bump(n) == banserial + n <= MaxSerial /\ banserial' = banserial + n

\* A local sender may not exceed MAXBANS nor add a mask an existing one
\* covers; a remote one only may not repeat a mask.
admits(list, m, local) ==
  IF local THEN Cardinality(list) < MAXBANS /\ \A b \in list : ~ (m \subseteq b)
  ELSE m \notin list

add_banid(m, local) ==
  /\ admits(banlist, m, local)
  /\ banlist' = banlist \cup {m}
  /\ bump(1)
  /\ UNCHANGED <<exempts, moderated, on, status, cache, id>>

del_banid(m) ==
  /\ m \in banlist
  /\ banlist' = banlist \ {m}
  /\ bump(1)
  /\ UNCHANGED <<exempts, moderated, on, status, cache, id>>

add_exempt_id(m, local) ==
  /\ admits(exempts, m, local)
  /\ exempts' = exempts \cup {m}
  /\ bump(1)
  /\ UNCHANGED <<banlist, moderated, on, status, cache, id>>

\* Mutant: the number is not renewed.
del_exempt_silent(m) ==
  /\ m \in exempts
  /\ exempts' = exempts \ {m}
  /\ UNCHANGED <<banlist, banserial, moderated, on, status, cache, id>>

del_exempt_id(m) ==
  /\ m \in exempts
  /\ exempts' = exempts \ {m}
  /\ bump(1)
  /\ UNCHANGED <<banlist, moderated, on, status, cache, id>>

\* Services' SVSMODE -b / -e nick: one del_banid per matching mask.
remove_matching_bans(u) ==
  LET gone == {b \in banlist : id[u] \in b}
  IN /\ gone # {}
     /\ banlist' = banlist \ gone
     /\ bump(Cardinality(gone))
     /\ UNCHANGED <<exempts, moderated, on, status, cache, id>>

remove_matching_exempts(u) ==
  LET gone == {e \in exempts : id[u] \in e}
  IN /\ gone # {}
     /\ exempts' = exempts \ gone
     /\ bump(Cardinality(gone))
     /\ UNCHANGED <<banlist, moderated, on, status, cache, id>>

\* A SJOIN with an older timestamp: all lists go, every status goes,
\* the modes are the sender's.
kill_ban_list ==
  /\ banlist' = {} /\ exempts' = {}
  /\ bump(1)
  /\ status' = {}
  /\ moderated' \in BOOLEAN
  /\ UNCHANGED <<on, cache, id>>

----------------------------------------------------------------------------
(* Memberships.                                                            *)

\* add_user_to_channel after can_join: an invited client, a services
\* administrator (SAJOIN) and a remote client enter without the ban test.
add_user_to_channel(u, tested) ==
  /\ u \notin on
  /\ tested => ~ matched(id[u])
  /\ on' = on \cup {u}
  /\ cmserial' = [cmserial EXCEPT ![u] = banserial]
  /\ cmbanned' = [cmbanned EXCEPT ![u] = FALSE]
  /\ seenAs' = [seenAs EXCEPT ![u] = IF tested THEN id[u] ELSE NoId]
  /\ UNCHANGED <<lists, moderated, status, id>>

\* The chanMember is freed; shown in its initial form.
remove_user_from_channel(u) ==
  /\ u \in on
  /\ on' = on \ {u} /\ status' = status \ {u}
  /\ cmserial' = [cmserial EXCEPT ![u] = 0]
  /\ cmbanned' = [cmbanned EXCEPT ![u] = FALSE]
  /\ seenAs' = [seenAs EXCEPT ![u] = NoId]
  /\ UNCHANGED <<lists, moderated, id>>

\* MODE +o/+h/+v and their removal.
set_status(u) ==
  /\ u \in on
  /\ status' = IF u \in status THEN status \ {u} ELSE status \cup {u}
  /\ UNCHANGED <<lists, moderated, on, cache, id>>

set_moderated ==
  /\ moderated' = ~ moderated
  /\ UNCHANGED <<lists, on, status, cache, id>>

\* A message, a PART or QUIT with a reason: can_send is asked.
m_message(u) ==
  /\ u \in on /\ consults(u)
  /\ remember(u)
  /\ UNCHANGED <<lists, moderated, on, status, id>>

\* A nick change the client asks for.  On a channel it needs can_send and a
\* nick no mask bans; can_send refreshes the cache even when it refuses.
\* `refused': a later test (+N, the nick flood limit) turns it down.
m_nick(u, n, refused) ==
  LET new == <<n, id[u][2]>>
  IN /\ n # id[u][1]
     /\ IF u \in on /\ consults(u) THEN remember(u) ELSE UNCHANGED cache
     /\ id' = IF ~ refused /\ (u \in on => can_send(u) /\ ~ nick_is_banned(new))
              THEN [id EXCEPT ![u] = new] ELSE id
     /\ UNCHANGED <<lists, moderated, on, status>>

\* SVSNICK and SVHOST, or a change of hostmask: no test, no new number.
set_identity(u, i) ==
  /\ Services /\ i # id[u]
  /\ id' = [id EXCEPT ![u] = i]
  /\ UNCHANGED <<lists, moderated, on, status, cache>>

----------------------------------------------------------------------------
BanInit ==
  /\ banlist = {} /\ exempts = {} /\ banserial = 0
  /\ moderated = FALSE
  /\ on = {} /\ status = {}
  /\ cmserial = [u \in Members |-> 0]
  /\ cmbanned = [u \in Members |-> FALSE]
  /\ seenAs = [u \in Members |-> NoId]
  /\ id \in [Members -> Ids]

BanNext ==
  \/ \E m \in Masks : \/ \E local \in LocalSetters : add_banid(m, local) \/ add_exempt_id(m, local)
                      \/ del_banid(m) \/ del_exempt_id(m)
  \/ kill_ban_list
  \/ set_moderated
  \/ \E u \in Members : \/ remove_matching_bans(u) \/ remove_matching_exempts(u)
                      \/ \E tested \in BOOLEAN : add_user_to_channel(u, tested)
                      \/ remove_user_from_channel(u)
                      \/ set_status(u)
                      \/ m_message(u)
                      \/ \E n \in Nicks, refused \in BOOLEAN : m_nick(u, n, refused)
                      \/ \E i \in Ids : set_identity(u, i)

BanSpec == BanInit /\ [][BanNext]_banVars

----------------------------------------------------------------------------
BanTypeOK ==
  /\ banlist \subseteq Masks /\ exempts \subseteq Masks
  /\ banserial \in 0..MaxSerial
  /\ moderated \in BOOLEAN
  /\ on \subseteq Members /\ status \subseteq on
  /\ cmserial \in [Members -> 0..MaxSerial]
  /\ cmbanned \in [Members -> BOOLEAN]
  /\ id \in [Members -> Ids]
  /\ seenAs \in [Members -> Ids \cup {NoId}]

\* The strengthening that makes CacheSound inductive: no answer is from the
\* future, and a current answer fits the identity it was computed for even
\* if the member has taken another one since (and may come back to it).
SerialsBehind == \A u \in Members : cmserial[u] <= banserial
CacheExact ==
  \A u \in on : cmserial[u] = banserial /\ seenAs[u] # NoId
                  => (cmbanned[u] <=> matched(seenAs[u]))

\* A current cache whose answer came from the lists, for the identity the
\* member still has, agrees with the lists: no sequence of +b, -b, +e, -e,
\* services' removals, timestamp resets and messages leaves a wrong answer
\* marked valid in is_banned (channel.c:502).
CacheSound ==
  \A u \in on : seenAs[u] = id[u] => (is_banned(u) <=> matched(id[u]))

\* "before we change their nick, make sure they're not banned on any
\* channels" (m_nick.c:504): a client without status that changes its nick
\* while it is on the channel is not banned there.
NickChangeNotBanned ==
  [][\A u \in on \ status : id'[u] # id[u] => ~ matched(id[u])]_banVars
============================================================================
