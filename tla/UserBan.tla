------------------------------ MODULE UserBan ------------------------------
(***************************************************************************)
(* Bans on users (src/src/userban.c): K-lines that operators set, kill     *)
(* blocks of the configuration, the network's akills (s_serv.c) and        *)
(* G-lines (glines.c), and shuns (m_shun.c), whose victims stay but may    *)
(* not speak.  All are in the same lists, told apart by their flags.       *)
(*                                                                         *)
(* A mask is what it matches; the lists a mask may be in are searched one  *)
(* after the other, so any of the bans that match a client may be the one  *)
(* that is found first.  Bans on an address, whoever the user, are looked  *)
(* up when a connection is accepted and only then, all the others when its *)
(* user registers.                                                         *)
(***************************************************************************)
EXTENDS Common

CONSTANTS
  Visitors,      \* the clients that come and go
  BanMasks,
  IpMasks,       \* the masks with any user and an address: UBAN_WILDUSER
                 \* with UBAN_IP or UBAN_CIDR4
  hits,          \* hits[m]: the clients mask m matches
  Kinds,         \* the kinds of network bans that are set, of "akill",
                 \* "gline" and "shun"
  BanTimes,      \* bound: durations, 0 for a permanent ban
  MaxBans,       \* bound: bans in the lists
  MaxToday       \* bound: the clock

ASSUME UserBanAssumption ==
  /\ IsFiniteSet(BanMasks) /\ IpMasks \subseteq BanMasks
  /\ hits \in [BanMasks -> SUBSET Visitors]
  /\ Kinds \subseteq {"akill", "gline", "shun"}
  /\ BanTimes \subseteq Nat /\ MaxBans \in Nat /\ MaxToday \in Nat

VARIABLES
  timeofday,
  userbans,      \* the lists, last set first: [mask, kind, start, length]
  accepted,      \* connections that have not registered
  registered,    \* clients of this server
  shunned,       \* those with UMODE shun
  spared         \* history: <<c, m>> if c was let through a ban on m: a shun
                 \* was found first, or m is the address of a connection
                 \* that an akill did not look at

\* struct userBan.
BanRecs == [mask : BanMasks, kind : {"kline", "conf", "akill", "gline", "shun"},
            start : Nat, length : Nat]

banningVars == <<timeofday, userbans, accepted, registered, shunned, spared>>

----------------------------------------------------------------------------
Ban(m, kind, length) == [mask |-> m, kind |-> kind, start |-> timeofday, length |-> length]

\* A ban whose time is over stays in its list until expire_userbans.  A shun
\* always has UBAN_TEMPORARY: one of 0 seconds is over at once.
over(b) == (b.length # 0 \/ b.kind = "shun") /\ b.start + b.length <= timeofday

\* check_userbanned: the bans that can be found for a client.
check_userbanned(bans, c) == {b \in Range(bans) : ~ over(b) /\ c \in hits[b.mask]}

\* find_userban_exact: where the first ban on m is, of the kinds that the
\* flags the caller cares about leave; 0 if there is none.
find_userban_exact(bans, m, kinds) ==
  LET at == {i \in DOMAIN bans : bans[i].mask = m /\ bans[i].kind \in kinds}
  IN IF at = {} THEN 0 ELSE CHOOSE i \in at : \A j \in at : i <= j

AnyKind == {"kline", "conf", "akill", "gline", "shun"}

add_hostbased_userban(bans, b) == <<b>> \o bans

\* exit_client of those who are no longer there after a step.
exits == /\ shunned' = shunned \cap registered'
         /\ spared' = {p \in spared : p[1] \in accepted' \cup registered'}

\* Mutant: a new ban is kept for those to come.
userban_sweep_none(m) == UNCHANGED <<accepted, registered>>

\* userban_sweep: the users a new ban matches exit, and if it is on an address
\* the connections without a user too.
userban_sweep(m) ==
  /\ registered' = registered \ hits[m]
  /\ accepted' = IF m \in IpMasks THEN accepted \ hits[m] ELSE accepted

----------------------------------------------------------------------------
(* The network's bans.                                                     *)

\* m_akill: an akill always has an end (one that arrives late is one with less
\* time left) and is not added where any ban on the mask exists.  Of those
\* whom it matches only users exit.
m_akill(m, length) ==
  /\ Len(userbans) < MaxBans /\ length # 0
  /\ find_userban_exact(userbans, m, AnyKind) = 0
  /\ userbans' = add_hostbased_userban(userbans, Ban(m, "akill", length))
  /\ registered' = registered \ hits[m]
  /\ UNCHANGED <<timeofday, accepted>>
  /\ shunned' = shunned \cap registered'
  /\ spared' = {p \in spared : p[1] \in accepted \cup registered'}
                 \cup {<<c, m>> : c \in IF m \in IpMasks THEN accepted \cap hits[m] ELSE {}}

\* m_gline: not added where another one exists.
m_gline(m, length) ==
  /\ Len(userbans) < MaxBans
  /\ find_userban_exact(userbans, m, {"gline"}) = 0
  /\ userbans' = add_hostbased_userban(userbans, Ban(m, "gline", length))
  /\ userban_sweep(m) /\ exits
  /\ UNCHANGED timeofday

\* m_rakill and m_ungline.
m_rakill(m, kind) ==
  LET i == find_userban_exact(userbans, m, {kind})
  IN /\ i # 0
     /\ userbans' = RemoveAt(userbans, i)
     /\ UNCHANGED <<timeofday, accepted, registered, shunned, spared>>

\* m_shun: refused if the first ban on the mask is a shun; any number of
\* seconds will do.
m_shun(m, length) ==
  LET i == find_userban_exact(userbans, m, AnyKind)
  IN /\ Len(userbans) < MaxBans
     /\ i # 0 => userbans[i].kind # "shun"
     /\ userbans' = add_hostbased_userban(userbans, Ban(m, "shun", length))
     /\ shunned' = shunned \cup (hits[m] \cap registered)
     /\ UNCHANGED <<timeofday, accepted, registered, spared>>

\* Mutant: the clients keep their mark.
m_unshun_keeps(m) ==
  LET i == find_userban_exact(userbans, m, {"shun"})
  IN /\ i # 0
     /\ userbans' = RemoveAt(userbans, i)
     /\ UNCHANGED <<timeofday, accepted, registered, shunned, spared>>

\* m_unshun: those the mask matches may speak again.
m_unshun(m) ==
  LET i == find_userban_exact(userbans, m, {"shun"})
  IN /\ i # 0
     /\ userbans' = RemoveAt(userbans, i)
     /\ shunned' = shunned \ hits[m]
     /\ UNCHANGED <<timeofday, accepted, registered, spared>>

\* Every 39 seconds.  A shun that ends takes its mark from those it matches.
expire_userbans ==
  /\ \E b \in Range(userbans) : over(b)
  /\ userbans' = Keep(userbans, {b \in Range(userbans) : ~ over(b)})
  /\ shunned' = {c \in shunned : \A b \in Range(userbans) :
                                   b.kind = "shun" /\ over(b) => c \notin hits[b.mask]}
  /\ UNCHANGED <<timeofday, accepted, registered, spared>>

----------------------------------------------------------------------------
(* Clients.                                                                *)

\* add_connection: the bans on an address, shuns included, turn a connection
\* away.
accept_unbanned(c) ==
  /\ c \notin accepted \cup registered
  /\ \A b \in check_userbanned(userbans, c) : b.mask \notin IpMasks
  /\ accepted' = accepted \cup {c}
  /\ UNCHANGED <<timeofday, userbans, registered, shunned, spared>>

\* register_user: the first of the other bans that is found turns the client
\* down (the connection quits), unless it is a shun.
register_unbanned(c) ==
  LET found == {b \in check_userbanned(userbans, c) : b.mask \notin IpMasks}
      shuns == {b \in found : b.kind = "shun"}
  IN /\ c \in accepted
     /\ found = {} \/ shuns # {}
     /\ accepted' = accepted \ {c} /\ registered' = registered \cup {c}
     /\ shunned' = IF shuns # {} THEN shunned \cup {c} ELSE shunned
     /\ spared' = spared \cup {<<c, b.mask>> : b \in found}
     /\ UNCHANGED <<timeofday, userbans>>

quit(c) == /\ c \in accepted \cup registered
           /\ accepted' = accepted \ {c} /\ registered' = registered \ {c}
           /\ exits
           /\ UNCHANGED <<timeofday, userbans>>

Later == /\ timeofday < MaxToday
         /\ timeofday' = timeofday + 1
         /\ UNCHANGED <<userbans, accepted, registered, shunned, spared>>

UserBanInit == /\ timeofday = 0 /\ userbans = <<>>
               /\ accepted = {} /\ registered = {} /\ shunned = {} /\ spared = {}

NetworkBan ==
  \/ \E m \in BanMasks, length \in BanTimes :
       \/ "akill" \in Kinds /\ m_akill(m, length)
       \/ "gline" \in Kinds /\ m_gline(m, length)
       \/ "shun" \in Kinds /\ m_shun(m, length)
  \/ \E m \in BanMasks : m_unshun(m) \/ \E kind \in Kinds \ {"shun"} : m_rakill(m, kind)

VisitorOrTime ==
  \/ \E c \in Visitors : accept_unbanned(c) \/ register_unbanned(c) \/ quit(c)
  \/ expire_userbans \/ Later

UserBanNext == NetworkBan \/ VisitorOrTime

----------------------------------------------------------------------------
\* A shun ends for its victims: whoever is marked is matched by a shun that
\* is still in the lists, whichever of several shuns on him was lifted or ran
\* out first and whatever else was set in between.
ShunEnds ==
  \A c \in shunned : \E b \in Range(userbans) : b.kind = "shun" /\ c \in hits[b.mask]
============================================================================
