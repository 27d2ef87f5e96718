------------------------------- MODULE Clones -------------------------------
(***************************************************************************)
(* Clone limits (src/src/clones.c): for every address and every site (the  *)
(* first three parts of an address) an entry counts the clients from there,*)
(* those of this server apart.  register_user asks clones_check for a      *)
(* client of this server and adds the client; exits take it out again.     *)
(* An entry lives as long as it counts someone or carries a limit.         *)
(***************************************************************************)
EXTENDS Throttle

CONSTANTS
  Sites, siteOf,              \* siteOf[h]: the site of an address
  LocalLimit, LocalSite,      \* local_ip_limit, local_ip24_limit
  GlobalLimit, GlobalSite,    \* global_ip_limit, global_ip24_limit
  ClassLimits, ClassSites,    \* a class's connfreq and ip24clones; 0 for none
  Settable,                   \* bound: <<entry, kind, value>> of limits that are set
  MaxStray                    \* bound: introductions that name this server

ASSUME ClonesAssumption ==
  /\ siteOf \in [Addrs -> Sites] /\ Addrs \cap Sites = {}
  /\ {LocalLimit, LocalSite, GlobalLimit, GlobalSite} \subseteq Nat \ {0}
  /\ ClassLimits \subseteq Nat /\ ClassSites \subseteq Nat
  /\ MaxStray \in Nat
  /\ Settable \subseteq (Addrs \cup Sites) \X {"hard", "soft", "local"} \X Nat

VARIABLES
  person,       \* client |-> [ip, local, free], or None.  ip is None for an
                \* operator whose address is masked; free is history: the
                \* client passed no limit (its class skips them) or another
                \* one than the default
  clones,       \* address or site |-> its entry, or None
  eased         \* history: the entries somebody set a limit for

clonesVars == <<person, clones, eased>>

Keys      == Addrs \cup Sites
Persons   == [ip : Addrs \cup {None}, local : BOOLEAN, free : BOOLEAN]
\* lcount can drop below zero; wrong is history: how many introductions that
\* name this server the entry has seen.
CloneRecs == [gcount : Nat, lcount : Int, wrong : Nat, clients : Seq(Clients),
              limit : Nat, sglimit : Nat, sllimit : Nat]

ASSUME ClonesNull == None \notin Addrs \cup Persons \cup CloneRecs

NoClone == [gcount |-> 0, lcount |-> 0, wrong |-> 0, clients |-> <<>>,
            limit |-> 0, sglimit |-> 0, sllimit |-> 0]

entry(ce) == IF ce = None THEN NoClone ELSE ce
Entry(k)  == entry(clones[k])

expire_clone(ce) ==
  IF ce.gcount = 0 /\ ce.limit = 0 /\ ce.sglimit = 0 /\ ce.sllimit = 0 THEN None ELSE ce

----------------------------------------------------------------------------
(* clones_check.  A limit of 0 is not set; the first one that is set, in   *)
(* order of priority, decides.                                             *)

First(limits) == limits[CHOOSE i \in DOMAIN limits :
                          limits[i] # 0 /\ \A j \in 1..i-1 : limits[j] = 0]

reached(count, limit) == count >= limit

\* The limits of an address are only looked at if it has an entry.
host_full(ce, class) ==
  \/ reached(ce.lcount, First(<<ce.sllimit, class.host, LocalLimit>>))
  \/ reached(ce.gcount, First(<<ce.sglimit, ce.limit, GlobalLimit>>))

\* A limit set for the address exempts it from its site's limits of lower
\* priority; `known' if the address has an entry.
site_full(known, ip, ce, class) ==
  \/ IF ce.sllimit # 0 THEN reached(ce.lcount, ce.sllimit)
     ELSE IF ~ (known /\ ip.sllimit # 0) /\ class.site # 0
          THEN reached(ce.lcount, class.site)
     ELSE /\ ~ (known /\ (ip.sllimit # 0 \/ class.host # 0))
          /\ reached(ce.lcount, LocalSite)
  \/ IF ce.sglimit # 0 THEN reached(ce.gcount, ce.sglimit)
     ELSE IF ce.limit # 0 THEN reached(ce.gcount, ce.limit)
     ELSE /\ ~ (known /\ (ip.sglimit # 0 \/ ip.limit # 0))
          /\ reached(ce.gcount, GlobalSite)

clones_check(h, class) ==
  LET s == siteOf[h]
  IN \/ clones[h] # None /\ host_full(clones[h], class)
     \/ clones[s] # None /\ site_full(clones[h] # None, Entry(h), clones[s], class)

----------------------------------------------------------------------------
more(ce, here)  == [ce EXCEPT !.gcount = @ + 1, !.lcount = IF here THEN @ + 1 ELSE @]
less(ce, here)  == [ce EXCEPT !.gcount = @ - 1, !.lcount = IF here THEN @ - 1 ELSE @]
listed(ce, c)   == [ce EXCEPT !.clients = <<c>> \o @]
unlisted(ce, c) == [ce EXCEPT !.clients = RemoveFirst(@, c)]

\* MyConnect says whether the client is here.
clones_add(all, c, h, here) ==
  [all EXCEPT ![h] = listed(more(entry(@), here), c),
              ![siteOf[h]] = more(entry(@), here)]

\* Mutant: whether the client was ours is asked of its socket, which is
\* closed by then.
clones_remove_closed(all, c, h, here) ==
  [all EXCEPT ![h] = expire_clone(unlisted(less(@, FALSE), c)),
              ![siteOf[h]] = expire_clone(less(@, FALSE))]

\* Here it is the server the client was introduced for (uplink == &me).
clones_remove(all, c, h, here) ==
  [all EXCEPT ![h] = expire_clone(unlisted(less(@, here), c)),
              ![siteOf[h]] = expire_clone(less(@, here))]

\* register_user of a client of this server: its class may skip the limits
\* or have its own, and on an operator's port its address may be masked,
\* which takes it out of the count.  (A ban turns it down like a limit that
\* is reached; an exempt class removes the throttle first: throttle_force
\* and throttle_remove of Throttle.)
register_here(c, h, skip, class, mask) ==
  /\ person[c] = None
  /\ IF ~ skip /\ clones_check(h, class)
     THEN /\ throttle_force(h)
          /\ UNCHANGED clonesVars
     ELSE /\ IF mask THEN throttle_remove(h) ELSE UNCHANGED throttleVars
          /\ person' = [person EXCEPT ![c] =
               [ip |-> IF mask THEN None ELSE h, local |-> TRUE,
                free |-> skip \/ class.host # 0 \/ class.site # 0]]
          /\ clones' = IF mask THEN clones ELSE clones_add(clones, c, h, TRUE)
          /\ UNCHANGED eased

blamed(all, h) == [all EXCEPT ![h].wrong = @ + 1, ![siteOf[h]].wrong = @ + 1]

\* A client another server introduces.  From the wrong direction it is killed
\* at once; this server itself (`me') is never in the direction of a link, so
\* a NICK that names it ends like that, and the client, which was no local
\* one when it was added, is a local one when it is removed.
register_there(c, h, via) ==
  /\ person[c] = None
  /\ via = "me" => \A k \in {h, siteOf[h]} : Entry(k).wrong < MaxStray
  /\ LET added == clones_add(clones, c, h, FALSE)
     IN \/ /\ via = "link"
           /\ clones' = added
           /\ person' = [person EXCEPT ![c] = [ip |-> h, local |-> FALSE, free |-> FALSE]]
        \/ /\ via = "other"
           /\ clones' = clones_remove(added, c, h, FALSE)
           /\ UNCHANGED person
        \/ /\ via = "me"
           /\ clones' = clones_remove(blamed(added, h), c, h, TRUE)
           /\ UNCHANGED person
  /\ UNCHANGED <<eased, throttleVars>>

\* exit_one_client and exit_one_client_in_split.
exit_one_client(c) ==
  /\ person[c] # None
  /\ person' = [person EXCEPT ![c] = None]
  /\ clones' = IF person[c].ip = None THEN clones
               ELSE clones_remove(clones, c, person[c].ip, person[c].local)
  /\ UNCHANGED <<eased, throttleVars>>

\* SVSCLONE (hard), SET GCLONES (soft global, not above the hard limit) and
\* SET LCLONES (soft local).
clones_set(k, kind, n) ==
  /\ kind = "soft" /\ Entry(k).limit # 0 => n <= Entry(k).limit
  /\ LET ce == Entry(k)
     IN clones' = [clones EXCEPT ![k] = expire_clone(
          CASE kind = "hard"  -> [ce EXCEPT !.limit = n,
                                            !.sglimit = IF n # 0 /\ @ > n THEN 0 ELSE @]
            [] kind = "soft"  -> [ce EXCEPT !.sglimit = n]
            [] kind = "local" -> [ce EXCEPT !.sllimit = n])]
  /\ eased' = eased \cup {k}
  /\ UNCHANGED <<person, throttleVars>>

ClonesInit == /\ person = [c \in Clients |-> None]
              /\ clones = [k \in Keys |-> None]
              /\ eased = {}

ClonesNext ==
  \/ \E c \in Clients, h \in Addrs :
       \/ \E skip, mask \in BOOLEAN, l \in ClassLimits, s \in ClassSites :
            register_here(c, h, skip, [host |-> l, site |-> s], mask)
       \/ \E via \in {"link", "other", "me"} : register_there(c, h, via)
  \/ \E c \in Clients : exit_one_client(c)
  \/ \E set \in Settable : clones_set(set[1], set[2], set[3])

\* The clone counts with the throttle they use.
ClonesSpec == /\ ThrottleInit /\ ClonesInit
              /\ [][ClonesNext \/ (ThrottleNext /\ UNCHANGED clonesVars)]_<<clonesVars, throttleVars>>

----------------------------------------------------------------------------
At(k) == {c \in Clients : /\ person[c] # None /\ person[c].ip # None
                          /\ k \in {person[c].ip, siteOf[person[c].ip]}}

Ours(k) == {c \in At(k) : person[c].local}

\* The entries count exactly the clients that are there, whatever way they
\* came (masked, skipping the limits, from another server, from the wrong
\* one) and went, so no address is locked out and none goes without limit;
\* and an entry stays exactly as long as it is needed, with every client in
\* the list of its address.  The local count alone can be wrong: it is lower
\* by one for every introduction that named this server while the entry
\* lived, and by nothing else.
CloneCounts ==
  \A k \in Keys :
    /\ Entry(k).gcount = Cardinality(At(k))
    /\ Entry(k).lcount + Entry(k).wrong = Cardinality(Ours(k))
    /\ clones[k] # None <=> At(k) # {} \/ <<Entry(k).limit, Entry(k).sglimit, Entry(k).sllimit>> # <<0, 0, 0>>
    /\ k \in Addrs => /\ Range(Entry(k).clients) = At(k)
                      /\ IsInjective(Entry(k).clients)

\* This server has no more clients of an address than the default limit
\* while nobody set another limit for the address or its site and none of
\* them came under other limits; one more for every introduction that named
\* this server.
ClonesLimited ==
  \A h \in Addrs : {h, siteOf[h]} \cap eased = {} /\ (\A c \in Ours(h) : ~ person[c].free)
                     => Cardinality(Ours(h)) <= LocalLimit + Entry(h).wrong

\* Counts that are right but for the introductions that name this server,
\* and a limit that holds as far as they are.
ClonesRight == CloneCounts /\ ClonesLimited
============================================================================
