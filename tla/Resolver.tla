------------------------------ MODULE Resolver ------------------------------
(***************************************************************************)
(* The asynchronous resolver (src/src/res.c) and what the server does with *)
(* its answers (do_dns_async, add_connection, close_connection of          *)
(* src/src/s_bsd.c, check_pings of src/src/ircd.c, lookup_confhost of      *)
(* src/src/s_conf.c).  A client that connects waits until the name of its  *)
(* address was looked up, and that name's address; connect blocks of the   *)
(* configuration have their host looked up.  Queries are datagrams: they   *)
(* are lost, answered late and answered twice, and the ids that answers    *)
(* are known by are used again.                                            *)
(*                                                                         *)
(* Time is left out: a query may time out whenever it is outstanding.  An  *)
(* address has one name and a name one address; build options as in res.c  *)
(* (no ALLOW_CACHE_NAMES).                                                 *)
(***************************************************************************)
EXTENDS Common

CONSTANTS
  Callers,        \* client structures that connections get
  Confs,          \* connect blocks of the configuration
  addr,           \* addr[a]: the address of client or block a
  QueryIds,       \* query ids, 16 bits
  Retries,        \* make_request: 3
  ResRetry,       \* _res.retry
  MaxCached,      \* IRC_MAXCACHED
  MaxRequests,    \* bound: outstanding requests
  MaxAsked        \* bound: queries that are not lost yet

ASSUME ResolverAssumption ==
  /\ None \notin QueryIds /\ Confs \cap Callers = {}
  /\ DOMAIN addr = Callers \cup Confs
  /\ {Retries, ResRetry, MaxCached} \subseteq Nat \ {0} /\ {MaxRequests, MaxAsked} \subseteq Nat

VARIABLES
  live,       \* clients that are connected
  doingDNS,   \* clients whose FLAGS_DOINGDNS is set: not read from yet
  blocks,     \* connect blocks that exist
  reqs,       \* the list first .. last of requests
  asked,      \* queries that are on their way or at a nameserver
  dnscache,   \* addresses whose names are cached, most recently used first
  hostp       \* hostp[c]: the cache entry cptr->hostp points to

resolverVars == <<live, doingDNS, blocks, reqs, asked, dnscache, hostp>>

Question(r) == [id |-> r.id, type |-> r.type, about |-> addr[r.who]]

\* query_name: ids that no request but the one at i has.
fresh_id(l, i) == QueryIds \ {l[j].id : j \in DOMAIN l \ {i}}

----------------------------------------------------------------------------
\* query_name: the request at i gets a new id; the query is sent, or the send
\* fails.
query(l, i, id) == [l EXCEPT ![i].id = id]

Sends(q) == \/ Cardinality(asked) < MaxAsked /\ asked' = asked \cup {q}
            \/ UNCHANGED asked

\* resend_query, with the list then l.
Resend(l, i) ==
  IF l[i].resend
  THEN \E id \in fresh_id(l, i) : reqs' = query(l, i, id) /\ Sends(Question(reqs'[i]))
  ELSE reqs' = l /\ UNCHANGED asked

\* make_request, of kind "CLIENT", "CONNECT" or "CONF".
make_request(l, who, kind, type, rev) ==
  Append(l, [who |-> who, kind |-> kind, type |-> type, id |-> None, retries |-> Retries,
             resend |-> TRUE, srch |-> FALSE, rev |-> rev])

\* do_query_name, do_query_number for a new request.
Ask(l, who, kind, type, rev) ==
  LET m == make_request(l, who, kind, type, rev)
  IN \E id \in fresh_id(m, Len(m)) : reqs' = query(m, Len(m), id) /\ Sends(Question(reqs'[Len(m)]))

\* --retries, which is only compared with 0.
fewer(n) == IF n > 0 THEN n - 1 ELSE 0

\* rem_request.
rem_request(l, i) == RemoveAt(l, i)

\* del_queries: the request of a that find_request_cp finds, the newest.
del_queries(l, a) ==
  LET mine == {i \in DOMAIN l : l[i].who = a}
  IN IF mine = {} THEN l
     ELSE rem_request(l, CHOOSE i \in mine : \A j \in mine : j <= i)

----------------------------------------------------------------------------
(* The cache of host entries.                                              *)

\* update_list: a used entry moves to the front.
touch(k, a) == <<a>> \o RemoveFirst(k, a)

\* Mutant: clients keep pointing to an entry that is removed.
rem_cache_dangling(gone) == hostp

\* rem_cache for the entries in `gone': clients no longer point to them.
rem_cache(gone) == [c \in Callers |-> IF hostp[c] \in gone THEN None ELSE hostp[c]]

\* make_cache and add_to_cache: the name of a is cached; the entry used least
\* recently goes when there are too many.
cached(k, a) == LET all == touch(k, a)
                IN SubSeq(all, 1, IF Len(all) > MaxCached THEN MaxCached ELSE Len(all))

\* expire_cache: some entries are too old.
expire_cache(gone) ==
  /\ gone # {} /\ gone \subseteq Range(dnscache)
  /\ dnscache' = Keep(dnscache, Range(dnscache) \ gone) /\ hostp' = rem_cache(gone)
  /\ UNCHANGED <<live, doingDNS, blocks, reqs, asked>>

----------------------------------------------------------------------------
(* Those who ask.                                                          *)

\* add_connection: gethost_byaddr, and the wait for it.
add_connection(c) ==
  /\ c \notin live /\ live' = live \cup {c} /\ UNCHANGED blocks
  /\ IF addr[c] \in Range(dnscache)
     THEN /\ dnscache' = touch(dnscache, addr[c]) /\ hostp' = [hostp EXCEPT ![c] = addr[c]]
          /\ UNCHANGED <<doingDNS, reqs, asked>>
     ELSE /\ Len(reqs) < MaxRequests /\ Ask(reqs, c, "CLIENT", "PTR", FALSE)
          /\ doingDNS' = doingDNS \cup {c} /\ hostp' = [hostp EXCEPT ![c] = None]
          /\ UNCHANGED dnscache

\* Mutant: the query of a client that is gone is left to time out.
close_connection_keeps(c) ==
  /\ c \in live /\ live' = live \ {c} /\ doingDNS' = doingDNS \ {c}
  /\ hostp' = [hostp EXCEPT ![c] = None]
  /\ UNCHANGED <<blocks, reqs, asked, dnscache>>

\* close_connection: the structure is freed after it, with its flags.
close_connection(c) ==
  /\ c \in live /\ live' = live \ {c} /\ doingDNS' = doingDNS \ {c}
  /\ reqs' = del_queries(reqs, c) /\ hostp' = [hostp EXCEPT ![c] = None]
  /\ UNCHANGED <<blocks, asked, dnscache>>

\* check_pings: the client has waited for too long.
check_pings_dns(c) ==
  /\ c \in doingDNS /\ doingDNS' = doingDNS \ {c} /\ reqs' = del_queries(reqs, c)
  /\ UNCHANGED <<live, blocks, asked, dnscache, hostp>>

\* lookup_confhost, check_server_init; connect_server: gethost_byname.
lookup_block(b, kind) ==
  /\ b \in blocks /\ Len(reqs) < MaxRequests /\ Ask(reqs, b, kind, "A", FALSE)
  /\ UNCHANGED <<live, doingDNS, blocks, dnscache, hostp>>

\* rehash: no client points to the cache, which is flushed; merge_connects
\* frees the blocks that are gone, and those that are new appear.  (Those that
\* stay are looked up anew: lookup_block.)
rehash(b) ==
  /\ b \subseteq Confs /\ blocks' = b
  /\ hostp' = [c \in Callers |-> None] /\ dnscache' = <<>>
  /\ UNCHANGED <<live, doingDNS, reqs, asked>>

----------------------------------------------------------------------------
(* Timeouts and answers.                                                   *)

\* The client is not kept waiting; hp is its host entry.
Resolved(r, hp) ==
  IF r.kind = "CLIENT"
  THEN /\ doingDNS' = doingDNS \ {r.who} /\ UNCHANGED <<live, blocks>>
       /\ hostp' = [rem_cache(Range(dnscache) \ Range(dnscache')) EXCEPT ![r.who] = hp]
  ELSE /\ hostp' = rem_cache(Range(dnscache) \ Range(dnscache'))
       /\ UNCHANGED <<live, doingDNS, blocks>>

\* Mutant: the last retry leaves the client waiting.
timeout_query_silent(i) ==
  LET l == [reqs EXCEPT ![i].retries = fewer(@)]
  IN IF l[i].retries <= 0
     THEN reqs' = rem_request(reqs, i) /\ UNCHANGED <<asked, doingDNS>>
     ELSE Resend(l, i) /\ UNCHANGED doingDNS

\* timeout_query_list for the request at i.
timeout_query(i) ==
  LET l == [reqs EXCEPT ![i].retries = fewer(@)]
  IN IF l[i].retries <= 0
     THEN /\ reqs' = rem_request(reqs, i) /\ UNCHANGED asked
          /\ doingDNS' = IF l[i].kind = "CLIENT" THEN doingDNS \ {l[i].who} ELSE doingDNS
     ELSE Resend(l, i) /\ UNCHANGED doingDNS

timeout_query_list(a) ==
  \E i \in DOMAIN reqs : /\ reqs[i].who = a /\ timeout_query(i)
                         /\ UNCHANGED <<live, blocks, dnscache, hostp>>

\* do_dns_async after get_res filled in the Link: for a client the remaining
\* query is deleted and the wait is over.  l is the list then.
Answered(l, r, hp) ==
  /\ reqs' = IF r.kind = "CLIENT" THEN del_queries(l, r.who) ELSE l
  /\ UNCHANGED asked /\ Resolved(r, hp)

nobody == UNCHANGED <<live, doingDNS, blocks, hostp>>

\* getres_err with TRY_AGAIN.
TryAgain(i) == UNCHANGED dnscache /\ Answered(reqs, reqs[i], None)

\* getres_err otherwise: once with the default domain, then as it is.
Insist(l, i) ==
  /\ IF ~ l[i].srch
     THEN Resend([l EXCEPT ![i].srch = TRUE, ![i].retries = ResRetry, ![i].resend = TRUE], i)
     ELSE Resend(l, i)
  /\ nobody /\ UNCHANGED dnscache

\* proc_answer returns PROCANSWER_STRANGE.
Strange(i) ==
  LET l == [reqs EXCEPT ![i].retries = fewer(@), ![i].resend = TRUE]
  IN IF l[i].retries <= 0 THEN UNCHANGED dnscache /\ Answered(l, reqs[i], None)
     ELSE Resend(l, i) /\ nobody /\ UNCHANGED dnscache

\* A PTR record: the name is looked up in its turn.
Relookup(i) ==
  LET r == reqs[i]
  IN \E id \in fresh_id(reqs, 0) :
       LET m == query(make_request(reqs, r.who, r.kind, "A", TRUE), Len(reqs) + 1, id)
       IN /\ reqs' = rem_request(m, i)
          /\ Sends(Question(m[Len(m)]))
          /\ nobody /\ UNCHANGED dnscache

\* An A record for address a, which agrees with the PTR record or is for a
\* connect block.
Found(i, a) == /\ dnscache' = cached(dnscache, a)
               /\ Answered(rem_request(reqs, i), reqs[i], a)

\* proc_answer: the answer is to the question that was asked.
is_question(q, r) == q.type = r.type /\ q.about = addr[r.who]

\* proc_answer: what it can make of the answer to query q for request r.
proc_answer(q, r) == {"strange"} \cup (IF is_question(q, r) THEN {"found", "malicious"} ELSE {})

\* get_res for an answer to query q: what a nameserver says is not known.
get_res(q) ==
  \E i \in DOMAIN reqs :
    /\ reqs[i].id = q.id
    /\ LET r == reqs[i]
       IN \/ TryAgain(i)                                        \* NXDOMAIN, SERVFAIL
          \/ Insist([reqs EXCEPT ![i].retries = 0, ![i].resend = FALSE], i)
          \/ Insist(reqs, i)                                    \* from a stranger
          \/ "strange" \in proc_answer(q, r) /\ Strange(i)
          \/ "found" \in proc_answer(q, r) /\ r.type = "PTR" /\ Relookup(i)
          \/ "found" \in proc_answer(q, r) /\ r.type = "A" /\ Found(i, q.about)
          \/ \* PROCANSWER_MALICIOUS, or forward and reverse differ
             /\ "malicious" \in proc_answer(q, r)
             /\ UNCHANGED dnscache /\ Answered(rem_request(reqs, i), r, None)

\* An answer whose id no request has is ignored; so is one without answers in
\* it.  Queries may be lost at any time.
Lost(q) == q \in asked /\ asked' = asked \ {q}
           /\ UNCHANGED <<live, doingDNS, blocks, reqs, dnscache, hostp>>

ResolverInit ==
  /\ live = {} /\ doingDNS = {} /\ blocks = Confs /\ reqs = <<>> /\ asked = {}
  /\ dnscache = <<>> /\ hostp = [c \in Callers |-> None]

ResolverNext ==
  \/ \E c \in Callers : add_connection(c) \/ close_connection(c) \/ check_pings_dns(c)
  \/ \E b \in Confs, kind \in {"CONNECT", "CONF"} : lookup_block(b, kind)
  \/ \E b \in SUBSET Confs : rehash(b)
  \/ \E gone \in SUBSET Range(dnscache) : expire_cache(gone)
  \/ \E a \in Callers \cup Confs : timeout_query_list(a)
  \/ \E q \in asked : get_res(q) \/ Lost(q)

\* io_loop calls timeout_query_list again and again (nextdnscheck).
ResolverFairness == \A a \in Callers \cup Confs : WF_resolverVars(timeout_query_list(a))

ResolverSpec == ResolverInit /\ [][ResolverNext]_resolverVars /\ ResolverFairness

----------------------------------------------------------------------------
(* Properties.                                                             *)

Lookups(c) == {i \in DOMAIN reqs : reqs[i].who = c}

\* A client waits for DNS exactly while one request is outstanding for it, and
\* no two requests have one id: no timeout or late answer is applied to another
\* request, to a client that is gone, or to another that got its structure, and
\* none is left waiting for nothing.
WaitsForLookup ==
  /\ \A c \in Callers : Cardinality(Lookups(c)) = (IF c \in doingDNS THEN 1 ELSE 0)
  /\ \A i, j \in DOMAIN reqs : i # j /\ reqs[i].id # None => reqs[i].id # reqs[j].id

\* A client's host entry is that of its own address, and is in the cache,
\* however late or twice answers come, whatever is evicted, expires or is
\* flushed.
HostRight ==
  \A c \in Callers : hostp[c] # None => hostp[c] = addr[c] /\ hostp[c] \in Range(dnscache)

\* Both: a client waits for its own lookup and gets its own host.
LookupRight == WaitsForLookup /\ HostRight

\* Nameservers or no nameservers, a client that connects is served: its wait
\* for DNS ends.
DNSEnds == \A c \in Callers : c \in doingDNS ~> c \notin doingDNS
============================================================================
