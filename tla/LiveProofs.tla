----------------------------- MODULE LiveProofs -----------------------------
(***************************************************************************)
(* Proofs about the parts of the server that wait.  The resolver           *)
(* (src/src/res.c and do_dns_async of src/src/s_bsd.c): the inductive      *)
(* invariant LookInv says of the list of requests that ids and clients     *)
(* occur in it once, that those who wait are the clients in it, and of     *)
(* the cache that every pointer into it is to the client's own entry.      *)
(* The receive queues (do_client_queue and do_recvqs of src/src/s_bsd.c,   *)
(* src/src/packet.c): RecvInv says of a connection that what was sent is   *)
(* parsed, queued and unread in this order, and of recvq_clients that it   *)
(* has one live link for every client marked as having one.  The send      *)
(* queues (src/src/sbuf.c, src/src/send.c): SendInv says of the buffers    *)
(* that no queue uses one twice and that counts are right, of a queue that *)
(* it is what its link wants, and of those a message to many has still to  *)
(* reach that none uses its buffer yet.                                    *)
(***************************************************************************)
EXTENDS Resolver, RecvQueue, SendQueue, ListLemmas

----------------------------------------------------------------------------
(* The list of requests.                                                   *)

ReqRecs == [who : Callers \cup Confs, kind : {"CLIENT", "CONNECT", "CONF"}, type : {"PTR", "A"},
            id : QueryIds \cup {None}, retries : Nat, resend : BOOLEAN, srch : BOOLEAN, rev : BOOLEAN]

\* Every request has an id of its own and is of the kind its caller asks for;
\* no client has two.
ReqsOK(l) ==
  /\ l \in Seq(ReqRecs)
  /\ \A i \in 1 .. Len(l) : l[i].id \in QueryIds /\ (l[i].kind = "CLIENT" <=> l[i].who \in Callers)
  /\ \A i, j \in 1 .. Len(l) : i # j => l[i].id # l[j].id
  /\ \A i, j \in 1 .. Len(l) : i # j /\ l[i].who \in Callers => l[i].who # l[j].who

\* The clients with a request.
Waiting(l) == {c \in Callers : \E i \in 1 .. Len(l) : l[i].who = c}

\* A list whose requests are those of l at the places `at', perhaps with new ids.
From(r, l, at) ==
  /\ at \in [1 .. Len(r) -> 1 .. Len(l)]
  /\ \A i, j \in 1 .. Len(r) : i # j => at[i] # at[j]
  /\ \A i \in 1 .. Len(r) : r[i].who = l[at[i]].who /\ r[i].kind = l[at[i]].kind

LEMMA FromOK ==
  ASSUME NEW l, ReqsOK(l), NEW r \in Seq(ReqRecs), NEW at, From(r, l, at),
         \A i \in 1 .. Len(r) : r[i].id \in QueryIds,
         \A i, j \in 1 .. Len(r) : i # j => r[i].id # r[j].id
  PROVE  ReqsOK(r) /\ Waiting(r) \subseteq Waiting(l)
<1>1. \A i \in 1 .. Len(r) : at[i] \in 1 .. Len(l)
  BY DEF From
<1>2. \A i \in 1 .. Len(r) : r[i].kind = "CLIENT" <=> r[i].who \in Callers
  BY <1>1 DEF From, ReqsOK
<1>3. \A i, j \in 1 .. Len(r) : i # j /\ r[i].who \in Callers => r[i].who # r[j].who
  BY <1>1, SMTT(30) DEF From, ReqsOK
<1>4. Waiting(r) \subseteq Waiting(l)
  BY <1>1 DEF From, Waiting
<1> QED BY <1>2, <1>3, <1>4 DEF ReqsOK

\* The request at i is changed, but for its caller and its id.
LEMMA SameRequest ==
  ASSUME NEW l, ReqsOK(l), NEW r \in Seq(ReqRecs), Len(r) = Len(l), NEW i \in 1 .. Len(l),
         \A j \in 1 .. Len(l) : j # i => r[j] = l[j],
         r[i].who = l[i].who, r[i].kind = l[i].kind, r[i].id \in QueryIds,
         \A j \in 1 .. Len(l) : j # i => r[i].id # l[j].id
  PROVE  ReqsOK(r) /\ Waiting(r) = Waiting(l)
<1> DEFINE at == [j \in 1 .. Len(r) |-> j]
<1>1. \A j \in 1 .. Len(l) : r[j].who = l[j].who /\ r[j].kind = l[j].kind /\ r[j].id \in QueryIds
  BY DEF ReqsOK
<1>2. From(r, l, at)
  BY <1>1 DEF From
<1>3. \A j, k \in 1 .. Len(r) : j # k => r[j].id # r[k].id
  BY DEF ReqsOK
<1>4. Waiting(r) = Waiting(l)
  BY <1>1 DEF Waiting
<1> HIDE DEF at
<1> QED BY <1>1, <1>2, <1>3, <1>4, FromOK

\* query_name: a new id.
LEMMA QueryOK ==
  ASSUME NEW l, ReqsOK(l), NEW i \in 1 .. Len(l), NEW id \in fresh_id(l, i)
  PROVE  ReqsOK(query(l, i, id)) /\ Waiting(query(l, i, id)) = Waiting(l)
<1> DEFINE r == query(l, i, id)
<1>1. l \in Seq(ReqRecs) /\ l[i] \in ReqRecs /\ DOMAIN l = 1 .. Len(l) /\ Len(l) \in Nat
  BY DEF ReqsOK
<1>2. id \in QueryIds /\ \A j \in 1 .. Len(l) : j # i => id # l[j].id
  BY <1>1 DEF fresh_id
<1>3. [l[i] EXCEPT !.id = id] \in ReqRecs
  BY <1>1, <1>2 DEF ReqRecs
<1>4. r = [l EXCEPT ![i] = [l[i] EXCEPT !.id = id]]
  BY DEF query
<1>5. /\ r \in Seq(ReqRecs) /\ Len(r) = Len(l) /\ r[i] = [l[i] EXCEPT !.id = id]
      /\ \A j \in 1 .. Len(l) : j # i => r[j] = l[j]
  BY <1>1, <1>3, <1>4
<1>6. r[i].who = l[i].who /\ r[i].kind = l[i].kind /\ r[i].id = id
  BY <1>1, <1>5 DEF ReqRecs
<1> HIDE DEF r
<1>7. r[i].id \in QueryIds /\ \A j \in 1 .. Len(l) : j # i => r[i].id # l[j].id
  BY <1>2, <1>6
<1>8. r \in Seq(ReqRecs) /\ Len(r) = Len(l) /\ \A j \in 1 .. Len(l) : j # i => r[j] = l[j]
  BY <1>5
<1>9. r[i].who = l[i].who /\ r[i].kind = l[i].kind
  BY <1>6
<1>10. ReqsOK(r) /\ Waiting(r) = Waiting(l)
  BY <1>7, <1>8, <1>9, SameRequest
<1> QED BY <1>10 DEF r

\* resend_query.
LEMMA ResendOK ==
  ASSUME NEW l, ReqsOK(l), NEW i \in 1 .. Len(l), Resend(l, i)
  PROVE  ReqsOK(reqs') /\ Waiting(reqs') = Waiting(l)
BY QueryOK DEF Resend

\* rem_request.
LEMMA RemRequest ==
  ASSUME NEW l, ReqsOK(l), NEW i \in 1 .. Len(l)
  PROVE  ReqsOK(rem_request(l, i)) /\ Waiting(rem_request(l, i)) = Waiting(l) \ {l[i].who}
<1>1. l \in Seq(ReqRecs) /\ Len(l) \in Nat /\ l[i] \in ReqRecs
  BY DEF ReqsOK
<1>2. PICK r : r = RemoveAt(l, i)
  OBVIOUS
<1>3. /\ r \in Seq(ReqRecs) /\ Len(r) = Len(l) - 1
      /\ \A j \in 1 .. Len(r) : r[j] = IF j < i THEN l[j] ELSE l[j + 1]
  BY <1>1, <1>2, RemoveAtSpec
<1> DEFINE at == [j \in 1 .. Len(r) |-> IF j < i THEN j ELSE j + 1]
<1>4. /\ at \in [1 .. Len(r) -> 1 .. Len(l)]
      /\ \A j, k \in 1 .. Len(r) : j # k => at[j] # at[k]
      /\ \A j \in 1 .. Len(r) : r[j] = l[at[j]] /\ at[j] # i
      /\ \A j \in 1 .. Len(l) : j # i => \E k \in 1 .. Len(r) : at[k] = j
  <2>1. \A j \in 1 .. Len(r) : at[j] \in 1 .. Len(l) /\ at[j] # i
    BY <1>1, <1>3
  <2>2. \A j, k \in 1 .. Len(r) : j # k => at[j] # at[k]
    BY <1>1, <1>3
  <2>3. \A j \in 1 .. Len(r) : r[j] = l[at[j]]
    BY <1>3
  <2>4. ASSUME NEW j \in 1 .. Len(l), j # i PROVE \E k \in 1 .. Len(r) : at[k] = j
    <3>1. CASE j < i
      BY <1>1, <1>3, <3>1
    <3>2. CASE j > i
      <4>1. j - 1 \in 1 .. Len(r) /\ ~ (j - 1 < i) /\ j - 1 + 1 = j
        BY <1>1, <1>3, <3>2
      <4> QED BY <4>1
    <3> QED BY <2>4, <3>1, <3>2
  <2> QED BY <2>1, <2>2, <2>3, <2>4
<1> HIDE DEF at
<1>5. From(r, l, at)
  BY <1>4 DEF From
<1>6. /\ \A j \in 1 .. Len(r) : r[j].id \in QueryIds
      /\ \A j, k \in 1 .. Len(r) : j # k => r[j].id # r[k].id
  <2>1. \A j \in 1 .. Len(r) : at[j] \in 1 .. Len(l)
    BY <1>4
  <2>2. \A j \in 1 .. Len(r) : r[j].id \in QueryIds
    BY <1>4, <2>1 DEF ReqsOK
  <2>3. ASSUME NEW j \in 1 .. Len(r), NEW k \in 1 .. Len(r), j # k PROVE r[j].id # r[k].id
    <3>1. l[at[j]].id # l[at[k]].id
      BY <1>4, <2>1, <2>3 DEF ReqsOK
    <3> QED BY <1>4, <3>1
  <2> QED BY <2>2, <2>3
<1>7. ReqsOK(r)
  BY <1>3, <1>5, <1>6, FromOK
<1>8. Waiting(r) = Waiting(l) \ {l[i].who}
  <2>1. ASSUME NEW c \in Waiting(r) PROVE c \in Waiting(l) \ {l[i].who}
    <3>1. PICK j \in 1 .. Len(r) : r[j].who = c
      BY DEF Waiting
    <3>2. c \in Callers /\ at[j] \in 1 .. Len(l) /\ at[j] # i /\ l[at[j]].who = c
      BY <1>4, <3>1 DEF Waiting
    <3>3. l[i].who # c
      BY <3>2 DEF ReqsOK
    <3> QED BY <3>2, <3>3 DEF Waiting
  <2>2. ASSUME NEW c \in Waiting(l), c # l[i].who PROVE c \in Waiting(r)
    <3>1. PICK j \in 1 .. Len(l) : l[j].who = c
      BY DEF Waiting
    <3>2. j # i /\ c \in Callers
      BY <2>2, <3>1 DEF Waiting
    <3>3. PICK k \in 1 .. Len(r) : at[k] = j
      BY <1>4, <3>2
    <3>4. r[k].who = c
      BY <1>4, <3>1, <3>3
    <3> QED BY <3>2, <3>4 DEF Waiting
  <2> QED BY <2>1, <2>2
<1> QED BY <1>2, <1>7, <1>8 DEF rem_request

\* del_queries for a client.
LEMMA DelQueries ==
  ASSUME NEW l, ReqsOK(l), NEW c \in Callers
  PROVE  ReqsOK(del_queries(l, c)) /\ Waiting(del_queries(l, c)) = Waiting(l) \ {c}
<1> DEFINE mine == {i \in DOMAIN l : l[i].who = c}
<1>1. DOMAIN l = 1 .. Len(l) /\ Len(l) \in Nat
  BY DEF ReqsOK
<1>2. CASE mine = {}
  <2>1. del_queries(l, c) = l
    BY <1>2 DEF del_queries
  <2>2. c \notin Waiting(l)
    BY <1>1, <1>2 DEF Waiting
  <2> QED BY <2>1, <2>2
<1>3. CASE mine # {}
  <2>1. PICK k \in mine : TRUE
    BY <1>3
  <2>2. \A i \in mine : i = k
    BY <1>1, <2>1 DEF ReqsOK
  <2>3. k \in mine /\ \A j \in mine : j <= k
    BY <1>1, <2>1, <2>2
  <2>4. (CHOOSE i \in mine : \A j \in mine : j <= i) = k
    BY <2>2, <2>3
  <2>5. del_queries(l, c) = rem_request(l, k)
    BY <1>3, <2>4 DEF del_queries
  <2>6. k \in 1 .. Len(l) /\ l[k].who = c
    BY <1>1, <2>1
  <2> QED BY <2>5, <2>6, RemRequest
<1> QED BY <1>2, <1>3

\* make_request and query_name: one more request, for a client that has none or
\* for a connect block.
Made(m, l, who, kind, type) == m = make_request(l, who, kind, type, FALSE)

LEMMA AskOK ==
  ASSUME NEW l, ReqsOK(l), NEW who \in Callers \cup Confs, who \notin Waiting(l),
         NEW kind \in {"CLIENT", "CONNECT", "CONF"}, kind = "CLIENT" <=> who \in Callers,
         NEW type \in {"PTR", "A"}, NEW m, Made(m, l, who, kind, type),
         NEW id \in fresh_id(m, Len(m))
  PROVE  ReqsOK(query(m, Len(m), id)) /\ Waiting(query(m, Len(m), id)) = Waiting(l) \cup ({who} \cap Callers)
<1> DEFINE e == [who |-> who, kind |-> kind, type |-> type, id |-> None, retries |-> Retries,
                 resend |-> TRUE, srch |-> FALSE, rev |-> FALSE]
           f == [e EXCEPT !.id = id]
           n == Len(l) + 1
<1>1. l \in Seq(ReqRecs) /\ Len(l) \in Nat
  BY DEF ReqsOK
<1>2. e \in ReqRecs /\ e.who = who /\ e.kind = kind
  BY ResolverAssumption DEF ReqRecs
<1>3. m = Append(l, e)
  BY DEF make_request, Made
<1> HIDE DEF e
<1>4. /\ m \in Seq(ReqRecs) /\ Len(m) = n /\ m[n] = e /\ \A i \in 1 .. Len(l) : m[i] = l[i]
      /\ DOMAIN m = 1 .. n
  BY <1>1, <1>2, <1>3
<1>5. id \in QueryIds /\ \A i \in 1 .. Len(l) : id # l[i].id
  BY <1>1, <1>4 DEF fresh_id
<1>6. f \in ReqRecs /\ f.who = who /\ f.kind = kind /\ f.id = id
  BY <1>2, <1>5 DEF ReqRecs
<1>7. [m[n] EXCEPT !.id = id] = f
  BY <1>4
<1> HIDE DEF f
<1>8. PICK r : r = query(m, n, id)
  OBVIOUS
<1>9. r = [m EXCEPT ![n] = f]
  BY <1>4, <1>7, <1>8 DEF query
<1>10. /\ r \in Seq(ReqRecs) /\ Len(r) = n /\ r[n] = f /\ \A i \in 1 .. Len(l) : r[i] = l[i]
       /\ \A i \in 1 .. n : i \in 1 .. Len(l) \/ i = n
  BY <1>1, <1>4, <1>6, <1>9
<1> HIDE DEF n
<1>11. \A i \in 1 .. Len(l) : i \in 1 .. n /\ i # n
  BY <1>1 DEF n
<1>12. n \in 1 .. n
  BY <1>1 DEF n
<1>13. \A i \in 1 .. n : r[i].id \in QueryIds /\ (r[i].kind = "CLIENT" <=> r[i].who \in Callers)
  BY <1>5, <1>6, <1>10 DEF ReqsOK
<1>14. \A i, j \in 1 .. n : i # j => r[i].id # r[j].id
  BY <1>5, <1>6, <1>10 DEF ReqsOK
<1>15. \A i, j \in 1 .. n : i # j /\ r[i].who \in Callers => r[i].who # r[j].who
  <2>1. \A i \in 1 .. Len(l) : r[i].who \in Callers => r[i].who # who
    BY <1>10 DEF Waiting
  <2> QED BY <1>6, <1>10, <2>1 DEF ReqsOK
<1>16. Waiting(r) = Waiting(l) \cup ({who} \cap Callers)
  BY <1>6, <1>10, <1>11, <1>12 DEF Waiting
<1> QED BY <1>4, <1>8, <1>10, <1>13, <1>14, <1>15, <1>16 DEF ReqsOK

\* The request at i goes, and one of the same caller with another id comes last.
LEMMA ReplacedOK ==
  ASSUME NEW l, ReqsOK(l), NEW i \in 1 .. Len(l), NEW f \in ReqRecs,
         f.who = l[i].who, f.kind = l[i].kind, f.id \in QueryIds,
         \A j \in 1 .. Len(l) : f.id # l[j].id,
         NEW r \in Seq(ReqRecs), Len(r) = Len(l),
         \A j \in 1 .. Len(l) :
           r[j] = IF j < i THEN l[j] ELSE IF j = Len(l) THEN f ELSE l[j + 1]
  PROVE  ReqsOK(r) /\ Waiting(r) = Waiting(l)
<1>1. Len(l) \in Nat
  BY DEF ReqsOK
<1> DEFINE at == [j \in 1 .. Len(l) |-> IF j < i THEN j ELSE IF j = Len(l) THEN i ELSE j + 1]
<1>12. \A j \in 1 .. Len(l) : at[j] \in 1 .. Len(l)
  BY <1>1
<1>13. \A j, h \in 1 .. Len(l) : j # h => at[j] # at[h]
  BY <1>1
<1>14. \A j \in 1 .. Len(l) : \E h \in 1 .. Len(l) : at[h] = j
  <2>1. ASSUME NEW j \in 1 .. Len(l), j < i PROVE at[j] = j
    BY <2>1
  <2>2. Len(l) \in 1 .. Len(l) /\ at[Len(l)] = i
    BY <1>1
  <2>3. ASSUME NEW j \in 1 .. Len(l), j > i PROVE j - 1 \in 1 .. Len(l) /\ at[j - 1] = j
    <3>1. j - 1 \in 1 .. Len(l) /\ ~ (j - 1 < i) /\ j - 1 # Len(l) /\ j - 1 + 1 = j
      BY <1>1, <2>3
    <3> QED BY <3>1
  <2>4. \A j \in 1 .. Len(l) : j < i \/ j = i \/ j > i
    BY <1>1
  <2> HIDE DEF at
  <2> QED BY <2>1, <2>2, <2>3, <2>4
<1>15. ASSUME NEW j \in 1 .. Len(l)
       PROVE  \/ r[j] = l[at[j]] /\ at[j] # i
              \/ r[j] = f /\ at[j] = i
  <2>1. CASE j < i
    <3>1. at[j] = j /\ j # i
      BY <1>1, <2>1
    <3>2. r[j] = l[j]
      BY <2>1
    <3> QED BY <3>1, <3>2
  <2>2. CASE ~ (j < i) /\ j = Len(l)
    <3>1. at[j] = i
      BY <1>1, <2>2
    <3>2. r[j] = f
      BY <2>2
    <3> QED BY <3>1, <3>2
  <2>3. CASE ~ (j < i) /\ j # Len(l)
    <3>1. at[j] = j + 1 /\ j + 1 # i
      BY <1>1, <2>3
    <3>2. r[j] = l[j + 1]
      BY <2>3
    <3> QED BY <3>1, <3>2
  <2> HIDE DEF at
  <2> QED BY <2>1, <2>2, <2>3
<1>16. at \in [1 .. Len(r) -> 1 .. Len(l)]
  BY <1>12
<1> HIDE DEF at
<1>17. \A j \in 1 .. Len(l) : r[j].who = l[at[j]].who /\ r[j].kind = l[at[j]].kind
  BY <1>15
<1>18. From(r, l, at)
  BY <1>13, <1>16, <1>17 DEF From
<1>19. /\ \A j \in 1 .. Len(r) : r[j].id \in QueryIds
       /\ \A j, h \in 1 .. Len(r) : j # h => r[j].id # r[h].id
  <2>1. \A j \in 1 .. Len(l) : r[j].id \in QueryIds
    BY <1>12, <1>15 DEF ReqsOK
  <2>2. ASSUME NEW j \in 1 .. Len(l), NEW h \in 1 .. Len(l), j # h PROVE r[j].id # r[h].id
    <3>1. at[j] # at[h] /\ at[j] \in 1 .. Len(l) /\ at[h] \in 1 .. Len(l)
      BY <1>12, <1>13, <2>2
    <3>2. l[at[j]].id # l[at[h]].id
      BY <3>1 DEF ReqsOK
    <3> QED BY <1>15, <3>1, <3>2
  <2> QED BY <2>1, <2>2
<1>20. ReqsOK(r) /\ Waiting(r) \subseteq Waiting(l)
  BY <1>18, <1>19, FromOK
<1>21. ASSUME NEW c \in Waiting(l) PROVE c \in Waiting(r)
  <2>1. PICK j \in 1 .. Len(l) : l[j].who = c
    BY DEF Waiting
  <2>2. PICK h \in 1 .. Len(l) : at[h] = j
    BY <1>14
  <2>3. h \in 1 .. Len(r) /\ r[h].who = c
    BY <1>17, <2>1, <2>2
  <2> QED BY <2>3 DEF Waiting
<1> QED BY <1>20, <1>21

LEMMA NextPlace ==
  ASSUME NEW n \in Nat, NEW j \in 1 .. n, j # n
  PROVE  j + 1 \in 1 .. n
OBVIOUS

\* The list after that.
LEMMA AppendedOK ==
  ASSUME NEW l, ReqsOK(l), NEW i \in 1 .. Len(l), NEW e \in ReqRecs, NEW id,
         e.who = l[i].who, e.kind = l[i].kind, id \in QueryIds,
         \A j \in 1 .. Len(l) : id # l[j].id,
         NEW m, m = query(Append(l, e), Len(l) + 1, id)
  PROVE  ReqsOK(rem_request(m, i)) /\ Waiting(rem_request(m, i)) = Waiting(l)
<1> DEFINE f == [e EXCEPT !.id = id]
<1>1. l \in Seq(ReqRecs) /\ Len(l) \in Nat /\ DOMAIN l = 1 .. Len(l)
  BY DEF ReqsOK
<1>6. f \in ReqRecs /\ f.who = l[i].who /\ f.kind = l[i].kind /\ f.id = id
  BY DEF ReqRecs
<1>7. PICK a, n : a = Append(l, e) /\ n = Len(l) + 1
  OBVIOUS
<1>8. a[n] = e /\ a \in Seq(ReqRecs) /\ Len(a) = n /\ \A j \in 1 .. Len(l) : a[j] = l[j]
  BY <1>1, <1>7
<1>9. m = [a EXCEPT ![n] = f]
  BY <1>7, <1>8 DEF query
<1> HIDE DEF f
<1>10. /\ m \in Seq(ReqRecs) /\ Len(m) = n /\ m[n] = f /\ \A j \in 1 .. Len(l) : m[j] = l[j]
  <2>1. n \in 1 .. Len(a) /\ \A j \in 1 .. Len(l) : j # n /\ j \in 1 .. Len(a)
    BY <1>1, <1>7, <1>8
  <2> QED BY <1>6, <1>8, <1>9, <2>1
<1>11. PICK r : r = RemoveAt(m, i)
  OBVIOUS
<1>12. i \in 1 .. Len(m) /\ m \in Seq(ReqRecs)
  BY <1>1, <1>7, <1>10
<1>13. /\ r \in Seq(ReqRecs) /\ Len(r) = Len(m) - 1
       /\ \A j \in 1 .. Len(r) : r[j] = IF j < i THEN m[j] ELSE m[j + 1]

  BY <1>11, <1>12, RemoveAtSpec, SMTT(30)
<1>14. Len(r) = Len(l)
  BY <1>1, <1>7, <1>10, <1>13
<1>15. \A j \in 1 .. Len(l) : r[j] = IF j < i THEN l[j] ELSE IF j = Len(l) THEN f ELSE l[j + 1]
  <2>1. ASSUME NEW j \in 1 .. Len(l)
        PROVE  r[j] = IF j < i THEN l[j] ELSE IF j = Len(l) THEN f ELSE l[j + 1]
    <3>1. m[j] = l[j]
      BY <1>10
    <3>2. r[j] = IF j < i THEN m[j] ELSE m[j + 1]
      BY <1>13, <1>14
    <3>3. CASE j = Len(l)
      <4>1. m[j + 1] = f
        BY <1>7, <1>10, <3>3
      <4> QED BY <3>1, <3>2, <3>3, <4>1
    <3>4. CASE j # Len(l)
      <4>1. j + 1 \in 1 .. Len(l)
        BY <1>1, <3>4, NextPlace
      <4>2. m[j + 1] = l[j + 1]
        BY <1>10, <4>1
      <4> QED BY <3>1, <3>2, <3>4, <4>2
    <3> QED BY <3>3, <3>4
  <2> QED BY <2>1
<1>16. f.who = l[i].who /\ f.kind = l[i].kind /\ f.id \in QueryIds
       /\ \A j \in 1 .. Len(l) : f.id # l[j].id
  BY <1>6
<1>17. ReqsOK(r) /\ Waiting(r) = Waiting(l)
  BY <1>6, <1>13, <1>14, <1>15, <1>16, ReplacedOK
<1> QED BY <1>11, <1>17 DEF rem_request

\* A PTR record: the new request takes the place of the old one.
Again(e, l, i) ==
  e = [who |-> l[i].who, kind |-> l[i].kind, type |-> "A", id |-> None, retries |-> Retries,
       resend |-> TRUE, srch |-> FALSE, rev |-> TRUE]

LEMMA RelookupOK ==
  ASSUME NEW l, ReqsOK(l), NEW i \in 1 .. Len(l), NEW id \in fresh_id(l, 0),
         NEW e, Again(e, l, i), NEW m, m = query(Append(l, e), Len(l) + 1, id)
  PROVE  ReqsOK(rem_request(m, i)) /\ Waiting(rem_request(m, i)) = Waiting(l)
<1>1. l \in Seq(ReqRecs) /\ Len(l) \in Nat /\ DOMAIN l = 1 .. Len(l)
  BY DEF ReqsOK
<1>2. PICK w, k : w = l[i].who /\ k = l[i].kind
  OBVIOUS
<1>3. w \in Callers \cup Confs /\ k \in {"CLIENT", "CONNECT", "CONF"}
  <2>1. l[i] \in ReqRecs
    BY <1>1
  <2> QED BY <1>2, <2>1 DEF ReqRecs
<1>4. e = [who |-> w, kind |-> k, type |-> "A", id |-> None, retries |-> Retries,
           resend |-> TRUE, srch |-> FALSE, rev |-> TRUE]
  BY <1>2 DEF Again
<1>5. Retries \in Nat
  BY ResolverAssumption
<1>6. e \in ReqRecs /\ e.who = w /\ e.kind = k
  BY <1>3, <1>4, <1>5 DEF ReqRecs
<1>7. e.who = l[i].who /\ e.kind = l[i].kind
  BY <1>2, <1>6
<1>8. id \in QueryIds /\ \A j \in 1 .. Len(l) : id # l[j].id
  BY <1>1 DEF fresh_id
<1> QED BY <1>6, <1>7, <1>8, AppendedOK

----------------------------------------------------------------------------
(* The cache.                                                              *)

Addresses == {addr[a] : a \in Callers \cup Confs}

CacheOK(k) == k \in Seq(Addresses) /\ IsInjective(k)

\* update_list.
LEMMA TouchOK ==
  ASSUME NEW k, CacheOK(k), NEW a \in Addresses
  PROVE  /\ CacheOK(touch(k, a)) /\ Range(touch(k, a)) = Range(k) \cup {a}
         /\ Len(touch(k, a)) \in Nat \ {0} /\ touch(k, a)[1] = a
<1>1. k \in Seq(Addresses) /\ IsInjective(k)
  BY DEF CacheOK
<1>2. PICK r : r = RemoveFirst(k, a)
  OBVIOUS
<1>3. r \in Seq(Addresses) /\ IsInjective(r) /\ Range(r) = Range(k) \ {a} /\ Len(r) \in Nat
  BY <1>1, <1>2, RemoveFirstSpec
<1>4. PICK t : t = <<a>> \o r
  OBVIOUS
<1>5. /\ t \in Seq(Addresses) /\ IsInjective(t) /\ Len(t) = Len(r) + 1 /\ t[1] = a
      /\ Range(t) = Range(r) \cup {a}
  BY <1>3, <1>4, PushSpec
<1> QED BY <1>2, <1>3, <1>4, <1>5 DEF touch, CacheOK

\* make_cache, add_to_cache: the new entry is not the one that goes.
LEMMA CachedOK ==
  ASSUME NEW k, CacheOK(k), NEW a \in Addresses
  PROVE  CacheOK(cached(k, a)) /\ a \in Range(cached(k, a))
<1>1. PICK t : t = touch(k, a)
  OBVIOUS
<1>2. t \in Seq(Addresses) /\ IsInjective(t) /\ Len(t) \in Nat \ {0} /\ t[1] = a
  BY <1>1, TouchOK DEF CacheOK
<1>3. PICK n : n = IF Len(t) > MaxCached THEN MaxCached ELSE Len(t)
  OBVIOUS
<1>4. n \in Nat /\ 1 <= n /\ n <= Len(t)
  BY <1>2, <1>3, ResolverAssumption
<1>5. PICK s : s = SubSeq(t, 1, n)
  OBVIOUS
<1>6. s \in Seq(Addresses) /\ Len(s) = n /\ \A i \in 1 .. n : s[i] = t[i]
  BY <1>2, <1>4, <1>5
<1>7. \A i \in 1 .. n : i \in 1 .. Len(t)
  BY <1>2, <1>4
<1>8. IsInjective(s)
  BY <1>2, <1>6, <1>7 DEF IsInjective
<1>9. 1 \in 1 .. n
  BY <1>4
<1>10. a \in Range(s)
  BY <1>2, <1>6, <1>9 DEF Range
<1>11. cached(k, a) = s
  BY <1>1, <1>3, <1>5 DEF cached
<1> QED BY <1>6, <1>8, <1>10, <1>11 DEF CacheOK

\* expire_cache.
LEMMA ExpiredOK ==
  ASSUME NEW k, CacheOK(k), NEW K
  PROVE  CacheOK(Keep(k, K)) /\ Range(Keep(k, K)) = Range(k) \cap K
<1>1. k \in Seq(Addresses) /\ IsInjective(k)
  BY DEF CacheOK
<1>2. PICK s : s = Keep(k, K)
  OBVIOUS
<1>3. s \in Seq(Addresses) /\ Range(s) = Range(k) \cap K /\ \E at : Thins(s, k, at)
  BY <1>1, <1>2, KeepSpec
<1>4. PICK at : Thins(s, k, at)
  BY <1>3
<1>5. IsInjective(s)
  BY <1>1, <1>3, <1>4, ThinnerList
<1> QED BY <1>2, <1>3, <1>5 DEF CacheOK

----------------------------------------------------------------------------
(* The invariant.                                                          *)

\* Who waits has a request, and nobody else.
WaitOK == ReqsOK(reqs) /\ doingDNS = Waiting(reqs) /\ doingDNS \subseteq live

\* The cache and the pointers into it.
HostsOK == /\ CacheOK(dnscache) /\ hostp \in [Callers -> Addresses \cup {None}] /\ HostRight

LookInv == WaitOK /\ HostsOK

\* rem_cache leaves no pointer to what is gone.
LEMMA RemCache ==
  ASSUME HostsOK, NEW gone
  PROVE  /\ rem_cache(gone) \in [Callers -> Addresses \cup {None}]
         /\ \A c \in Callers : rem_cache(gone)[c] # None =>
              /\ rem_cache(gone)[c] = addr[c]
              /\ rem_cache(gone)[c] \in Range(dnscache) \ gone
BY DEF HostsOK, HostRight, rem_cache

\* do_dns_async, the pointer: hp is nothing or the client's own entry.
LEMMA ResolvedHosts ==
  ASSUME HostsOK, CacheOK(dnscache'), NEW r \in ReqRecs,
         r.kind = "CLIENT" <=> r.who \in Callers,
         NEW hp, hp = None \/ (hp = addr[r.who] /\ hp \in Range(dnscache')),
         Resolved(r, hp)
  PROVE  HostsOK'
<1>1. PICK g : g = rem_cache(Range(dnscache) \ Range(dnscache'))
  OBVIOUS
<1>2. /\ g \in [Callers -> Addresses \cup {None}]
      /\ \A c \in Callers : g[c] # None => g[c] = addr[c] /\ g[c] \in Range(dnscache')
  BY <1>1, RemCache
<1>3. CASE r.kind = "CLIENT"
  <2>1. r.who \in Callers
    BY <1>3
  <2>2. hostp' = [g EXCEPT ![r.who] = hp]
    BY <1>1, <1>3 DEF Resolved
  <2>3. hp \in Addresses \cup {None}
    BY <2>1 DEF Addresses
  <2> QED BY <1>2, <2>1, <2>2, <2>3 DEF HostsOK, HostRight
<1>4. CASE r.kind # "CLIENT"
  <2>1. hostp' = g
    BY <1>1, <1>4 DEF Resolved
  <2> QED BY <1>2, <2>1 DEF HostsOK, HostRight
<1> QED BY <1>3, <1>4

\* do_dns_async, the list: the request of the client that waited is gone.
LEMMA AnsweredWaits ==
  ASSUME WaitOK, NEW i \in 1 .. Len(reqs), NEW l, ReqsOK(l),
         Waiting(l) \ {reqs[i].who} = Waiting(reqs) \ {reqs[i].who},
         NEW hp, Answered(l, reqs[i], hp)
  PROVE  WaitOK'
<1>1. PICK r : r = reqs[i]
  OBVIOUS
<1>2. r.kind = "CLIENT" <=> r.who \in Callers
  BY <1>1 DEF WaitOK, ReqsOK
<1>3. live' = live
  BY <1>1 DEF Answered, Resolved
<1>4. CASE r.kind = "CLIENT"
  <2>1. reqs' = del_queries(l, r.who) /\ doingDNS' = doingDNS \ {r.who}
    BY <1>1, <1>4 DEF Answered, Resolved
  <2>2. r.who \in Callers
    BY <1>2, <1>4
  <2>3. ReqsOK(reqs') /\ Waiting(reqs') = Waiting(l) \ {r.who}
    BY <2>1, <2>2, DelQueries
  <2> QED BY <1>1, <1>3, <2>1, <2>3 DEF WaitOK
<1>5. CASE r.kind # "CLIENT"
  <2>1. reqs' = l /\ doingDNS' = doingDNS
    BY <1>1, <1>5 DEF Answered, Resolved
  <2>2. r.who \notin Callers
    BY <1>2, <1>5
  <2>3. Waiting(l) = Waiting(reqs)
    BY <1>1, <2>2 DEF Waiting
  <2> QED BY <1>3, <2>1, <2>3 DEF WaitOK
<1> QED BY <1>4, <1>5

\* Both together.
LEMMA AnsweredOK ==
  ASSUME LookInv, CacheOK(dnscache'), NEW i \in 1 .. Len(reqs), NEW l, ReqsOK(l),
         Waiting(l) \ {reqs[i].who} = Waiting(reqs) \ {reqs[i].who},
         NEW hp, hp = None \/ (hp = addr[reqs[i].who] /\ hp \in Range(dnscache')),
         Answered(l, reqs[i], hp)
  PROVE  LookInv'
<1>1. WaitOK'
  BY AnsweredWaits DEF LookInv
<1>2. PICK r : r = reqs[i]
  OBVIOUS
<1>3. r \in ReqRecs /\ (r.kind = "CLIENT" <=> r.who \in Callers)
  BY <1>2 DEF LookInv, WaitOK, ReqsOK
<1>4. Resolved(r, hp) /\ (hp = None \/ (hp = addr[r.who] /\ hp \in Range(dnscache')))
  BY <1>2 DEF Answered
<1>5. HostsOK'
  BY <1>3, <1>4, ResolvedHosts DEF LookInv
<1> QED BY <1>1, <1>5 DEF LookInv

\* A step that leaves the cache and the pointers alone.
LEMMA SameHosts ==
  ASSUME HostsOK, UNCHANGED <<dnscache, hostp>>
  PROVE  HostsOK'
BY DEF HostsOK, HostRight

\* A step after which the same clients wait.
LEMMA SameWaits ==
  ASSUME LookInv, ReqsOK(reqs'), Waiting(reqs') = Waiting(reqs),
         UNCHANGED <<live, doingDNS, dnscache, hostp>>
  PROVE  LookInv'
BY SameHosts DEF LookInv, WaitOK

\* The request at i is changed, but for its caller and its id.
Updated(r, l, i, f) == r = [l EXCEPT ![i] = f]

LEMMA UpdatedOK ==
  ASSUME NEW l, ReqsOK(l), NEW i \in 1 .. Len(l), NEW e, e = l[i], NEW f \in ReqRecs,
         f.who = e.who, f.kind = e.kind, f.id = e.id, NEW r, Updated(r, l, i, f)
  PROVE  ReqsOK(r) /\ Waiting(r) = Waiting(l) /\ Len(r) = Len(l) /\ r[i] = f
<1>1. l \in Seq(ReqRecs) /\ DOMAIN l = 1 .. Len(l) /\ Len(l) \in Nat
  BY DEF ReqsOK
<1>2. /\ r \in Seq(ReqRecs) /\ Len(r) = Len(l) /\ r[i] = f
      /\ \A j \in 1 .. Len(l) : j # i => r[j] = l[j]
  BY <1>1 DEF Updated
<1>3. r[i].who = l[i].who /\ r[i].kind = l[i].kind
  BY <1>2
<1>4. r[i].id \in QueryIds /\ \A j \in 1 .. Len(l) : j # i => r[i].id # l[j].id
  BY <1>2 DEF ReqsOK
<1> QED BY <1>2, <1>3, <1>4, SameRequest

LEMMA FewerNat == ASSUME NEW n \in Nat PROVE fewer(n) \in Nat
BY DEF fewer

\* timeout_query_list counts a retry.
Retried(r, l, i) == r = [l EXCEPT ![i].retries = fewer(@)]

LEMMA RetriedOK ==
  ASSUME NEW l, ReqsOK(l), NEW i \in 1 .. Len(l), NEW r, Retried(r, l, i)
  PROVE  /\ ReqsOK(r) /\ Waiting(r) = Waiting(l) /\ Len(r) = Len(l)
         /\ r[i].kind = l[i].kind /\ r[i].who = l[i].who
<1>1. l[i] \in ReqRecs
  BY DEF ReqsOK
<1>2. PICK e : e = l[i]
  OBVIOUS
<1>3. PICK f : f = [e EXCEPT !.retries = fewer(e.retries)]
  OBVIOUS
<1>4. e.retries \in Nat
  BY <1>1, <1>2 DEF ReqRecs
<1>5. f \in ReqRecs /\ f.who = e.who /\ f.kind = e.kind /\ f.id = e.id
  BY <1>1, <1>2, <1>3, <1>4, FewerNat DEF ReqRecs
<1>6. Updated(r, l, i, f)
  BY <1>2, <1>3 DEF Updated, Retried
<1>7. ReqsOK(r) /\ Waiting(r) = Waiting(l) /\ Len(r) = Len(l) /\ r[i] = f
  BY <1>2, <1>5, <1>6, UpdatedOK
<1> QED BY <1>2, <1>5, <1>7

\* timeout_query_list.
LEMMA TimeoutStep ==
  ASSUME LookInv, NEW a \in Callers \cup Confs, timeout_query_list(a)
  PROVE  LookInv'
<1>1. PICK i \in DOMAIN reqs : /\ timeout_query(i) /\ UNCHANGED <<live, blocks, dnscache, hostp>>
  BY DEF timeout_query_list
<1>2. ReqsOK(reqs) /\ i \in 1 .. Len(reqs)
  BY <1>1 DEF LookInv, WaitOK, ReqsOK
<1>3. PICK l : l = [reqs EXCEPT ![i].retries = fewer(@)]
  OBVIOUS
<1>4. /\ ReqsOK(l) /\ Waiting(l) = Waiting(reqs) /\ Len(l) = Len(reqs)
      /\ l[i].kind = reqs[i].kind /\ l[i].who = reqs[i].who
  <2>1. Retried(l, reqs, i)
    BY <1>3 DEF Retried
  <2> QED BY <1>2, <2>1, RetriedOK
<1>5. CASE l[i].retries <= 0
  <2>1. /\ reqs' = rem_request(reqs, i)
        /\ doingDNS' = IF l[i].kind = "CLIENT" THEN doingDNS \ {l[i].who} ELSE doingDNS
    BY <1>1, <1>3, <1>5 DEF timeout_query
  <2>2. ReqsOK(reqs') /\ Waiting(reqs') = Waiting(reqs) \ {reqs[i].who}
    BY <1>2, <2>1, RemRequest
  <2>3. reqs[i].kind = "CLIENT" <=> reqs[i].who \in Callers
    BY <1>2 DEF ReqsOK
  <2>4. doingDNS' = Waiting(reqs')
    <3>1. CASE reqs[i].kind = "CLIENT"
      BY <1>4, <2>1, <2>2, <3>1 DEF LookInv, WaitOK
    <3>2. CASE reqs[i].kind # "CLIENT"
      <4>1. reqs[i].who \notin Waiting(reqs)
        BY <2>3, <3>2 DEF Waiting
      <4> QED BY <1>4, <2>1, <2>2, <3>2, <4>1 DEF LookInv, WaitOK
    <3> QED BY <3>1, <3>2
  <2>5. doingDNS' \subseteq live'
    BY <1>1, <2>1 DEF LookInv, WaitOK
  <2> QED BY <1>1, <2>2, <2>4, <2>5, SameHosts DEF LookInv, WaitOK
<1>6. CASE ~ (l[i].retries <= 0)
  <2>1. Resend(l, i) /\ UNCHANGED doingDNS
    BY <1>1, <1>3, <1>6 DEF timeout_query
  <2>2. ReqsOK(reqs') /\ Waiting(reqs') = Waiting(l)
    BY <1>2, <1>4, <2>1, ResendOK
  <2> QED BY <1>1, <1>4, <2>1, <2>2, SameWaits
<1> QED BY <1>5, <1>6

\* getres_err without TRY_AGAIN.
LEMMA InsistStep ==
  ASSUME LookInv, NEW l, ReqsOK(l), Waiting(l) = Waiting(reqs), NEW i \in 1 .. Len(l), Insist(l, i)
  PROVE  LookInv'
<1>1. CASE ~ l[i].srch
  <2>1. PICK m : m = [l EXCEPT ![i].srch = TRUE, ![i].retries = ResRetry, ![i].resend = TRUE]
    OBVIOUS
  <2>2. Resend(m, i)
    BY <1>1, <2>1 DEF Insist
  <2>3. l[i] \in ReqRecs /\ l \in Seq(ReqRecs)
    BY DEF ReqsOK
  <2>4. PICK e : e = l[i]
    OBVIOUS
  <2>5. PICK f : f = [e EXCEPT !.srch = TRUE]
    OBVIOUS
  <2>6. PICK g : g = [f EXCEPT !.retries = ResRetry]
    OBVIOUS
  <2>7. PICK h : h = [g EXCEPT !.resend = TRUE]
    OBVIOUS
  <2>8. ResRetry \in Nat
    BY ResolverAssumption
  <2>9. f \in ReqRecs /\ f.who = e.who /\ f.kind = e.kind /\ f.id = e.id
    BY <2>3, <2>4, <2>5 DEF ReqRecs
  <2>10. g \in ReqRecs /\ g.who = e.who /\ g.kind = e.kind /\ g.id = e.id
    BY <2>6, <2>8, <2>9 DEF ReqRecs
  <2>11. h \in ReqRecs /\ h.who = e.who /\ h.kind = e.kind /\ h.id = e.id
    BY <2>7, <2>10 DEF ReqRecs
  <2>12. Updated(m, l, i, h)
    BY <2>1, <2>3, <2>4, <2>5, <2>6, <2>7 DEF Updated
  <2>13. ReqsOK(m) /\ Waiting(m) = Waiting(l) /\ Len(m) = Len(l)
    BY <2>4, <2>11, <2>12, UpdatedOK
  <2>14. ReqsOK(reqs') /\ Waiting(reqs') = Waiting(m)
    BY <2>2, <2>13, ResendOK
  <2> QED BY <2>13, <2>14, SameWaits DEF Insist, nobody
<1>2. CASE l[i].srch
  <2>1. ReqsOK(reqs') /\ Waiting(reqs') = Waiting(l)
    BY <1>2, ResendOK DEF Insist
  <2> QED BY <2>1, SameWaits DEF Insist, nobody
<1>3. l[i].srch \in BOOLEAN
  <2>1. l[i] \in ReqRecs
    BY DEF ReqsOK
  <2> QED BY <2>1 DEF ReqRecs
<1> QED BY <1>1, <1>2, <1>3

\* ... after the answer stopped the retries.
Stopped(r, l, i) == r = [l EXCEPT ![i].retries = 0, ![i].resend = FALSE]

LEMMA StoppedOK ==
  ASSUME NEW l, ReqsOK(l), NEW i \in 1 .. Len(l), NEW r, Stopped(r, l, i)
  PROVE  ReqsOK(r) /\ Waiting(r) = Waiting(l) /\ Len(r) = Len(l)
<1>1. l[i] \in ReqRecs /\ l \in Seq(ReqRecs)
  BY DEF ReqsOK
<1>2. PICK e : e = l[i]
  OBVIOUS
<1>3. PICK f : f = [e EXCEPT !.retries = 0]
  OBVIOUS
<1>4. PICK g : g = [f EXCEPT !.resend = FALSE]
  OBVIOUS
<1>5. f \in ReqRecs /\ f.who = e.who /\ f.kind = e.kind /\ f.id = e.id
  BY <1>1, <1>2, <1>3 DEF ReqRecs
<1>6. g \in ReqRecs /\ g.who = e.who /\ g.kind = e.kind /\ g.id = e.id
  BY <1>4, <1>5 DEF ReqRecs
<1>7. Updated(r, l, i, g)
  BY <1>1, <1>2, <1>3, <1>4 DEF Updated, Stopped
<1> QED BY <1>2, <1>6, <1>7, UpdatedOK

\* PROCANSWER_STRANGE.
LEMMA StrangeStep ==
  ASSUME LookInv, NEW i \in 1 .. Len(reqs), Strange(i)
  PROVE  LookInv'
<1>1. PICK l : l = [reqs EXCEPT ![i].retries = fewer(@), ![i].resend = TRUE]
  OBVIOUS
<1>2. ReqsOK(reqs)
  BY DEF LookInv, WaitOK
<1>3. ReqsOK(l) /\ Waiting(l) = Waiting(reqs) /\ Len(l) = Len(reqs)
  <2>1. reqs[i] \in ReqRecs /\ reqs \in Seq(ReqRecs)
    BY <1>2 DEF ReqsOK
  <2>2. PICK e : e = reqs[i]
    OBVIOUS
  <2>3. PICK f : f = [e EXCEPT !.retries = fewer(e.retries)]
    OBVIOUS
  <2>4. PICK g : g = [f EXCEPT !.resend = TRUE]
    OBVIOUS
  <2>5. e.retries \in Nat
    BY <2>1, <2>2 DEF ReqRecs
  <2>6. f \in ReqRecs /\ f.who = e.who /\ f.kind = e.kind /\ f.id = e.id
    BY <2>1, <2>2, <2>3, <2>5, FewerNat DEF ReqRecs
  <2>7. g \in ReqRecs /\ g.who = e.who /\ g.kind = e.kind /\ g.id = e.id
    BY <2>4, <2>6 DEF ReqRecs
  <2>8. Updated(l, reqs, i, g)
    BY <1>1, <2>1, <2>2, <2>3, <2>4 DEF Updated
  <2> QED BY <1>2, <2>2, <2>7, <2>8, UpdatedOK
<1>4. CASE l[i].retries <= 0
  <2>1. dnscache' = dnscache /\ Answered(l, reqs[i], None)
    BY <1>1, <1>4 DEF Strange
  <2>2. CacheOK(dnscache')
    BY <2>1 DEF LookInv, HostsOK
  <2> QED BY <1>3, <2>1, <2>2, AnsweredOK
<1>5. CASE ~ (l[i].retries <= 0)
  <2>1. Resend(l, i) /\ UNCHANGED <<live, doingDNS, dnscache, hostp>>
    BY <1>1, <1>5 DEF Strange, nobody
  <2>2. ReqsOK(reqs') /\ Waiting(reqs') = Waiting(l)
    BY <1>3, <2>1, ResendOK
  <2> QED BY <1>3, <2>1, <2>2, SameWaits
<1> QED BY <1>4, <1>5

\* do_query_name, do_query_number.
LEMMA AskStep ==
  ASSUME ReqsOK(reqs), NEW who \in Callers \cup Confs, who \notin Waiting(reqs),
         NEW kind \in {"CLIENT", "CONNECT", "CONF"}, kind = "CLIENT" <=> who \in Callers,
         NEW type \in {"PTR", "A"}, Ask(reqs, who, kind, type, FALSE)
  PROVE  ReqsOK(reqs') /\ Waiting(reqs') = Waiting(reqs) \cup ({who} \cap Callers)
<1>1. PICK m : Made(m, reqs, who, kind, type)
  BY DEF Made
<1>2. PICK id \in fresh_id(m, Len(m)) : reqs' = query(m, Len(m), id)
  BY <1>1 DEF Ask, Made
<1> QED BY <1>1, <1>2, AskOK

\* add_connection.
LEMMA AddStep ==
  ASSUME LookInv, NEW c \in Callers, add_connection(c)
  PROVE  LookInv'
<1>1. c \notin live /\ live' = live \cup {c}
  BY DEF add_connection
<1>2. c \notin Waiting(reqs) /\ ReqsOK(reqs)
  BY <1>1 DEF LookInv, WaitOK
<1>3. addr[c] \in Addresses
  BY DEF Addresses
<1>4. CASE addr[c] \in Range(dnscache)
  <2>1. /\ dnscache' = touch(dnscache, addr[c]) /\ hostp' = [hostp EXCEPT ![c] = addr[c]]
        /\ UNCHANGED <<doingDNS, reqs>>
    BY <1>4 DEF add_connection
  <2>2. CacheOK(dnscache') /\ Range(dnscache') = Range(dnscache) \cup {addr[c]}
    BY <1>3, <2>1, TouchOK DEF LookInv, HostsOK
  <2>3. HostsOK'
    BY <1>3, <2>1, <2>2 DEF LookInv, HostsOK, HostRight
  <2>4. WaitOK'
    BY <1>1, <2>1 DEF LookInv, WaitOK
  <2> QED BY <2>3, <2>4 DEF LookInv
<1>5. CASE addr[c] \notin Range(dnscache)
  <2>1. /\ Ask(reqs, c, "CLIENT", "PTR", FALSE) /\ doingDNS' = doingDNS \cup {c}
        /\ hostp' = [hostp EXCEPT ![c] = None] /\ UNCHANGED dnscache
    BY <1>5 DEF add_connection
  <2>2. ReqsOK(reqs') /\ Waiting(reqs') = Waiting(reqs) \cup {c}
    BY <1>2, <2>1, AskStep
  <2>3. HostsOK'
    BY <2>1 DEF LookInv, HostsOK, HostRight
  <2>4. WaitOK'
    BY <1>1, <2>1, <2>2 DEF LookInv, WaitOK
  <2> QED BY <2>3, <2>4 DEF LookInv
<1> QED BY <1>4, <1>5

\* close_connection, check_pings.
LEMMA CloseStep ==
  ASSUME LookInv, NEW c \in Callers, close_connection(c) \/ check_pings_dns(c)
  PROVE  LookInv'
<1>1. /\ reqs' = del_queries(reqs, c) /\ doingDNS' = doingDNS \ {c} /\ UNCHANGED dnscache
      /\ live \ {c} \subseteq live'
      /\ hostp' = [hostp EXCEPT ![c] = None] \/ UNCHANGED hostp
  BY DEF close_connection, check_pings_dns
<1>2. ReqsOK(reqs') /\ Waiting(reqs') = Waiting(reqs) \ {c}
  BY <1>1, DelQueries DEF LookInv, WaitOK
<1>3. WaitOK'
  BY <1>1, <1>2 DEF LookInv, WaitOK
<1>4. HostsOK'
  BY <1>1 DEF LookInv, HostsOK, HostRight
<1> QED BY <1>3, <1>4 DEF LookInv

\* lookup_confhost, check_server_init, connect_server.
LEMMA BlockStep ==
  ASSUME LookInv, NEW b \in Confs, NEW kind \in {"CONNECT", "CONF"}, lookup_block(b, kind)
  PROVE  LookInv'
<1>1. b \notin Callers
  BY ResolverAssumption
<1>2. b \notin Waiting(reqs) /\ ReqsOK(reqs)
  BY <1>1 DEF Waiting, LookInv, WaitOK
<1>3. Ask(reqs, b, kind, "A", FALSE) /\ UNCHANGED <<live, doingDNS, dnscache, hostp>>
  BY DEF lookup_block
<1>4. kind \in {"CLIENT", "CONNECT", "CONF"} /\ kind # "CLIENT"
  OBVIOUS
<1>5. ReqsOK(reqs') /\ Waiting(reqs') = Waiting(reqs) \cup ({b} \cap Callers)
  BY <1>1, <1>2, <1>3, <1>4, AskStep
<1>6. Waiting(reqs') = Waiting(reqs)
  BY <1>1, <1>5
<1> QED BY <1>3, <1>5, <1>6, SameWaits

\* rehash, expire_cache.
LEMMA CacheStep ==
  ASSUME LookInv, \/ \E b : rehash(b)
                  \/ \E gone : expire_cache(gone)
  PROVE  LookInv'
<1>1. UNCHANGED <<live, doingDNS, reqs>>
  BY DEF rehash, expire_cache
<1>2. WaitOK'
  BY <1>1 DEF LookInv, WaitOK
<1>3. ASSUME NEW b, rehash(b) PROVE HostsOK'
  <2>1. dnscache' = << >> /\ hostp' = [c \in Callers |-> None]
    BY <1>3 DEF rehash
  <2>2. CacheOK(<< >>)
    BY DEF CacheOK, IsInjective
  <2>3. CacheOK(dnscache')
    BY <2>1, <2>2
  <2> QED BY <2>1, <2>3 DEF HostsOK, HostRight
<1>4. ASSUME NEW gone, expire_cache(gone) PROVE HostsOK'
  <2>1. dnscache' = Keep(dnscache, Range(dnscache) \ gone) /\ hostp' = rem_cache(gone)
    BY <1>4 DEF expire_cache
  <2>2. CacheOK(dnscache') /\ Range(dnscache') = Range(dnscache) \ gone
    <3>1. PICK K : K = Range(dnscache) \ gone
      OBVIOUS
    <3>2. CacheOK(dnscache') /\ Range(dnscache') = Range(dnscache) \cap K
      BY <2>1, <3>1, ExpiredOK DEF LookInv, HostsOK
    <3> QED BY <3>1, <3>2
  <2> QED BY <2>1, <2>2, RemCache DEF LookInv, HostsOK, HostRight
<1> QED BY <1>2, <1>3, <1>4 DEF LookInv

\* An answer.
LEMMA AnswerStep ==
  ASSUME LookInv, NEW q, get_res(q)
  PROVE  LookInv'
<1>1. PICK i \in DOMAIN reqs :
        \/ TryAgain(i)
        \/ Insist([reqs EXCEPT ![i].retries = 0, ![i].resend = FALSE], i)
        \/ Insist(reqs, i)
        \/ Strange(i)
        \/ Relookup(i)
        \/ is_question(q, reqs[i]) /\ Found(i, q.about)
        \/ UNCHANGED dnscache /\ Answered(rem_request(reqs, i), reqs[i], None)
  BY DEF get_res, proc_answer
<1>2. ReqsOK(reqs) /\ i \in 1 .. Len(reqs)
  BY <1>1 DEF LookInv, WaitOK, ReqsOK
<1>3. CacheOK(dnscache)
  BY DEF LookInv, HostsOK
<1>4. /\ ReqsOK(rem_request(reqs, i))
      /\ Waiting(rem_request(reqs, i)) \ {reqs[i].who} = Waiting(reqs) \ {reqs[i].who}
  BY <1>2, RemRequest
<1>5. CASE TryAgain(i)
  BY <1>2, <1>3, <1>5, AnsweredOK DEF TryAgain
<1>6. CASE Insist([reqs EXCEPT ![i].retries = 0, ![i].resend = FALSE], i)
  <2>1. PICK l : Stopped(l, reqs, i) /\ Insist(l, i)
    BY <1>6 DEF Stopped
  <2>2. ReqsOK(l) /\ Waiting(l) = Waiting(reqs) /\ Len(l) = Len(reqs)
    BY <1>2, <2>1, StoppedOK
  <2> QED BY <1>2, <2>1, <2>2, InsistStep
<1>7. CASE Insist(reqs, i)
  BY <1>2, <1>7, InsistStep
<1>8. CASE Strange(i)
  BY <1>2, <1>8, StrangeStep
<1>9. CASE Relookup(i)
  <2>1. PICK id, e, m :
          /\ id \in fresh_id(reqs, 0)
          /\ Again(e, reqs, i) /\ m = query(Append(reqs, e), Len(reqs) + 1, id)
          /\ reqs' = rem_request(m, i)
    BY <1>9 DEF Relookup, make_request, Again
  <2>2. UNCHANGED <<live, doingDNS, dnscache, hostp>>
    BY <1>9 DEF Relookup, nobody
  <2>3. ReqsOK(reqs') /\ Waiting(reqs') = Waiting(reqs)
    BY <1>2, <2>1, RelookupOK
  <2> QED BY <2>2, <2>3, SameWaits
<1>10. CASE is_question(q, reqs[i]) /\ Found(i, q.about)
  <2>1. PICK a : a = q.about
    OBVIOUS
  <2>2. a = addr[reqs[i].who] /\ dnscache' = cached(dnscache, a)
        /\ Answered(rem_request(reqs, i), reqs[i], a)
    BY <1>10, <2>1 DEF is_question, Found
  <2>3. a \in Addresses
    <3>1. reqs[i] \in ReqRecs
      BY <1>2 DEF ReqsOK
    <3>2. reqs[i].who \in Callers \cup Confs
      BY <3>1 DEF ReqRecs
    <3> QED BY <2>2, <3>2 DEF Addresses
  <2>4. CacheOK(dnscache') /\ a \in Range(dnscache')
    BY <1>3, <2>2, <2>3, CachedOK
  <2> QED BY <1>2, <1>4, <2>2, <2>4, AnsweredOK
<1>11. CASE UNCHANGED dnscache /\ Answered(rem_request(reqs, i), reqs[i], None)
  BY <1>2, <1>3, <1>4, <1>11, AnsweredOK
<1> QED BY <1>1, <1>5, <1>6, <1>7, <1>8, <1>9, <1>10, <1>11

----------------------------------------------------------------------------

LEMMA LookStep ==
  ASSUME LookInv, [ResolverNext]_resolverVars
  PROVE  LookInv'
<1>1. ASSUME NEW c \in Callers, add_connection(c) \/ close_connection(c) \/ check_pings_dns(c)
      PROVE  LookInv'
  BY <1>1, AddStep, CloseStep
<1>2. ASSUME NEW b \in Confs, NEW kind \in {"CONNECT", "CONF"}, lookup_block(b, kind) PROVE LookInv'
  BY <1>2, BlockStep
<1>3. ASSUME NEW b, rehash(b) PROVE LookInv'
  BY <1>3, CacheStep
<1>4. ASSUME NEW gone, expire_cache(gone) PROVE LookInv'
  BY <1>4, CacheStep
<1>5. ASSUME NEW a \in Callers \cup Confs, timeout_query_list(a) PROVE LookInv'
  BY <1>5, TimeoutStep
<1>6. ASSUME NEW q, get_res(q) PROVE LookInv'
  BY <1>6, AnswerStep
<1>7. ASSUME NEW q, Lost(q) PROVE LookInv'
  BY <1>7, SameWaits DEF Lost, LookInv, WaitOK
<1>8. CASE UNCHANGED resolverVars
  BY <1>8, SameWaits DEF resolverVars, LookInv, WaitOK
<1> QED BY <1>1, <1>2, <1>3, <1>4, <1>5, <1>6, <1>7, <1>8 DEF ResolverNext

LEMMA LookInit ==
  ASSUME ResolverInit
  PROVE  LookInv
<1>1. ReqsOK(<< >>) /\ Waiting(<< >>) = {}
  BY DEF ReqsOK, Waiting
<1>2. CacheOK(<< >>)
  BY DEF CacheOK, IsInjective
<1> QED BY <1>1, <1>2 DEF ResolverInit, LookInv, WaitOK, HostsOK, HostRight

LEMMA LookRight ==
  ASSUME LookInv
  PROVE  LookupRight
<1>1. /\ ReqsOK(reqs) /\ DOMAIN reqs = 1 .. Len(reqs) /\ doingDNS = Waiting(reqs)
  BY DEF LookInv, WaitOK, ReqsOK
<1>2. ASSUME NEW c \in Callers PROVE Cardinality(Lookups(c)) = IF c \in doingDNS THEN 1 ELSE 0
  <2>1. CASE c \in doingDNS
    <3>1. PICK i \in 1 .. Len(reqs) : reqs[i].who = c
      BY <1>1, <2>1 DEF Waiting
    <3>2. Lookups(c) = {i}
      BY <1>1, <3>1 DEF Lookups, ReqsOK
    <3> QED BY <2>1, <3>2, FS_Singleton
  <2>2. CASE c \notin doingDNS
    <3>1. Lookups(c) = {}
      BY <1>1, <2>2 DEF Lookups, Waiting
    <3> QED BY <2>2, <3>1, FS_EmptySet
  <2> QED BY <2>1, <2>2
<1>3. \A i, j \in DOMAIN reqs : i # j /\ reqs[i].id # None => reqs[i].id # reqs[j].id
  BY <1>1 DEF ReqsOK
<1> QED BY <1>2, <1>3 DEF LookupRight, WaitsForLookup, LookInv, HostsOK

\* A client waits for DNS exactly while its own request is outstanding, and its
\* host entry is its own and still cached, for any number of clients, connect
\* blocks and ids and any loss, delay and repetition of answers
\* (src/src/res.c, do_dns_async).
THEOREM LookupAlwaysRight == ResolverSpec => []LookupRight
<1>1. ResolverInit => LookInv
  BY LookInit
<1>2. LookInv /\ [ResolverNext]_resolverVars => LookInv'
  BY LookStep
<1>3. LookInv => LookupRight
  BY LookRight
<1> QED BY <1>1, <1>2, <1>3, PTL DEF ResolverSpec

----------------------------------------------------------------------------
(* Module RecvQueue.                                                       *)

LinkRecs == [cptr : Clients, dead : BOOLEAN]

\* The end of a line is there.
Ended(q) == \E i \in 1 .. Len(q) : q[i].eol

\* Unless a server's queue was overtaken, what was sent is parsed, in the queue or not yet
\* read, in this order; and an end of line is not overlooked.
Numbered(p) ==
  /\ p.whole = TRUE
  /\ \A i \in 1 .. Len(p.recvq) : p.recvq[i].n = p.got + i
  /\ \A i \in 1 .. Len(p.unread) : p.unread[i].n = p.got + Len(p.recvq) + i
  /\ p.sent = p.got + Len(p.recvq) + Len(p.unread)
PeerOK(p) == /\ p \in PeerRecs
             /\ p.late = FALSE => Numbered(p)
             /\ p.nonl => ~ Ended(p.recvq)

\* Of the links of one client the newest comes first, and the others are dead.
Ordered(l) ==
  /\ l \in Seq(LinkRecs)
  /\ \A i, j \in 1 .. Len(l) : i < j /\ l[i].cptr = l[j].cptr => l[j].dead

Listed(l) == {c \in Clients : \E i \in 1 .. Len(l) : l[i].cptr = c /\ ~ l[i].dead}
Havers(all) == {c \in Clients : all[c] # None /\ all[c].have}

\* The event loop is at a client that is there, and in the walk at its link.
Busy(at, c, i) == at = Queue(c, i) \/ at = Packet(c, i) \/ (at = Direct(c) /\ i = 0)
LoopOK(at, l, all) ==
  \/ at = Idle
  \/ \E i \in Nat \ {0} : at = Walk(i)
  \/ \E c \in Clients, i \in Nat :
       /\ Busy(at, c, i) /\ all[c] # None
       /\ i # 0 => i \in 1 .. Len(l) /\ l[i].cptr = c /\ ~ l[i].dead

PeersOK(all) == DOMAIN all = Clients /\ \A c \in Clients : all[c] = None \/ PeerOK(all[c])
WaitsOK(at, all) ==
  \A c \in Clients : /\ all[c] # None /\ (at.cptr # c \/ at.at = "direct")
                     /\ Ended(all[c].recvq)
                     => all[c].have

QueuesOK(all, l, at) == /\ PeersOK(all) /\ Ordered(l) /\ Listed(l) = Havers(all)
                        /\ LoopOK(at, l, all) /\ WaitsOK(at, all)

RecvInv == QueuesOK(peer, rlist, loop)

----------------------------------------------------------------------------
(* Connections.                                                            *)

LEMMA PeerFields ==
  ASSUME NEW p \in PeerRecs
  PROVE  /\ p # None /\ p.kind \in Kinds /\ p.unread \in Seq(Pieces)
         /\ p.recvq \in Seq(Pieces) /\ p.nonl \in BOOLEAN /\ p.have \in BOOLEAN /\ p.lag \in Nat
         /\ p.sent \in Nat /\ p.got \in Nat /\ p.whole \in BOOLEAN
         /\ p.late \in BOOLEAN
BY RecvNull DEF PeerRecs

LEMMA PieceFields ==
  ASSUME NEW q \in Seq(Pieces), NEW i \in 1 .. Len(q)
  PROVE  q[i] \in Pieces /\ q[i].n \in Nat /\ q[i].eol \in BOOLEAN
<1>1. q[i] \in Pieces
  OBVIOUS
<1> QED BY <1>1 DEF Pieces

LEMMA FirstLineOK ==
  ASSUME NEW q \in Seq(Pieces)
  PROVE  /\ ~ Ended(q) => FirstLine(q) = 0
         /\ Ended(q) => /\ FirstLine(q) \in 1 .. Len(q) /\ q[FirstLine(q)].eol
                        /\ \A j \in 1 .. FirstLine(q) - 1 : ~ q[j].eol
<1>1. DOMAIN q = 1 .. Len(q) /\ Len(q) \in Nat
  OBVIOUS
<1>2. CASE ~ Ended(q)
  BY <1>1, <1>2 DEF Ended, FirstLine
<1>3. CASE Ended(q)
  <2>1. PICK T : T = {i \in 1 .. Len(q) : q[i].eol}
    OBVIOUS
  <2>2. T \in SUBSET Nat /\ T # {}
    BY <1>1, <1>3, <2>1 DEF Ended
  <2>3. PICK k \in T : \A y \in T : k <= y
    BY <2>2, Least
  <2>4. k \in DOMAIN q /\ q[k].eol
    BY <1>1, <2>1, <2>3
  <2>5. \A j \in 1 .. k - 1 : ~ q[j].eol
    <3>1. SUFFICES ASSUME NEW j \in 1 .. k - 1, q[j].eol PROVE FALSE
      OBVIOUS
    <3>2. j \in T
      BY <1>1, <2>1, <2>4, <3>1
    <3> QED BY <1>1, <2>3, <2>4, <3>2
  <2>6. PICK m : m = CHOOSE i \in DOMAIN q : q[i].eol /\ \A j \in 1 .. (i - 1) : ~ q[j].eol
    OBVIOUS
  <2>7. m \in DOMAIN q /\ q[m].eol /\ \A j \in 1 .. (m - 1) : ~ q[j].eol
    BY <2>4, <2>5, <2>6
  <2>8. FirstLine(q) = m
    BY <2>4, <2>6 DEF FirstLine
  <2> QED BY <1>1, <1>3, <2>7, <2>8
<1> QED BY <1>2, <1>3

LEMMA JoinedOK ==
  ASSUME NEW a \in Seq(Pieces), NEW b \in Seq(Pieces)
  PROVE  /\ a \o b \in Seq(Pieces) /\ Len(a \o b) = Len(a) + Len(b)
         /\ \A i \in 1 .. Len(a) + Len(b) : (a \o b)[i] = IF i <= Len(a) THEN a[i] ELSE b[i - Len(a)]
BY ConcatProperties

\* What changes only what PeerOK does not speak of.
Alike(g, p) == /\ g \in PeerRecs /\ g.unread = p.unread /\ g.recvq = p.recvq /\ g.sent = p.sent
               /\ g.got = p.got /\ g.whole = p.whole /\ g.late = p.late

LEMMA AlikeOK ==
  ASSUME NEW p, PeerOK(p), NEW g, Alike(g, p), g.nonl => ~ Ended(g.recvq)
  PROVE  PeerOK(g)
BY DEF PeerOK, Numbered, Alike

LEMMA NewPeerOK == PeerOK(NewPeer) /\ NewPeer.have = FALSE /\ ~ Ended(NewPeer.recvq)
<1>1. NewPeer \in PeerRecs
  BY DEF NewPeer, PeerRecs, Kinds, Pieces
<1>2. /\ NewPeer.whole = TRUE /\ NewPeer.recvq = << >> /\ NewPeer.unread = << >> /\ NewPeer.sent = 0
      /\ NewPeer.got = 0 /\ NewPeer.have = FALSE /\ NewPeer.nonl = FALSE
  BY DEF NewPeer
<1>3. PICK q : q = NewPeer
  OBVIOUS
<1> QED BY <1>1, <1>2, <1>3 DEF PeerOK, Numbered, Ended

Sent(g, p, piece) == g = [p EXCEPT !.unread = Append(p.unread, piece), !.sent = p.sent + 1]

LEMMA SentOK ==
  ASSUME NEW p, PeerOK(p), NEW piece \in Pieces, piece.n = p.sent + 1, NEW g, Sent(g, p, piece)
  PROVE  PeerOK(g) /\ g.have = p.have /\ g.recvq = p.recvq
<1>1. p \in PeerRecs
  BY DEF PeerOK
<1>2. p.unread \in Seq(Pieces) /\ p.sent \in Nat /\ p.got \in Nat /\ p.recvq \in Seq(Pieces)
  BY <1>1, PeerFields
<1>3. PICK u : u = Append(p.unread, piece)
  OBVIOUS
<1>4. /\ u \in Seq(Pieces) /\ Len(u) = Len(p.unread) + 1 /\ u[Len(p.unread) + 1] = piece
      /\ \A i \in 1 .. Len(p.unread) : u[i] = p.unread[i]
  BY <1>2, <1>3
<1>5. PICK f : f = [p EXCEPT !.unread = u]
  OBVIOUS
<1>6. /\ f \in PeerRecs /\ f.unread = u /\ f.recvq = p.recvq /\ f.got = p.got /\ f.whole = p.whole
      /\ f.have = p.have /\ f.nonl = p.nonl /\ f.late = p.late
  BY <1>1, <1>4, <1>5 DEF PeerRecs
<1>7. PICK k : k = [f EXCEPT !.sent = p.sent + 1]
  OBVIOUS
<1>8. /\ k \in PeerRecs /\ k.unread = u /\ k.recvq = p.recvq /\ k.got = p.got /\ k.whole = p.whole
      /\ k.have = p.have /\ k.nonl = p.nonl /\ k.sent = p.sent + 1 /\ k.late = p.late
  <2>1. PICK z \in Nat : z = p.sent + 1
    BY <1>2
  <2>2. k = [f EXCEPT !.sent = z]
    BY <1>7, <2>1
  <2> QED BY <1>6, <2>1, <2>2 DEF PeerRecs
<1>9. g = k
  BY <1>3, <1>5, <1>7 DEF Sent
<1>10. PICK m \in Nat, n \in Nat : m = Len(p.unread) /\ n = Len(p.recvq)
  BY <1>2
<1>11. ASSUME p.late = FALSE PROVE Numbered(k)
  <2>1. /\ p.sent = p.got + n + m /\ \A i \in 1 .. m : p.unread[i].n = p.got + n + i
        /\ \A i \in 1 .. n : p.recvq[i].n = p.got + i
        /\ p.whole = TRUE
    BY <1>10, <1>11 DEF PeerOK, Numbered
  <2>2. p.sent + 1 = p.got + n + (m + 1)
    <3>1. PICK z \in Nat, w \in Nat : z = p.sent /\ w = p.got
      BY <1>2
    <3>2. z = w + n + m
      BY <2>1, <3>1
    <3>3. z + 1 = w + n + (m + 1)
      BY <3>2
    <3> QED BY <3>1, <3>3
  <2>3. \A i \in 1 .. m + 1 : u[i].n = p.got + n + i
    <3>1. \A i \in 1 .. m + 1 : i \in 1 .. m \/ i = m + 1
      OBVIOUS
    <3>2. u[m + 1].n = p.got + n + (m + 1)
      BY <1>4, <1>10, <2>2
    <3> QED BY <1>4, <1>10, <2>1, <3>1, <3>2
  <2>4. k.sent = p.got + n + (m + 1)
    BY <1>8, <2>2
  <2> QED BY <1>4, <1>8, <1>10, <2>1, <2>3, <2>4 DEF Numbered
<1>12. PeerOK(k)
  BY <1>8, <1>11 DEF PeerOK
<1> QED BY <1>8, <1>9, <1>12

\* Pieces that are read.
Read(g, p, k) == g = recv(p, k)

LEMMA ReadOK ==
  ASSUME NEW p, PeerOK(p), NEW k \in 1 .. Len(p.unread), NEW g, Read(g, p, k)
  PROVE  PeerOK(g) /\ g.have = p.have /\ g.kind = p.kind
<1>1. p \in PeerRecs
  BY DEF PeerOK
<1>2. p.unread \in Seq(Pieces) /\ p.sent \in Nat /\ p.got \in Nat /\ p.recvq \in Seq(Pieces)
  BY <1>1, PeerFields
<1>3. PICK m \in Nat, n \in Nat : m = Len(p.unread) /\ n = Len(p.recvq)
  BY <1>2
<1>4. PICK x : x = SubSeq(p.unread, 1, k)
  OBVIOUS
<1>5. PICK v : v = SubSeq(p.unread, k + 1, m)
  OBVIOUS
<1>6. x \in Seq(Pieces) /\ Len(x) = k /\ \A i \in 1 .. k : x[i] = p.unread[i]
  BY <1>2, <1>3, <1>4
<1>7. v \in Seq(Pieces) /\ Len(v) = m - k /\ \A i \in 1 .. m - k : v[i] = p.unread[k + i]
  BY <1>2, <1>3, <1>5
<1>8. PICK q : q = p.recvq \o x
  OBVIOUS
<1>9. /\ q \in Seq(Pieces) /\ Len(q) = n + k
      /\ \A i \in 1 .. n + k : q[i] = IF i <= n THEN p.recvq[i] ELSE x[i - n]
  BY <1>2, <1>3, <1>6, <1>8, JoinedOK
<1>10. PICK f1 : f1 = [p EXCEPT !.recvq = q]
  OBVIOUS
<1>11. PICK f2 : f2 = [f1 EXCEPT !.nonl = FALSE]
  OBVIOUS
<1>12. PICK f3 : f3 = [f2 EXCEPT !.unread = v]
  OBVIOUS
<1>13. /\ f1 \in PeerRecs /\ f1.recvq = q /\ f1.got = p.got /\ f1.whole = p.whole /\ f1.kind = p.kind
       /\ f1.have = p.have /\ f1.sent = p.sent /\ f1.late = p.late
  BY <1>1, <1>9, <1>10 DEF PeerRecs
<1>14. /\ f2 \in PeerRecs /\ f2.recvq = q /\ f2.got = p.got /\ f2.whole = p.whole /\ f2.kind = p.kind
       /\ f2.have = p.have /\ f2.sent = p.sent /\ f2.nonl = FALSE /\ f2.late = p.late
  BY <1>11, <1>13 DEF PeerRecs
<1>15. /\ f3 \in PeerRecs /\ f3.recvq = q /\ f3.got = p.got /\ f3.whole = p.whole /\ f3.kind = p.kind
       /\ f3.have = p.have /\ f3.sent = p.sent /\ f3.nonl = FALSE /\ f3.unread = v
       /\ f3.late = p.late
  BY <1>7, <1>12, <1>14 DEF PeerRecs
<1>16. g = f3
  BY <1>3, <1>4, <1>5, <1>8, <1>10, <1>11, <1>12 DEF Read, recv
<1>17. ASSUME p.late = FALSE PROVE Numbered(f3)
  <2>1. /\ p.sent = p.got + n + m /\ \A i \in 1 .. m : p.unread[i].n = p.got + n + i
        /\ \A i \in 1 .. n : p.recvq[i].n = p.got + i
        /\ p.whole = TRUE
    BY <1>3, <1>17 DEF PeerOK, Numbered
  <2>2. ASSUME NEW i \in 1 .. n + k PROVE q[i].n = p.got + i
    <3>1. CASE i <= n
      BY <1>9, <2>1, <3>1
    <3>2. CASE ~ (i <= n)
      <4>1. i - n \in 1 .. k /\ i - n \in 1 .. m
        BY <1>3, <3>2
      <4>2. q[i] = p.unread[i - n]
        BY <1>6, <1>9, <3>2, <4>1
      <4>3. p.unread[i - n].n = p.got + n + (i - n)
        BY <2>1, <4>1
      <4> QED BY <1>2, <4>2, <4>3
    <3> QED BY <3>1, <3>2
  <2>3. ASSUME NEW i \in 1 .. m - k PROVE v[i].n = p.got + (n + k) + i
    <3>1. k + i \in 1 .. m
      BY <1>3
    <3>2. v[i].n = p.got + n + (k + i)
      BY <1>7, <2>1, <3>1
    <3> QED BY <1>2, <3>2
  <2>4. p.sent = p.got + (n + k) + (m - k)
    BY <1>2, <2>1
  <2> QED BY <1>7, <1>9, <1>15, <2>1, <2>2, <2>3, <2>4, SMTT(30) DEF Numbered
<1>18. PeerOK(f3)
  BY <1>15, <1>17 DEF PeerOK
<1> QED BY <1>15, <1>16, <1>18

\* Pieces that leave the queue for the parser.
Passed(g, p, k, y) == g = [p EXCEPT !.recvq = SubSeq(p.recvq, k + 1, Len(p.recvq)),
                                    !.got = p.recvq[k].n, !.lag = y, !.whole = g.whole]

LEMMA PassedOK ==
  ASSUME NEW p, PeerOK(p), p.nonl = FALSE, NEW k \in 1 .. Len(p.recvq), NEW y \in Nat,
         NEW g, Passed(g, p, k, y), g.whole \in BOOLEAN, p.late = FALSE => g.whole = TRUE
  PROVE  PeerOK(g) /\ g.have = p.have /\ g.kind = p.kind
<1>1. p \in PeerRecs
  BY DEF PeerOK
<1>2. /\ p.unread \in Seq(Pieces) /\ p.sent \in Nat /\ p.got \in Nat /\ p.recvq \in Seq(Pieces)
      /\ p.lag \in Nat
  BY <1>1, PeerFields
<1>3. PICK m \in Nat, n \in Nat : m = Len(p.unread) /\ n = Len(p.recvq)
  BY <1>2
<1>4. k \in 1 .. n
  BY <1>3
<1>5. PICK q : q = SubSeq(p.recvq, k + 1, n)
  OBVIOUS
<1>6. q \in Seq(Pieces) /\ Len(q) = n - k /\ \A i \in 1 .. n - k : q[i] = p.recvq[k + i]
  BY <1>2, <1>3, <1>4, <1>5
<1>7. PICK z \in Nat : z = p.recvq[k].n
  BY <1>2, PieceFields
<1>8. PICK f1 : f1 = [p EXCEPT !.recvq = q]
  OBVIOUS
<1>9. PICK f2 : f2 = [f1 EXCEPT !.got = z]
  OBVIOUS
<1>10. PICK f3 : f3 = [f2 EXCEPT !.lag = y]
  OBVIOUS
<1>11. PICK f4 : f4 = [f3 EXCEPT !.whole = g.whole]
  OBVIOUS
<1>12. /\ f1 \in PeerRecs /\ f1.recvq = q /\ f1.unread = p.unread /\ f1.sent = p.sent
       /\ f1.have = p.have /\ f1.kind = p.kind /\ f1.nonl = p.nonl /\ f1.late = p.late
  BY <1>1, <1>6, <1>8 DEF PeerRecs
<1>13. /\ f2 \in PeerRecs /\ f2.recvq = q /\ f2.unread = p.unread /\ f2.sent = p.sent
       /\ f2.have = p.have /\ f2.kind = p.kind /\ f2.nonl = p.nonl /\ f2.late = p.late /\ f2.got = z
  BY <1>9, <1>12 DEF PeerRecs
<1>14. /\ f3 \in PeerRecs /\ f3.recvq = q /\ f3.unread = p.unread /\ f3.sent = p.sent
       /\ f3.have = p.have /\ f3.kind = p.kind /\ f3.nonl = p.nonl /\ f3.late = p.late /\ f3.got = z
  BY <1>10, <1>13 DEF PeerRecs
<1>15. /\ f4 \in PeerRecs /\ f4.recvq = q /\ f4.unread = p.unread /\ f4.sent = p.sent
       /\ f4.have = p.have /\ f4.kind = p.kind /\ f4.nonl = p.nonl /\ f4.late = p.late /\ f4.got = z
       /\ f4.whole = g.whole
  BY <1>11, <1>14 DEF PeerRecs
<1>16. g = f4
  BY <1>3, <1>5, <1>7, <1>8, <1>9, <1>10, <1>11 DEF Passed
<1>17. ASSUME p.late = FALSE PROVE Numbered(f4)
  <2>1. /\ p.sent = p.got + n + m /\ \A i \in 1 .. m : p.unread[i].n = p.got + n + i
        /\ \A i \in 1 .. n : p.recvq[i].n = p.got + i
    BY <1>3, <1>17 DEF PeerOK, Numbered
  <2>2. z = p.got + k
    BY <1>4, <1>7, <2>1
  <2>3. ASSUME NEW i \in 1 .. n - k PROVE q[i].n = z + i
    <3>1. k + i \in 1 .. n
      BY <1>4
    <3>2. q[i].n = p.got + (k + i)
      BY <1>6, <2>1, <3>1
    <3> QED BY <1>2, <1>4, <2>2, <3>2
  <2>4. p.got + n = z + (n - k)
    BY <1>2, <1>4, <2>2
  <2>5. \A i \in 1 .. m : p.unread[i].n = z + (n - k) + i
    BY <2>1, <2>4
  <2>6. p.sent = z + (n - k) + m
    BY <2>1, <2>4
  <2>7. Len(f4.recvq) = n - k /\ Len(f4.unread) = m
    BY <1>3, <1>6, <1>15
  <2>8. \A i \in 1 .. Len(f4.recvq) : f4.recvq[i].n = f4.got + i
    BY <1>15, <2>3, <2>7
  <2>9. \A i \in 1 .. Len(f4.unread) : f4.unread[i].n = f4.got + Len(f4.recvq) + i
    BY <1>15, <2>5, <2>7
  <2>10. f4.sent = f4.got + Len(f4.recvq) + Len(f4.unread)
    BY <1>15, <2>6, <2>7
  <2> QED BY <1>15, <1>17, <2>8, <2>9, <2>10 DEF Numbered
<1>18. PeerOK(f4)
  BY <1>15, <1>17 DEF PeerOK
<1> QED BY <1>15, <1>16, <1>18

\* A line that is parsed: it is the next one, as much of it as fits.
Taken(g, p, price) == g = getmsg(p, price)

LEMMA TakenOK ==
  ASSUME NEW p, PeerOK(p), Ended(p.recvq), NEW price \in Nat, NEW g, Taken(g, p, price)
  PROVE  PeerOK(g) /\ g.have = p.have /\ g.kind = p.kind
<1>1. p \in PeerRecs
  BY DEF PeerOK
<1>2. /\ p.got \in Nat /\ p.recvq \in Seq(Pieces) /\ p.lag \in Nat /\ p.whole \in BOOLEAN
      /\ p.nonl \in BOOLEAN
  BY <1>1, PeerFields
<1>3. PICK n \in Nat : n = Len(p.recvq)
  BY <1>2
<1>4. PICK k : k = FirstLine(p.recvq)
  OBVIOUS
<1>5. k \in 1 .. n /\ p.recvq[k].eol /\ \A j \in 1 .. k - 1 : ~ p.recvq[j].eol
  BY <1>2, <1>3, <1>4, FirstLineOK
<1>6. PICK line : line = SubSeq(p.recvq, 1, k)
  OBVIOUS
<1>7. \A i \in 1 .. k : line[i] = p.recvq[i]
  BY <1>2, <1>3, <1>5, <1>6
<1>8. PICK h : h = fits(k)
  OBVIOUS
<1>9. h \in 1 .. k
  BY <1>5, <1>8, RecvQueueAssumption DEF fits
<1>10. PICK w : w = (p.whole /\ \A i \in 1 .. h : line[i].n = p.got + i /\ (line[i].eol <=> i = k))
  OBVIOUS
<1>11. w \in BOOLEAN
  BY <1>2, <1>10, Zenon
<1>12. ASSUME p.late = FALSE PROVE w = TRUE
  <2>1. /\ \A i \in 1 .. n : p.recvq[i].n = p.got + i
        /\ p.whole = TRUE
    BY <1>3, <1>12 DEF PeerOK, Numbered
  <2>2. \A i \in 1 .. k : line[i].n = p.got + i
    BY <1>5, <1>7, <2>1
  <2>3. \A i \in 1 .. k : line[i].eol <=> i = k
    <3>1. \A i \in 1 .. k : i = k \/ i \in 1 .. k - 1
      BY <1>5
    <3>2. \A i \in 1 .. k - 1 : i # k
      BY <1>5
    <3> QED BY <1>5, <1>7, <3>1, <3>2
  <2>4. \A i \in 1 .. h : i \in 1 .. k
    BY <1>5, <1>9
  <2>5. \A i \in 1 .. h : line[i].n = p.got + i /\ (line[i].eol <=> i = k)
    BY <2>2, <2>3, <2>4
  <2> QED BY <1>10, <2>1, <2>5, Zenon
<1>13. PICK y \in Nat : y = p.lag + price
  BY <1>2
<1>14. Passed(g, p, k, y) /\ g.whole = w
  <2>1. g = [p EXCEPT !.recvq = SubSeq(@, k + 1, Len(@)), !.got = line[k].n, !.lag = @ + price,
                      !.whole = @ /\ \A i \in 1 .. h : /\ line[i].n = p.got + i
                                                       /\ line[i].eol <=> i = k]
    BY <1>4, <1>6, <1>8 DEF Taken, getmsg
  <2>2. line[k].n = p.recvq[k].n
    BY <1>5, <1>7
  <2>3. g = [p EXCEPT !.recvq = SubSeq(p.recvq, k + 1, Len(p.recvq)), !.got = p.recvq[k].n,
                      !.lag = y, !.whole = w]
    BY <1>10, <1>13, <2>1, <2>2
  <2>4. g.whole = w
    BY <1>1, <2>3 DEF PeerRecs
  <2> QED BY <2>3, <2>4 DEF Passed
<1>15. p.nonl = FALSE
  BY <1>2 DEF PeerOK
<1>16. k \in 1 .. Len(p.recvq)
  BY <1>3, <1>5
<1>17. Passed(g, p, k, y) /\ g.whole \in BOOLEAN
  BY <1>11, <1>14
<1>18. p.late = FALSE => g.whole = TRUE
  BY <1>12, <1>14
<1> QED BY <1>13, <1>15, <1>16, <1>17, <1>18, PassedOK

\* A block of a server's queue.
Blocked(g, p, price) == g = getblock(p, price)

LEMMA BlockOK ==
  ASSUME NEW p, PeerOK(p), Pending(p), NEW price \in Nat, NEW g, Blocked(g, p, price)
  PROVE  PeerOK(g) /\ g.have = p.have /\ g.kind = p.kind
<1>1. p \in PeerRecs
  BY DEF PeerOK
<1>2. /\ p.got \in Nat /\ p.recvq \in Seq(Pieces) /\ p.lag \in Nat /\ p.whole \in BOOLEAN
      /\ p.nonl \in BOOLEAN
  BY <1>1, PeerFields
<1>3. Len(p.recvq) \in Nat \ {0} /\ p.nonl = FALSE
  BY <1>2 DEF Pending
<1>4. PICK k : k = IF Len(p.recvq) <= Block THEN Len(p.recvq) ELSE Block
  OBVIOUS
<1>5. k \in 1 .. Len(p.recvq)
  BY <1>3, <1>4, RecvQueueAssumption
<1>6. PICK w : w = (p.whole /\ \A i \in 1 .. k : p.recvq[i].n = p.got + i)
  OBVIOUS
<1>7. w \in BOOLEAN
  BY <1>2, <1>6, Zenon
<1>8. ASSUME p.late = FALSE PROVE w = TRUE
  <2>1. /\ \A i \in 1 .. Len(p.recvq) : p.recvq[i].n = p.got + i
        /\ p.whole = TRUE
    BY <1>8 DEF PeerOK, Numbered
  <2>2. \A i \in 1 .. k : i \in 1 .. Len(p.recvq)
    BY <1>3, <1>5
  <2>3. \A i \in 1 .. k : p.recvq[i].n = p.got + i
    BY <2>1, <2>2
  <2> QED BY <1>6, <2>1, <2>3, Zenon
<1>9. PICK y \in Nat : y = p.lag + price
  BY <1>2
<1>10. Passed(g, p, k, y) /\ g.whole = w
  <2>1. g = [p EXCEPT !.recvq = SubSeq(@, k + 1, Len(@)), !.got = p.recvq[k].n, !.lag = @ + price,
                      !.whole = @ /\ \A i \in 1 .. k : p.recvq[i].n = p.got + i]
    BY <1>4 DEF Blocked, getblock
  <2>2. g = [p EXCEPT !.recvq = SubSeq(p.recvq, k + 1, Len(p.recvq)), !.got = p.recvq[k].n,
                      !.lag = y, !.whole = w]
    BY <1>6, <1>9, <2>1
  <2>3. g.whole = w
    BY <1>1, <2>2 DEF PeerRecs
  <2> QED BY <2>2, <2>3 DEF Passed
<1>11. Passed(g, p, k, y) /\ g.whole \in BOOLEAN /\ p.nonl = FALSE
  BY <1>3, <1>7, <1>10
<1>12. p.late = FALSE => g.whole = TRUE
  BY <1>8, <1>10
<1> QED BY <1>5, <1>9, <1>11, <1>12, PassedOK

\* What is read of a server and handed on at once.
Straight(g, p, k, price) == g = straight(p, k, price)

LEMMA StraightOK ==
  ASSUME NEW p, PeerOK(p), NEW k \in 1 .. Len(p.unread), NEW price \in Nat, NEW g,
         Straight(g, p, k, price)
  PROVE  PeerOK(g) /\ g.have = p.have /\ g.recvq = p.recvq
<1>1. p \in PeerRecs
  BY DEF PeerOK
<1>2. /\ p.unread \in Seq(Pieces) /\ p.sent \in Nat /\ p.got \in Nat /\ p.recvq \in Seq(Pieces)
      /\ p.lag \in Nat /\ p.whole \in BOOLEAN /\ p.late \in BOOLEAN
  BY <1>1, PeerFields
<1>3. PICK m \in Nat : m = Len(p.unread)
  BY <1>2
<1>4. PICK v : v = SubSeq(p.unread, k + 1, m)
  OBVIOUS
<1>0. k \in 1 .. m /\ k + 1 \in Nat
  BY <1>3
<1>5. v \in Seq(Pieces) /\ Len(v) = m - k /\ \A i \in 1 .. m - k : v[i] = p.unread[k + i]
  BY <1>0, <1>2, <1>3, <1>4, SMTT(30)
<1>6. PICK z \in Nat : z = p.unread[k].n
  BY <1>2, PieceFields
<1>7. PICK y \in Nat : y = p.lag + price
  BY <1>2
<1>8. PICK w : w = (p.whole /\ \A i \in 1 .. k : p.unread[i].n = p.got + i)
  OBVIOUS
<1>9. w \in BOOLEAN
  BY <1>2, <1>8, Zenon
<1>10. PICK t : t = (p.late \/ p.recvq # << >>)
  OBVIOUS
<1>11. t \in BOOLEAN
  BY <1>2, <1>10, Zenon
<1>12. PICK f1 : f1 = [p EXCEPT !.unread = v]
  OBVIOUS
<1>13. PICK f2 : f2 = [f1 EXCEPT !.nonl = FALSE]
  OBVIOUS
<1>14. PICK f3 : f3 = [f2 EXCEPT !.got = z]
  OBVIOUS
<1>15. PICK f4 : f4 = [f3 EXCEPT !.lag = y]
  OBVIOUS
<1>16. PICK f5 : f5 = [f4 EXCEPT !.late = t]
  OBVIOUS
<1>17. PICK f6 : f6 = [f5 EXCEPT !.whole = w]
  OBVIOUS
<1>18. /\ f1 \in PeerRecs /\ f1.recvq = p.recvq /\ f1.sent = p.sent /\ f1.have = p.have
       /\ f1.unread = v
  BY <1>1, <1>5, <1>12 DEF PeerRecs
<1>19. /\ f2 \in PeerRecs /\ f2.recvq = p.recvq /\ f2.sent = p.sent /\ f2.have = p.have
       /\ f2.unread = v /\ f2.nonl = FALSE
  BY <1>13, <1>18 DEF PeerRecs
<1>20. /\ f3 \in PeerRecs /\ f3.recvq = p.recvq /\ f3.sent = p.sent /\ f3.have = p.have
       /\ f3.unread = v /\ f3.nonl = FALSE /\ f3.got = z
  BY <1>14, <1>19 DEF PeerRecs
<1>21. /\ f4 \in PeerRecs /\ f4.recvq = p.recvq /\ f4.sent = p.sent /\ f4.have = p.have
       /\ f4.unread = v /\ f4.nonl = FALSE /\ f4.got = z
  BY <1>15, <1>20 DEF PeerRecs
<1>22. /\ f5 \in PeerRecs /\ f5.recvq = p.recvq /\ f5.sent = p.sent /\ f5.have = p.have
       /\ f5.unread = v /\ f5.nonl = FALSE /\ f5.got = z /\ f5.late = t
  BY <1>11, <1>16, <1>21 DEF PeerRecs
<1>23. /\ f6 \in PeerRecs /\ f6.recvq = p.recvq /\ f6.sent = p.sent /\ f6.have = p.have
       /\ f6.unread = v /\ f6.nonl = FALSE /\ f6.got = z /\ f6.late = t /\ f6.whole = w
  BY <1>9, <1>17, <1>22 DEF PeerRecs
<1>24. g = f6
  <2>1. g = [p EXCEPT !.unread = SubSeq(@, k + 1, Len(@)), !.nonl = FALSE, !.got = p.unread[k].n,
                      !.lag = @ + price, !.late = @ \/ p.recvq # <<>>,
                      !.whole = @ /\ \A i \in 1 .. k : p.unread[i].n = p.got + i]
    BY DEF Straight, straight
  <2>2. g = [p EXCEPT !.unread = v, !.nonl = FALSE, !.got = z, !.lag = y, !.late = t, !.whole = w]
    BY <1>3, <1>4, <1>6, <1>7, <1>8, <1>10, <2>1
  <2> QED BY <1>12, <1>13, <1>14, <1>15, <1>16, <1>17, <2>2
<1>25. ASSUME t = FALSE PROVE Numbered(f6)
  <2>1. p.late = FALSE /\ p.recvq = << >>
    BY <1>2, <1>10, <1>25
  <2>2. Len(p.recvq) = 0
    BY <2>1
  <2>3. /\ p.sent = p.got + 0 + m /\ \A i \in 1 .. m : p.unread[i].n = p.got + 0 + i
        /\ p.whole = TRUE
    BY <1>3, <2>1, <2>2 DEF PeerOK, Numbered
  <2>4. p.sent = p.got + m /\ \A i \in 1 .. m : p.unread[i].n = p.got + i
    BY <1>2, <2>3
  <2>5. k \in 1 .. m
    BY <1>3
  <2>6. z = p.got + k
    BY <1>6, <2>4, <2>5
  <2>7. w = TRUE
    <3>1. \A i \in 1 .. k : i \in 1 .. m
      BY <2>5
    <3>2. \A i \in 1 .. k : p.unread[i].n = p.got + i
      BY <2>4, <3>1
    <3> QED BY <1>8, <2>3, <3>2, Zenon
  <2>8. ASSUME NEW i \in 1 .. m - k PROVE v[i].n = z + 0 + i
    <3>1. k + i \in 1 .. m
      BY <2>5
    <3>2. v[i].n = p.got + (k + i)
      BY <1>5, <2>4, <3>1
    <3> QED BY <1>2, <2>5, <2>6, <3>2
  <2>9. p.sent = z + 0 + (m - k)
    BY <1>2, <2>4, <2>5, <2>6
  <2>10. Len(f6.recvq) = 0 /\ Len(f6.unread) = m - k
    BY <1>5, <1>23, <2>2
  <2>11. \A i \in 1 .. Len(f6.unread) : f6.unread[i].n = f6.got + Len(f6.recvq) + i
    BY <1>23, <2>8, <2>10
  <2>12. f6.sent = f6.got + Len(f6.recvq) + Len(f6.unread)
    BY <1>23, <2>9, <2>10
  <2> QED BY <1>23, <2>7, <2>10, <2>11, <2>12 DEF Numbered
<1>26. PeerOK(f6)
  BY <1>23, <1>25 DEF PeerOK
<1> QED BY <1>23, <1>24, <1>26

\* A line without an end that grew too long is thrown away.
Thrown(g, p) == g = [p EXCEPT !.recvq = <<>>, !.got = Last(p.recvq).n]

LEMMA ThrownOK ==
  ASSUME NEW p, PeerOK(p), p.recvq # << >>, NEW g, Thrown(g, p)
  PROVE  PeerOK(g) /\ g.have = p.have /\ ~ Ended(g.recvq)
<1>1. p \in PeerRecs
  BY DEF PeerOK
<1>2. p.unread \in Seq(Pieces) /\ p.sent \in Nat /\ p.got \in Nat /\ p.recvq \in Seq(Pieces)
  BY <1>1, PeerFields
<1>3. PICK m \in Nat, n \in Nat : m = Len(p.unread) /\ n = Len(p.recvq)
  BY <1>2
<1>4. n \in 1 .. n
  BY <1>2, <1>3
<1>5. PICK z \in Nat : z = p.recvq[n].n
  BY <1>2, <1>3, <1>4, PieceFields
<1>6. Last(p.recvq).n = z
  BY <1>3, <1>5 DEF Last
<1>7. PICK f1 : f1 = [p EXCEPT !.recvq = <<>>]
  OBVIOUS
<1>8. PICK f2 : f2 = [f1 EXCEPT !.got = z]
  OBVIOUS
<1>9. /\ f1 \in PeerRecs /\ f1.recvq = <<>> /\ f1.unread = p.unread /\ f1.sent = p.sent
      /\ f1.have = p.have /\ f1.whole = p.whole /\ f1.late = p.late
  <2>1. << >> \in Seq(Pieces)
    OBVIOUS
  <2> QED BY <1>1, <1>7, <2>1 DEF PeerRecs
<1>10. /\ f2 \in PeerRecs /\ f2.recvq = <<>> /\ f2.unread = p.unread /\ f2.sent = p.sent
       /\ f2.have = p.have /\ f2.whole = p.whole /\ f2.got = z /\ f2.late = p.late
  BY <1>8, <1>9 DEF PeerRecs
<1>11. g = f2
  BY <1>6, <1>7, <1>8 DEF Thrown
<1>12. ~ Ended(f2.recvq) /\ Len(f2.recvq) = 0
  BY <1>10 DEF Ended
<1>13. ASSUME p.late = FALSE PROVE Numbered(f2)
  <2>1. /\ p.sent = p.got + n + m /\ \A i \in 1 .. m : p.unread[i].n = p.got + n + i
        /\ \A i \in 1 .. n : p.recvq[i].n = p.got + i
        /\ p.whole = TRUE
    BY <1>3, <1>13 DEF PeerOK, Numbered
  <2>2. z = p.got + n
    BY <1>4, <1>5, <2>1
  <2>3. \A i \in 1 .. m : p.unread[i].n = z + 0 + i
    BY <1>2, <2>1, <2>2
  <2>4. p.sent = z + 0 + m
    BY <1>2, <2>1, <2>2
  <2> QED BY <1>3, <1>10, <1>12, <2>1, <2>3, <2>4 DEF Numbered
<1>14. PeerOK(f2)
  BY <1>10, <1>12, <1>13 DEF PeerOK
<1> QED BY <1>10, <1>11, <1>12, <1>14

----------------------------------------------------------------------------
(* The list of those who wait.                                             *)

LEMMA LinkFields ==
  ASSUME NEW l, Ordered(l), NEW i \in 1 .. Len(l)
  PROVE  l[i] \in LinkRecs /\ l[i].cptr \in Clients /\ l[i].dead \in BOOLEAN
<1>1. l[i] \in LinkRecs
  BY DEF Ordered
<1> QED BY <1>1 DEF LinkRecs

Tagged(r, l, c, p) == r = tag(l, c, p.have)

LEMMA TagOK ==
  ASSUME NEW l, Ordered(l), NEW c \in Clients, NEW p, p.have \in BOOLEAN, p.have <=> c \in Listed(l),
         NEW r, Tagged(r, l, c, p)
  PROVE  /\ Ordered(r) /\ Listed(r) = Listed(l) \ {c} /\ Len(r) = Len(l)
         /\ \A i \in 1 .. Len(l) : r[i].cptr = l[i].cptr /\ (l[i].cptr # c => r[i] = l[i])
<1>1. l \in Seq(LinkRecs) /\ Len(l) \in Nat /\ DOMAIN l = 1 .. Len(l)
  BY DEF Ordered
<1>2. CASE c \in Listed(l)
  <2>1. PICK k \in 1 .. Len(l) : l[k].cptr = c /\ ~ l[k].dead
    BY <1>2 DEF Listed
  <2>2. \A j \in 1 .. k - 1 : l[j].cptr # c
    <3>1. \A j \in 1 .. k - 1 : j \in 1 .. Len(l) /\ j < k
      BY <1>1
    <3> QED BY <2>1, <3>1 DEF Ordered
  <2>3. PICK m : m = CHOOSE i \in DOMAIN l : l[i].cptr = c /\ \A j \in 1 .. (i - 1) : l[j].cptr # c
    OBVIOUS
  <2>4. m \in DOMAIN l /\ l[m].cptr = c /\ \A j \in 1 .. (m - 1) : l[j].cptr # c
    BY <1>1, <2>1, <2>2, <2>3
  <2>5. m = k
    <3>1. m \in 1 .. Len(l) /\ k \in 1 .. Len(l)
      BY <1>1, <2>4
    <3>2. ~ (m \in 1 .. k - 1) /\ ~ (k \in 1 .. m - 1)
      BY <2>1, <2>2, <2>4
    <3> QED BY <1>1, <3>1, <3>2
  <2>6. r = [l EXCEPT ![k].dead = TRUE]
    <3>1. p.have /\ \E i \in DOMAIN l : l[i].cptr = c
      BY <1>1, <1>2, <2>1
    <3>2. r = [l EXCEPT ![m].dead = TRUE]
      BY <2>3, <3>1 DEF Tagged, tag
    <3> QED BY <2>5, <3>2
  <2>7. PICK e : e = [l[k] EXCEPT !.dead = TRUE]
    OBVIOUS
  <2>8. e \in LinkRecs /\ e.cptr = c /\ e.dead = TRUE
    <3>1. l[k] \in LinkRecs
      BY <1>1
    <3> QED BY <2>1, <2>7, <3>1 DEF LinkRecs
  <2>9. r = [l EXCEPT ![k] = e]
    BY <2>6, <2>7
  <2>10. /\ r \in Seq(LinkRecs) /\ Len(r) = Len(l) /\ r[k] = e
         /\ \A i \in 1 .. Len(l) : i # k => r[i] = l[i]
    BY <1>1, <2>8, <2>9
  <2>11. \A i \in 1 .. Len(l) : r[i].cptr = l[i].cptr /\ (l[i].dead => r[i].dead)
    BY <2>1, <2>8, <2>10
  <2>12. Ordered(r)
    BY <2>10, <2>11 DEF Ordered
  <2>13. \A i \in 1 .. Len(l) : l[i].cptr = c => r[i].dead
    <3>1. SUFFICES ASSUME NEW i \in 1 .. Len(l), l[i].cptr = c PROVE r[i].dead
      OBVIOUS
    <3>2. CASE i = k
      BY <2>8, <2>10, <3>2
    <3>3. CASE i < k
      BY <1>1, <2>2, <3>1, <3>3
    <3>4. CASE k < i
      <4>1. l[i].dead
        BY <2>1, <3>1, <3>4 DEF Ordered
      <4> QED BY <2>11, <4>1
    <3> QED BY <1>1, <3>2, <3>3, <3>4
  <2>14. \A i \in 1 .. Len(l) : l[i].cptr # c => r[i] = l[i]
    BY <2>1, <2>10
  <2>15. Listed(r) = Listed(l) \ {c}
    BY <2>10, <2>11, <2>13, <2>14 DEF Listed
  <2> QED BY <2>10, <2>11, <2>12, <2>14, <2>15
<1>3. CASE c \notin Listed(l)
  <2>1. ~ p.have
    BY <1>3
  <2>2. r = l
    BY <2>1 DEF Tagged, tag
  <2> QED BY <1>3, <2>2
<1> QED BY <1>2, <1>3

Unlinked(r, l, i) == r = RemoveAt(l, i)

LEMMA UnlinkOK ==
  ASSUME NEW l, Ordered(l), NEW k \in 1 .. Len(l), NEW r, Unlinked(r, l, k)
  PROVE  /\ Ordered(r)
         /\ l[k].dead => Listed(r) = Listed(l)
         /\ ~ l[k].dead => Listed(r) = Listed(l) \ {l[k].cptr}
<1>1. l \in Seq(LinkRecs) /\ Len(l) \in Nat
  BY DEF Ordered
<1>2. /\ r \in Seq(LinkRecs) /\ Len(r) = Len(l) - 1
      /\ \A i \in 1 .. Len(r) : r[i] = IF i < k THEN l[i] ELSE l[i + 1]
  BY <1>1, RemoveAtSpec DEF Unlinked
<1> DEFINE at(i) == IF i < k THEN i ELSE i + 1
<1>3. \A i \in 1 .. Len(r) : at(i) \in 1 .. Len(l) /\ r[i] = l[at(i)] /\ at(i) # k
  BY <1>1, <1>2
<1>4. \A i, j \in 1 .. Len(r) : i < j => at(i) < at(j)
  BY <1>1, <1>2
<1>5. Ordered(r)
  BY <1>2, <1>3, <1>4 DEF Ordered
<1>6. \A j \in 1 .. Len(l) : j # k => \E i \in 1 .. Len(r) : r[i] = l[j]
  <2>1. SUFFICES ASSUME NEW j \in 1 .. Len(l), j # k PROVE \E i \in 1 .. Len(r) : r[i] = l[j]
    OBVIOUS
  <2>2. CASE j < k
    <3>1. j \in 1 .. Len(r) /\ r[j] = l[j]
      BY <1>1, <1>2, <2>2
    <3> QED BY <3>1
  <2>3. CASE k < j
    <3>1. j - 1 \in 1 .. Len(r) /\ ~ (j - 1 < k) /\ j - 1 + 1 = j
      BY <1>1, <1>2, <2>3
    <3>2. r[j - 1] = l[j]
      BY <1>2, <3>1
    <3> QED BY <3>1, <3>2
  <2> QED BY <1>1, <2>1, <2>2, <2>3
<1> HIDE DEF at
<1>9. \A i \in 1 .. Len(r) : \E j \in 1 .. Len(l) : r[i] = l[j] /\ j # k
  BY <1>3
<1>7. CASE l[k].dead
  <2>1. \A j \in 1 .. Len(l) : ~ l[j].dead => \E i \in 1 .. Len(r) : r[i] = l[j]
    BY <1>6, <1>7
  <2>2. Listed(r) = Listed(l)
    BY <1>9, <2>1 DEF Listed
  <2> QED BY <1>5, <1>7, <2>2
<1>8. CASE ~ l[k].dead
  <2>1. \A j \in 1 .. Len(l) : j # k /\ l[j].cptr = l[k].cptr => l[j].dead
    <3>1. SUFFICES ASSUME NEW j \in 1 .. Len(l), j # k, l[j].cptr = l[k].cptr PROVE l[j].dead
      OBVIOUS
    <3>2. CASE j < k
      BY <1>8, <3>1, <3>2 DEF Ordered
    <3>3. CASE k < j
      BY <3>1, <3>3 DEF Ordered
    <3> QED BY <1>1, <3>1, <3>2, <3>3
  <2>3. \A j \in 1 .. Len(l) : l[j].cptr # l[k].cptr => \E i \in 1 .. Len(r) : r[i] = l[j]
    BY <1>6
  <2>4. \A i \in 1 .. Len(r) : r[i].cptr = l[k].cptr => r[i].dead
    BY <1>9, <2>1
  <2>2. Listed(r) = Listed(l) \ {l[k].cptr}
    BY <1>9, <2>3, <2>4 DEF Listed
  <2> QED BY <1>5, <1>8, <2>2
<1> QED BY <1>7, <1>8

Enlisted(r, l, c) == r = <<[cptr |-> c, dead |-> FALSE]>> \o l

LEMMA EnlistOK ==
  ASSUME NEW l, Ordered(l), NEW c \in Clients, c \notin Listed(l), NEW r, Enlisted(r, l, c)
  PROVE  Ordered(r) /\ Listed(r) = Listed(l) \cup {c}
<1>1. l \in Seq(LinkRecs) /\ Len(l) \in Nat
  BY DEF Ordered
<1>2. PICK e : e = [cptr |-> c, dead |-> FALSE]
  OBVIOUS
<1>3. e \in LinkRecs /\ e.cptr = c /\ e.dead = FALSE
  BY <1>2 DEF LinkRecs
<1>4. /\ r \in Seq(LinkRecs) /\ Len(r) = Len(l) + 1 /\ r[1] = e
      /\ \A i \in 1 .. Len(l) : r[i + 1] = l[i]
      /\ \A i \in 2 .. Len(r) : r[i] = l[i - 1]
  BY <1>1, <1>2, <1>3, PushSpec DEF Enlisted
<1>5. \A i \in 1 .. Len(l) : l[i].cptr = c => l[i].dead
  BY DEF Listed
<1>6. \A i \in 1 .. Len(r) : i = 1 \/ (i \in 2 .. Len(r) /\ i - 1 \in 1 .. Len(l))
  BY <1>1, <1>4
<1>7. Ordered(r)
  <2>1. SUFFICES ASSUME NEW i \in 1 .. Len(r), NEW j \in 1 .. Len(r), i < j, r[i].cptr = r[j].cptr
                 PROVE  r[j].dead
    BY <1>4 DEF Ordered
  <2>2. j # 1
    BY <1>1, <1>4, <2>1
  <2>3. r[j] = l[j - 1] /\ j - 1 \in 1 .. Len(l)
    BY <1>4, <1>6, <2>2
  <2>4. CASE i = 1
    BY <1>3, <1>4, <1>5, <2>1, <2>3, <2>4
  <2>5. CASE i # 1
    <3>1. r[i] = l[i - 1] /\ i - 1 \in 1 .. Len(l) /\ i - 1 < j - 1
      BY <1>1, <1>4, <1>6, <2>1, <2>5
    <3> QED BY <2>1, <2>3, <3>1 DEF Ordered
  <2> QED BY <2>4, <2>5
<1>8. \A i \in 1 .. Len(l) : i + 1 \in 1 .. Len(r)
  BY <1>1, <1>4
<1>9. 1 \in 1 .. Len(r)
  BY <1>1, <1>4
<1>10. Listed(r) = Listed(l) \cup {c}
  <2>1. \A d \in Listed(l) : d \in Listed(r)
    BY <1>4, <1>8 DEF Listed
  <2>2. c \in Listed(r)
    BY <1>3, <1>4, <1>9 DEF Listed
  <2>3. ASSUME NEW d \in Listed(r), d # c PROVE d \in Listed(l)
    <3>1. PICK i \in 1 .. Len(r) : r[i].cptr = d /\ ~ r[i].dead
      BY DEF Listed
    <3>2. i # 1
      BY <1>3, <1>4, <2>3, <3>1
    <3>3. r[i] = l[i - 1] /\ i - 1 \in 1 .. Len(l)
      BY <1>4, <1>6, <3>2
    <3> QED BY <3>1, <3>3 DEF Listed
  <2> QED BY <2>1, <2>2, <2>3
<1> QED BY <1>7, <1>10

----------------------------------------------------------------------------
(* The steps of the event loop.                                            *)

\* One connection changes, begins or ends.
Put(r, all, c, q) == r = [all EXCEPT ![c] = q]

LEMMA PutOK ==
  ASSUME NEW all, PeersOK(all), NEW c \in Clients, NEW q, q = None \/ PeerOK(q),
         NEW r, Put(r, all, c, q)
  PROVE  /\ PeersOK(r) /\ r[c] = q
         /\ \A d \in Clients : d # c => r[d] = all[d]
         /\ q # None /\ q.have => Havers(r) = Havers(all) \cup {c}
         /\ q = None \/ ~ q.have => Havers(r) = Havers(all) \ {c}
<1>1. r[c] = q /\ DOMAIN r = Clients /\ \A d \in Clients : d # c => r[d] = all[d]
  BY DEF Put, PeersOK
<1>2. PeersOK(r)
  BY <1>1 DEF PeersOK
<1>3. q # None /\ q.have => Havers(r) = Havers(all) \cup {c}
  BY <1>1 DEF Havers
<1>4. q = None \/ ~ q.have => Havers(r) = Havers(all) \ {c}
  BY <1>1 DEF Havers
<1> QED BY <1>1, <1>2, <1>3, <1>4

LEMMA LoopFields ==
  /\ Idle.cptr = None /\ Idle.at = "idle"
  /\ \A i : Walk(i).cptr = None /\ Walk(i).at = "walk" /\ Walk(i).pos = i
  /\ \A c, i : Queue(c, i).cptr = c /\ Queue(c, i).at = "queue" /\ Queue(c, i).pos = i
  /\ \A c, i : Packet(c, i).cptr = c /\ Packet(c, i).at = "packet" /\ Packet(c, i).pos = i
  /\ \A c : Direct(c).cptr = c /\ Direct(c).at = "direct" /\ Direct(c).pos = 0
  /\ None \notin Clients
BY CommonAssumption DEF Idle, Walk, Queue, Packet, Direct

LEMMA BusyFields ==
  ASSUME NEW at, NEW c, NEW i, Busy(at, c, i)
  PROVE  at.cptr = c /\ at.pos = i /\ at.at \in {"queue", "packet", "direct"}
BY LoopFields DEF Busy

LEMMA AtQueue ==
  ASSUME NEW at, NEW l, NEW all, LoopOK(at, l, all), at.at \in {"queue", "packet", "direct"}
  PROVE  /\ at.cptr \in Clients /\ at.pos \in Nat /\ Busy(at, at.cptr, at.pos) /\ all[at.cptr] # None
         /\ at.pos # 0 => at.pos \in 1 .. Len(l) /\ l[at.pos].cptr = at.cptr /\ ~ l[at.pos].dead
<1>1. PICK c \in Clients, i \in Nat :
         /\ Busy(at, c, i) /\ all[c] # None
         /\ i # 0 => i \in 1 .. Len(l) /\ l[i].cptr = c /\ ~ l[i].dead
  BY LoopFields DEF LoopOK
<1>2. at.cptr = c /\ at.pos = i
  BY <1>1, BusyFields
<1> QED BY <1>1, <1>2

LEMMA AtWalk ==
  ASSUME NEW at, NEW l, NEW all, LoopOK(at, l, all), at.at = "walk"
  PROVE  at.pos \in Nat \ {0} /\ at = Walk(at.pos)
<1>1. PICK i \in Nat \ {0} : at = Walk(i)
  BY LoopFields, BusyFields DEF LoopOK
<1> QED BY <1>1, LoopFields

\* A link's client is there.
LEMMA LiveLink ==
  ASSUME NEW all, NEW l, NEW at, QueuesOK(all, l, at), NEW i \in 1 .. Len(l), ~ l[i].dead
  PROVE  /\ l[i].cptr \in Clients /\ all[l[i].cptr] # None /\ all[l[i].cptr].have
         /\ PeerOK(all[l[i].cptr])
<1>1. Ordered(l) /\ Listed(l) = Havers(all) /\ PeersOK(all)
  BY DEF QueuesOK
<1>2. l[i].cptr \in Clients
  BY <1>1, LinkFields
<1>3. l[i].cptr \in Listed(l)
  BY <1>2 DEF Listed
<1>4. all[l[i].cptr] # None /\ all[l[i].cptr].have
  BY <1>1, <1>3 DEF Havers
<1> QED BY <1>1, <1>2, <1>4 DEF PeersOK

\* A connection that changes while the loop stays where it is.
LEMMA ChangeOK ==
  ASSUME NEW all, NEW l, NEW at, QueuesOK(all, l, at), NEW c \in Clients, NEW q, PeerOK(q),
         \/ all[c] = None /\ ~ q.have
         \/ all[c] # None /\ q.have = all[c].have,
         (at.cptr = c /\ at.at # "direct") \/ ~ Ended(q.recvq) \/ q.have \/ (all[c] # None /\ q.recvq = all[c].recvq),
         NEW r, Put(r, all, c, q)
  PROVE  QueuesOK(r, l, at)
<1>1. /\ PeersOK(all) /\ Ordered(l) /\ Listed(l) = Havers(all)
      /\ LoopOK(at, l, all) /\ WaitsOK(at, all)
  BY DEF QueuesOK
<1>2. q # None
  BY PeerFields DEF PeerOK
<1>3. /\ PeersOK(r) /\ r[c] = q
      /\ \A d \in Clients : d # c => r[d] = all[d]
      /\ q # None /\ q.have => Havers(r) = Havers(all) \cup {c}
      /\ q = None \/ ~ q.have => Havers(r) = Havers(all) \ {c}
  BY <1>1, PutOK
<1>4. Havers(r) = Havers(all)
  <2>1. q.have => c \in Havers(all)
    BY <1>2 DEF Havers
  <2>2. ~ q.have => c \notin Havers(all)
    BY <1>2 DEF Havers
  <2> QED BY <1>2, <1>3, <2>1, <2>2
<1>5. LoopOK(at, l, r)
  BY <1>1, <1>2, <1>3 DEF LoopOK
<1>6. WaitsOK(at, r)
  <2>1. SUFFICES ASSUME NEW d \in Clients, r[d] # None, at.cptr # d \/ at.at = "direct",
                        Ended(r[d].recvq)
                 PROVE  r[d].have
    BY DEF WaitsOK
  <2>2. CASE d = c
    <3>1. CASE all[c] # None /\ q.recvq = all[c].recvq
      <4>1. q.have = all[c].have \/ FALSE
        BY <3>1
      <4>2. all[c].have
        BY <1>1, <1>3, <2>1, <2>2, <3>1 DEF WaitsOK
      <4> QED BY <1>3, <2>2, <4>1, <4>2
    <3>2. CASE ~ (all[c] # None /\ q.recvq = all[c].recvq)
      BY <1>3, <2>1, <2>2, <3>2
    <3> QED BY <3>1, <3>2
  <2>3. CASE d # c
    BY <1>1, <1>3, <2>1, <2>3 DEF WaitsOK
  <2> QED BY <2>2, <2>3
<1> QED BY <1>1, <1>3, <1>4, <1>5, <1>6 DEF QueuesOK

\* A connection that ends, not the one the loop is at.
LEMMA EndOK ==
  ASSUME NEW all, NEW l, NEW at, QueuesOK(all, l, at), NEW c \in Clients, all[c] # None, at.cptr # c,
         NEW r, Put(r, all, c, None), NEW k, NEW p, p = all[c], Tagged(k, l, c, p)
  PROVE  QueuesOK(r, k, at)
<1>1. /\ PeersOK(all) /\ Ordered(l) /\ Listed(l) = Havers(all)
      /\ LoopOK(at, l, all) /\ WaitsOK(at, all)
  BY DEF QueuesOK
<1>2. PeersOK(r) /\ r[c] = None /\ \A d \in Clients : d # c => r[d] = all[d]
  BY <1>1, PutOK
<1>3. Havers(r) = Havers(all) \ {c}
  BY <1>1, PutOK
<1>4. p.have \in BOOLEAN
  <2>1. p \in PeerRecs
    BY <1>1 DEF PeersOK, PeerOK
  <2> QED BY <2>1, PeerFields
<1>5. p.have <=> c \in Listed(l)
  BY <1>1 DEF Havers
<1>6. /\ Ordered(k) /\ Listed(k) = Listed(l) \ {c} /\ Len(k) = Len(l)
      /\ \A i \in 1 .. Len(l) : k[i].cptr = l[i].cptr /\ (l[i].cptr # c => k[i] = l[i])
  BY <1>1, <1>4, <1>5, TagOK
<1>7. LoopOK(at, k, r)
  <2>1. CASE at = Idle \/ \E i \in Nat \ {0} : at = Walk(i)
    BY <2>1 DEF LoopOK
  <2>2. CASE at.at \in {"queue", "packet", "direct"}
    <3>1. /\ at.cptr \in Clients /\ at.pos \in Nat /\ Busy(at, at.cptr, at.pos) /\ all[at.cptr] # None
          /\ at.pos # 0 => at.pos \in 1 .. Len(l) /\ l[at.pos].cptr = at.cptr /\ ~ l[at.pos].dead
      BY <1>1, <2>2, AtQueue
    <3>2. r[at.cptr] # None
      BY <1>2, <3>1
    <3>3. at.pos # 0 => at.pos \in 1 .. Len(k) /\ k[at.pos].cptr = at.cptr /\ ~ k[at.pos].dead
      BY <1>6, <3>1
    <3> QED BY <3>1, <3>2, <3>3 DEF LoopOK
  <2> QED BY <1>1, <2>1, <2>2, BusyFields DEF LoopOK
<1>8. WaitsOK(at, r)
  BY <1>1, <1>2 DEF WaitsOK
<1> QED BY <1>1, <1>2, <1>3, <1>6, <1>7, <1>8 DEF QueuesOK

LEMMA ExitStep ==
  ASSUME RecvInv, NEW c \in Clients, peer[c] # None, loop = Idle, exit_recv(c), loop' = loop
  PROVE  RecvInv'
<1>1. PICK all, l, p : all = peer /\ l = rlist /\ p = peer[c]
  OBVIOUS
<1>2. QueuesOK(all, l, Idle)
  BY <1>1 DEF RecvInv
<1>3. PICK r, k : r = [all EXCEPT ![c] = None] /\ k = tag(l, c, p.have)
  OBVIOUS
<1>4. peer' = r /\ rlist' = k
  BY <1>1, <1>3 DEF exit_recv
<1>5. Put(r, all, c, None) /\ Tagged(k, l, c, p)
  BY <1>3 DEF Put, Tagged
<1>6. Idle.cptr # c
  BY LoopFields
<1>7. QueuesOK(r, k, Idle)
  BY <1>1, <1>2, <1>5, <1>6, EndOK
<1> QED BY <1>4, <1>7 DEF RecvInv

LEMMA AcceptRecv ==
  ASSUME RecvInv, NEW c \in Clients, accept(c)
  PROVE  RecvInv'
<1>1. PICK all, l, at : all = peer /\ l = rlist /\ at = loop
  OBVIOUS
<1>2. PICK q, r : q = NewPeer /\ r = [all EXCEPT ![c] = q]
  OBVIOUS
<1>3. peer' = r /\ rlist' = l /\ loop' = at /\ all[c] = None
  BY <1>1, <1>2 DEF accept
<1>4. PeerOK(q) /\ q.have = FALSE /\ ~ Ended(q.recvq)
  BY <1>2, NewPeerOK
<1>5. Put(r, all, c, q)
  BY <1>2 DEF Put
<1>6. QueuesOK(all, l, at)
  BY <1>1 DEF RecvInv
<1>7. QueuesOK(r, l, at)
  BY <1>3, <1>4, <1>5, <1>6, ChangeOK
<1> QED BY <1>3, <1>7 DEF RecvInv

LEMMA TransmitRecv ==
  ASSUME RecvInv, NEW c \in Clients, NEW x \in Pieces, x.n = peer[c].sent + 1,
         transmit(c, x.eol)
  PROVE  RecvInv'
<1>1. PICK all, l, at, p : all = peer /\ l = rlist /\ at = loop /\ p = peer[c]
  OBVIOUS
<1>2. QueuesOK(all, l, at)
  BY <1>1 DEF RecvInv
<1>3. p # None /\ PeerOK(p)
  BY <1>1, <1>2 DEF transmit, QueuesOK, PeersOK
<1>4. PICK g : g = [p EXCEPT !.unread = Append(p.unread, x), !.sent = p.sent + 1]
  OBVIOUS
<1>5. Sent(g, p, x)
  BY <1>4 DEF Sent
<1>6. PeerOK(g) /\ g.have = p.have /\ g.recvq = p.recvq
  BY <1>1, <1>3, <1>5, SentOK
<1>7. PICK r : r = [all EXCEPT ![c] = g]
  OBVIOUS
<1>8. peer' = r /\ rlist' = l /\ loop' = at
  <2>1. x = [n |-> p.sent + 1, eol |-> x.eol]
    BY <1>1 DEF Pieces
  <2>2. peer' = [all EXCEPT ![c].unread = Append(@, x), ![c].sent = @ + 1]
    BY <1>1, <2>1 DEF transmit
  <2>3. peer' = [all EXCEPT ![c] = g]
    BY <1>1, <1>4, <2>2
  <2> QED BY <1>1, <1>7, <2>3 DEF transmit
<1>9. Put(r, all, c, g)
  BY <1>7 DEF Put
<1>10. all[c] # None /\ g.have = all[c].have /\ g.recvq = all[c].recvq
  BY <1>1, <1>3, <1>6
<1>11. QueuesOK(r, l, at)
  BY <1>2, <1>6, <1>9, <1>10, ChangeOK
<1> QED BY <1>8, <1>11 DEF RecvInv

Marked(g, p)   == g = [p EXCEPT !.have = TRUE]
Unmarked(g, p) == g = [p EXCEPT !.have = FALSE]

LEMMA MarkedOK ==
  ASSUME NEW p, PeerOK(p), NEW g, Marked(g, p)
  PROVE  PeerOK(g) /\ g.have = TRUE
<1>1. p \in PeerRecs
  BY DEF PeerOK
<1>2. Alike(g, p) /\ g.have = TRUE /\ g.nonl = p.nonl
  BY <1>1 DEF Marked, Alike, PeerRecs
<1>3. g.nonl => ~ Ended(g.recvq)
  BY <1>2 DEF PeerOK, Alike
<1> QED BY <1>2, <1>3, AlikeOK

LEMMA UnmarkedOK ==
  ASSUME NEW p, PeerOK(p), NEW g, Unmarked(g, p)
  PROVE  PeerOK(g) /\ g.have = FALSE /\ g.recvq = p.recvq
<1>1. p \in PeerRecs
  BY DEF PeerOK
<1>2. Alike(g, p) /\ g.have = FALSE /\ g.nonl = p.nonl
  BY <1>1 DEF Unmarked, Alike, PeerRecs
<1>3. g.nonl => ~ Ended(g.recvq)
  BY <1>2 DEF PeerOK, Alike
<1> QED BY <1>2, <1>3, AlikeOK DEF Alike

LEMMA EndedPending ==
  ASSUME NEW p, PeerOK(p), ~ Pending(p)
  PROVE  ~ Ended(p.recvq)
<1>1. CASE p.recvq = << >>
  BY <1>1 DEF Ended
<1>2. CASE p.recvq # << >>
  BY <1>2 DEF Pending, PeerOK
<1> QED BY <1>1, <1>2

\* The loop leaves the connection it was at.
LEMMA LeaveOK ==
  ASSUME NEW all, NEW l, NEW at, QueuesOK(all, l, at), NEW c \in Clients, at.cptr = c \/ at.cptr = None,
         NEW q, q = None \/ (PeerOK(q) /\ (Ended(q.recvq) => q.have)),
         NEW r, Put(r, all, c, q), NEW k, Ordered(k), Listed(k) = Havers(r),
         NEW to, to = Idle \/ \E i \in Nat \ {0} : to = Walk(i)
  PROVE  QueuesOK(r, k, to)
<1>1. PeersOK(all) /\ WaitsOK(at, all)
  BY DEF QueuesOK
<1>2. PeersOK(r) /\ r[c] = q /\ \A d \in Clients : d # c => r[d] = all[d]
  BY <1>1, PutOK
<1>3. LoopOK(to, k, r)
  BY DEF LoopOK
<1>4. WaitsOK(to, r)
  <2>1. SUFFICES ASSUME NEW d \in Clients, r[d] # None, Ended(r[d].recvq) PROVE r[d].have
    BY DEF WaitsOK
  <2>2. CASE d = c
    BY <1>2, <2>1, <2>2
  <2>3. CASE d # c
    <3>1. at.cptr # d
      BY <2>3, LoopFields
    <3> QED BY <1>1, <1>2, <2>1, <2>3, <3>1 DEF WaitsOK
  <2> QED BY <2>2, <2>3
<1> QED BY <1>2, <1>3, <1>4 DEF QueuesOK

LEMMA ReadRecv ==
  ASSUME RecvInv, NEW c \in Clients, NEW k, read_packet(c, k)
  PROVE  RecvInv'
<1>1. PICK all, l, p : all = peer /\ l = rlist /\ p = peer[c]
  OBVIOUS
<1>2. loop = Idle /\ p # None /\ k \in 1 .. Len(p.unread)
  BY <1>1 DEF read_packet
<1>3. QueuesOK(all, l, Idle)
  BY <1>1, <1>2 DEF RecvInv
<1>4. PeerOK(p)
  BY <1>1, <1>2, <1>3 DEF QueuesOK, PeersOK
<1>5. PICK q : q = received(p, k)
  OBVIOUS
<1>6. PeerOK(q) /\ q.have = p.have
  <2>1. CASE may_read(p)
    <3>1. Read(q, p, k)
      BY <1>5, <2>1 DEF received, Read
    <3> QED BY <1>2, <1>4, <3>1, ReadOK
  <2>2. CASE ~ may_read(p)
    BY <1>4, <1>5, <2>2 DEF received
  <2> QED BY <2>1, <2>2
<1>7. CASE exit_recv(c) /\ loop' = loop
  BY <1>1, <1>2, <1>7, ExitStep
<1>8. CASE peer' = [peer EXCEPT ![c] = q] /\ loop' = Queue(c, 0) /\ rlist' = rlist
  <2>1. PICK r, at : r = [all EXCEPT ![c] = q] /\ at = Queue(c, 0)
    OBVIOUS
  <2>2. Put(r, all, c, q)
    BY <2>1 DEF Put
  <2>3. q # None
    BY <1>6, PeerFields DEF PeerOK
  <2>4. /\ PeersOK(all) /\ Ordered(l) /\ Listed(l) = Havers(all) /\ WaitsOK(Idle, all)
    BY <1>3 DEF QueuesOK
  <2>5. /\ PeersOK(r) /\ r[c] = q /\ \A d \in Clients : d # c => r[d] = all[d]
        /\ q # None /\ q.have => Havers(r) = Havers(all) \cup {c}
        /\ q = None \/ ~ q.have => Havers(r) = Havers(all) \ {c}
    BY <1>6, <2>2, <2>4, PutOK
  <2>6. Havers(r) = Havers(all)
    <3>1. q.have <=> c \in Havers(all)
      BY <1>1, <1>2, <1>6 DEF Havers
    <3> QED BY <2>3, <2>5, <3>1
  <2>7. LoopOK(at, l, r)
    BY <2>1, <2>3, <2>5 DEF LoopOK, Busy
  <2>8. WaitsOK(at, r)
    <3>1. at.cptr = c /\ at.at = "queue" /\ Idle.cptr \notin Clients
      BY <2>1, LoopFields
    <3> QED BY <2>4, <2>5, <3>1 DEF WaitsOK
  <2>9. QueuesOK(r, l, at)
    BY <2>4, <2>5, <2>6, <2>7, <2>8 DEF QueuesOK
  <2> QED BY <1>1, <1>8, <2>1, <2>9 DEF RecvInv
<1> QED BY <1>1, <1>5, <1>7, <1>8 DEF read_packet

LEMMA ReadServer ==
  ASSUME RecvInv, NEW c \in Clients, NEW k, NEW price \in Nat, read_server(c, k, price)
  PROVE  RecvInv'
<1>1. PICK all, l, p : all = peer /\ l = rlist /\ p = peer[c]
  OBVIOUS
<1>2. loop = Idle /\ p # None /\ k \in 1 .. Len(p.unread)
  BY <1>1 DEF read_server
<1>3. QueuesOK(all, l, Idle)
  BY <1>1, <1>2 DEF RecvInv
<1>4. PeerOK(p)
  BY <1>1, <1>2, <1>3 DEF QueuesOK, PeersOK
<1>5. PICK q : q = straight(p, k, price)
  OBVIOUS
<1>6. PeerOK(q) /\ q.have = p.have /\ q.recvq = p.recvq
  <2>1. Straight(q, p, k, price)
    BY <1>5 DEF Straight
  <2> QED BY <1>2, <1>4, <2>1, StraightOK
<1>7. PICK r, at : r = [all EXCEPT ![c] = q] /\ at = Direct(c)
  OBVIOUS
<1>8. Put(r, all, c, q) /\ all[c] # None /\ q.have = all[c].have /\ q.recvq = all[c].recvq
  BY <1>1, <1>2, <1>6, <1>7 DEF Put
<1>9. QueuesOK(r, l, Idle)
  BY <1>3, <1>6, <1>8, ChangeOK
<1>10. r[c] # None
  <2>1. DOMAIN all = Clients
    BY <1>3 DEF QueuesOK, PeersOK
  <2>2. r[c] = q
    BY <1>7, <2>1
  <2> QED BY <1>6, <2>2, PeerFields DEF PeerOK
<1>11. LoopOK(at, l, r)
  BY <1>7, <1>10 DEF LoopOK, Busy
<1>12. WaitsOK(at, r)
  <2>1. Idle.cptr \notin Clients
    BY LoopFields
  <2> QED BY <1>9, <2>1 DEF QueuesOK, WaitsOK
<1>13. QueuesOK(r, l, at)
  BY <1>9, <1>11, <1>12 DEF QueuesOK
<1>14. peer' = r /\ rlist' = l /\ loop' = at
  BY <1>1, <1>5, <1>7 DEF read_server
<1> QED BY <1>13, <1>14 DEF RecvInv

\* What client_dopacket needs and finds.
Parsing(all, l, at, c, p) ==
  /\ QueuesOK(all, l, at) /\ at.cptr = c /\ c \in Clients /\ p = all[c] /\ p # None
  /\ PeerOK(p) /\ at.pos \in Nat /\ Busy(at, c, at.pos)
  /\ at.pos # 0 => at.pos \in 1 .. Len(l) /\ l[at.pos].cptr = c /\ ~ l[at.pos].dead

LEMMA InParse ==
  ASSUME NEW all, NEW l, NEW at, QueuesOK(all, l, at), at.at \in {"queue", "packet", "direct"},
         NEW c, c = at.cptr, NEW p, p = all[c]
  PROVE  Parsing(all, l, at, c, p)
<1>1. LoopOK(at, l, all) /\ PeersOK(all)
  BY DEF QueuesOK
<1>2. /\ at.cptr \in Clients /\ at.pos \in Nat /\ Busy(at, at.cptr, at.pos) /\ all[at.cptr] # None
      /\ at.pos # 0 => at.pos \in 1 .. Len(l) /\ l[at.pos].cptr = at.cptr /\ ~ l[at.pos].dead
  BY <1>1, AtQueue
<1>3. PeerOK(p)
  BY <1>1, <1>2 DEF PeersOK
<1> QED BY <1>2, <1>3 DEF Parsing

LEMMA LineEnded ==
  ASSUME NEW p, PeerOK(p), FirstLine(p.recvq) # 0
  PROVE  Ended(p.recvq)
<1>1. p.recvq \in Seq(Pieces)
  BY PeerFields DEF PeerOK
<1> QED BY <1>1, FirstLineOK

LEMMA ParseLine ==
  ASSUME RecvInv, NEW price \in Nat, NEW kind \in Kinds, parse_line(price, kind)
  PROVE  RecvInv'
<1>1. PICK all, l, at : all = peer /\ l = rlist /\ at = loop
  OBVIOUS
<1>2. PICK c, p : c = at.cptr /\ p = all[c]
  OBVIOUS
<1>3. QueuesOK(all, l, at) /\ at.at = "queue" /\ FirstLine(p.recvq) # 0
  BY <1>1, <1>2 DEF RecvInv, parse_line, InQueue, ALine, HasLine
<1>4. Parsing(all, l, at, c, p)
  BY <1>2, <1>3, InParse
<1>5. c \in Clients /\ p # None /\ PeerOK(p) /\ Ended(p.recvq)
  BY <1>3, <1>4, LineEnded DEF Parsing
<1>6. PICK g : g = getmsg(p, price)
  OBVIOUS
<1>7. PeerOK(g) /\ g.have = p.have
  <2>1. Taken(g, p, price)
    BY <1>6 DEF Taken
  <2> QED BY <1>5, <2>1, TakenOK
<1>8. PICK q : q = [g EXCEPT !.kind = kind]
  OBVIOUS
<1>9. PeerOK(q) /\ q.have = p.have
  <2>1. g \in PeerRecs
    BY <1>7 DEF PeerOK
  <2>2. Alike(q, g) /\ q.have = g.have /\ q.nonl = g.nonl
    BY <1>8, <2>1 DEF Alike, PeerRecs
  <2>3. q.nonl => ~ Ended(q.recvq)
    BY <1>7, <2>2 DEF PeerOK, Alike
  <2> QED BY <1>7, <2>2, <2>3, AlikeOK
<1>10. PICK r : r = [all EXCEPT ![c] = q]
  OBVIOUS
<1>11. Put(r, all, c, q)
  BY <1>10 DEF Put
<1>12. peer' = r /\ rlist' = l /\ loop' = at
  BY <1>1, <1>2, <1>6, <1>8, <1>10 DEF parse_line
<1>13. all[c] # None /\ q.have = all[c].have
  BY <1>2, <1>5, <1>9
<1>14. QueuesOK(r, l, at)
  BY <1>2, <1>3, <1>5, <1>9, <1>11, <1>13, ChangeOK
<1> QED BY <1>12, <1>14 DEF RecvInv

LEMMA ParseExit ==
  ASSUME RecvInv, NEW price \in Nat, NEW d \in Clients, parse_exit(price, d)
  PROVE  RecvInv'
<1>1. PICK all, l, at : all = peer /\ l = rlist /\ at = loop
  OBVIOUS
<1>2. PICK c, p : c = at.cptr /\ p = all[c]
  OBVIOUS
<1>3. /\ QueuesOK(all, l, at) /\ at.at = "queue" /\ FirstLine(p.recvq) # 0
      /\ d # c /\ all[d] # None
  BY <1>1, <1>2 DEF RecvInv, parse_exit, InQueue, ALine, HasLine
<1>4. Parsing(all, l, at, c, p)
  BY <1>2, <1>3, InParse
<1>5. c \in Clients /\ p # None /\ PeerOK(p) /\ Ended(p.recvq)
  BY <1>3, <1>4, LineEnded DEF Parsing
<1>6. PICK q : q = getmsg(p, price)
  OBVIOUS
<1>7. PeerOK(q) /\ q.have = p.have
  <2>1. Taken(q, p, price)
    BY <1>6 DEF Taken
  <2> QED BY <1>5, <2>1, TakenOK
<1>8. PICK r : r = [all EXCEPT ![c] = q]
  OBVIOUS
<1>9. Put(r, all, c, q)
  BY <1>8 DEF Put
<1>10. all[c] # None /\ q.have = all[c].have
  BY <1>2, <1>5, <1>7
<1>11. QueuesOK(r, l, at)
  BY <1>2, <1>3, <1>5, <1>7, <1>9, <1>10, ChangeOK
<1>12. r[d] = all[d]
  BY <1>3, <1>8
<1>13. PICK r2, k, pd : r2 = [r EXCEPT ![d] = None] /\ k = tag(l, d, all[d].have) /\ pd = r[d]
  OBVIOUS
<1>14. Put(r2, r, d, None) /\ Tagged(k, l, d, pd)
  BY <1>12, <1>13 DEF Put, Tagged
<1>15. QueuesOK(r2, k, at)
  BY <1>2, <1>3, <1>11, <1>12, <1>13, <1>14, EndOK
<1>16. peer' = r2 /\ rlist' = k /\ loop' = at
  BY <1>1, <1>2, <1>6, <1>8, <1>13 DEF parse_exit
<1> QED BY <1>15, <1>16 DEF RecvInv

LEMMA FlushStep ==
  ASSUME RecvInv, loop.at \in {"queue", "packet", "direct"}, flush_buffer(loop.cptr)
  PROVE  RecvInv'
<1>1. PICK all, l, at : all = peer /\ l = rlist /\ at = loop
  OBVIOUS
<1>2. PICK c, p : c = at.cptr /\ p = all[c]
  OBVIOUS
<1>3. QueuesOK(all, l, at) /\ at.at \in {"queue", "packet", "direct"}
  BY <1>1, <1>2 DEF RecvInv
<1>4. Parsing(all, l, at, c, p)
  BY <1>2, <1>3, InParse
<1>5. /\ c \in Clients /\ p # None /\ PeerOK(p) /\ at.pos \in Nat
      /\ at.pos # 0 => at.pos \in 1 .. Len(l) /\ l[at.pos].cptr = c /\ ~ l[at.pos].dead
  BY <1>4 DEF Parsing
<1>6. PICK r, k : r = [all EXCEPT ![c] = None] /\ k = tag(l, c, p.have)
  OBVIOUS
<1>7. Put(r, all, c, None) /\ Tagged(k, l, c, p)
  BY <1>6 DEF Put, Tagged
<1>8. PeersOK(all) /\ Ordered(l) /\ Listed(l) = Havers(all)
  BY <1>3 DEF QueuesOK
<1>9. Havers(r) = Havers(all) \ {c}
  <2>1. PICK q : q = None
    OBVIOUS
  <2>2. Put(r, all, c, q) /\ (q = None \/ PeerOK(q)) /\ PeersOK(all) /\ c \in Clients
    BY <1>5, <1>7, <1>8, <2>1
  <2> QED BY <2>1, <2>2, PutOK, SMTT(30)
<1>10. /\ Ordered(k) /\ Listed(k) = Listed(l) \ {c} /\ Len(k) = Len(l)
       /\ \A i \in 1 .. Len(l) : k[i].cptr = l[i].cptr
  <2>1. p.have \in BOOLEAN
    BY <1>5, PeerFields DEF PeerOK
  <2>2. p.have <=> c \in Listed(l)
    BY <1>2, <1>5, <1>8 DEF Havers
  <2> QED BY <1>5, <1>7, <1>8, <2>1, <2>2, TagOK
<1>11. CASE at.pos = 0
  <2>1. peer' = r /\ rlist' = k /\ loop' = Idle
    BY <1>1, <1>2, <1>6, <1>11 DEF flush_buffer
  <2>2. QueuesOK(r, k, Idle)
    BY <1>2, <1>3, <1>5, <1>7, <1>8, <1>9, <1>10, LeaveOK
  <2> QED BY <2>1, <2>2 DEF RecvInv
<1>12. CASE at.pos # 0
  <2>1. PICK i \in 1 .. Len(k) : i = at.pos
    BY <1>5, <1>10, <1>12
  <2>2. k[i].cptr = c
    BY <1>5, <1>10, <1>12, <2>1
  <2>3. k[i].dead
    BY <1>5, <1>10, <2>2 DEF Listed
  <2>4. PICK m : m = RemoveAt(k, i)
    OBVIOUS
  <2>5. Ordered(m) /\ Listed(m) = Listed(k)
    <3>1. Unlinked(m, k, i)
      BY <2>4 DEF Unlinked
    <3> QED BY <1>10, <2>3, <3>1, UnlinkOK
  <2>6. PICK to : to = Walk(i)
    OBVIOUS
  <2>7. i \in Nat \ {0}
    BY <1>5, <1>12, <2>1
  <2>8. QueuesOK(r, m, to)
    BY <1>2, <1>3, <1>5, <1>7, <1>8, <1>9, <1>10, <2>5, <2>6, <2>7, LeaveOK
  <2>9. peer' = r /\ rlist' = m /\ loop' = to
    BY <1>1, <1>2, <1>6, <1>12, <2>1, <2>4, <2>6 DEF flush_buffer
  <2> QED BY <2>8, <2>9 DEF RecvInv
<1> QED BY <1>11, <1>12

LEMMA ParseQuit ==
  ASSUME RecvInv, parse_quit \/ packet_quit
  PROVE  RecvInv'
BY FlushStep DEF parse_quit, packet_quit, InQueue, InPacket

LEMMA TakeBlock ==
  ASSUME RecvInv, NEW price \in Nat, sbuf_get(price)
  PROVE  RecvInv'
<1>1. PICK all, l, at : all = peer /\ l = rlist /\ at = loop
  OBVIOUS
<1>2. PICK c, p : c = at.cptr /\ p = all[c]
  OBVIOUS
<1>3. QueuesOK(all, l, at) /\ at.at = "queue" /\ Pending(p)
  BY <1>1, <1>2 DEF RecvInv, sbuf_get, InQueue, Serves
<1>4. Parsing(all, l, at, c, p)
  BY <1>2, <1>3, InParse
<1>5. c \in Clients /\ p # None /\ PeerOK(p) /\ at.pos \in Nat
  BY <1>4 DEF Parsing
<1>6. PICK q : q = getblock(p, price)
  OBVIOUS
<1>7. PeerOK(q) /\ q.have = p.have
  <2>1. Blocked(q, p, price)
    BY <1>6 DEF Blocked
  <2> QED BY <1>3, <1>5, <2>1, BlockOK
<1>8. PICK r : r = [all EXCEPT ![c] = q]
  OBVIOUS
<1>9. Put(r, all, c, q) /\ all[c] # None /\ q.have = all[c].have
  BY <1>2, <1>5, <1>7, <1>8 DEF Put
<1>10. QueuesOK(r, l, at)
  BY <1>2, <1>3, <1>5, <1>7, <1>9, ChangeOK
<1>11. PICK i \in Nat : i = at.pos
  BY <1>5
<1>12. PICK to : to = Packet(c, i)
  OBVIOUS
<1>13. /\ r[c] # None
       /\ i # 0 => i \in 1 .. Len(l) /\ l[i].cptr = c /\ ~ l[i].dead
  <2>1. LoopOK(at, l, r)
    BY <1>10 DEF QueuesOK
  <2> QED BY <1>2, <1>3, <1>11, <2>1, AtQueue
<1>14. LoopOK(to, l, r)
  BY <1>5, <1>12, <1>13 DEF LoopOK, Busy
<1>15. WaitsOK(to, r)
  <2>1. to.cptr = c /\ to.at = "packet"
    BY <1>12, LoopFields
  <2> QED BY <1>2, <1>3, <1>10, <2>1 DEF QueuesOK, WaitsOK
<1>16. QueuesOK(r, l, to)
  BY <1>10, <1>14, <1>15 DEF QueuesOK
<1>17. peer' = r /\ rlist' = l /\ loop' = to
  BY <1>1, <1>2, <1>6, <1>8, <1>11, <1>12 DEF sbuf_get
<1> QED BY <1>16, <1>17 DEF RecvInv

LEMMA DkeyStep ==
  ASSUME RecvInv, packet_dkey
  PROVE  RecvInv'
<1>1. PICK all, l, at : all = peer /\ l = rlist /\ at = loop
  OBVIOUS
<1>2. PICK c, p : c = at.cptr /\ p = all[c]
  OBVIOUS
<1>3. QueuesOK(all, l, at) /\ at.at \in {"packet", "direct"}
  BY <1>1 DEF RecvInv, packet_dkey, InPacket
<1>4. Parsing(all, l, at, c, p)
  BY <1>2, <1>3, InParse
<1>5. c \in Clients /\ p # None /\ PeerOK(p) /\ p \in PeerRecs
  BY <1>4 DEF Parsing, PeerOK
<1>6. PICK q : q = [p EXCEPT !.kind = "server"]
  OBVIOUS
<1>7. Alike(q, p) /\ q.have = p.have /\ q.nonl = p.nonl
  BY <1>5, <1>6 DEF Alike, PeerRecs, Kinds
<1>8. PeerOK(q) /\ q.recvq = p.recvq
  <2>1. q.nonl => ~ Ended(q.recvq)
    BY <1>5, <1>7 DEF PeerOK, Alike
  <2> QED BY <1>5, <1>7, <2>1, AlikeOK DEF Alike
<1>9. PICK r : r = [all EXCEPT ![c] = q]
  OBVIOUS
<1>10. Put(r, all, c, q) /\ all[c] # None /\ q.have = all[c].have /\ q.recvq = all[c].recvq
  BY <1>2, <1>5, <1>7, <1>8, <1>9 DEF Put
<1>11. QueuesOK(r, l, at)
  BY <1>3, <1>5, <1>8, <1>10, ChangeOK
<1>12. peer' = r /\ rlist' = l /\ loop' = at
  <2>1. peer' = [all EXCEPT ![c].kind = "server"] /\ rlist' = l /\ loop' = at
    BY <1>1, <1>2 DEF packet_dkey
  <2> QED BY <1>2, <1>6, <1>9, <2>1
<1> QED BY <1>11, <1>12 DEF RecvInv

LEMMA PacketExit ==
  ASSUME RecvInv, NEW d \in Clients, packet_exit(d)
  PROVE  RecvInv'
<1>1. PICK all, l, at, p : all = peer /\ l = rlist /\ at = loop /\ p = peer[d]
  OBVIOUS
<1>2. QueuesOK(all, l, at) /\ at.cptr # d /\ all[d] # None
  BY <1>1 DEF RecvInv, packet_exit
<1>3. PICK r, k : r = [all EXCEPT ![d] = None] /\ k = tag(l, d, p.have)
  OBVIOUS
<1>4. Put(r, all, d, None) /\ Tagged(k, l, d, p)
  BY <1>3 DEF Put, Tagged
<1>5. QueuesOK(r, k, at)
  BY <1>1, <1>2, <1>4, EndOK
<1>6. peer' = r /\ rlist' = k /\ loop' = at
  BY <1>1, <1>3 DEF packet_exit, exit_recv
<1> QED BY <1>5, <1>6 DEF RecvInv

\* What do_client_queue makes of a connection it can do no more for.
Idled(g, p) == g = IF ~ Serves(p) THEN p
                   ELSE IF Len(p.recvq) < MaxLine THEN [p EXCEPT !.nonl = TRUE]
                   ELSE [p EXCEPT !.recvq = <<>>, !.got = Last(p.recvq).n]

LEMMA IdledOK ==
  ASSUME NEW p, PeerOK(p), ~ ALine(p), ~ (Serves(p) /\ p.kind \in Links), NEW g, Idled(g, p)
  PROVE  PeerOK(g) /\ g.have = p.have
<1>1. p \in PeerRecs /\ p.recvq \in Seq(Pieces)
  BY PeerFields DEF PeerOK
<1>2. CASE ~ Serves(p)
  BY <1>2 DEF Idled
<1>3. CASE Serves(p) /\ Len(p.recvq) < MaxLine
  <2>1. g = [p EXCEPT !.nonl = TRUE]
    BY <1>3 DEF Idled
  <2>2. Alike(g, p) /\ g.have = p.have
    BY <1>1, <2>1 DEF Alike, PeerRecs
  <2>3. ~ Ended(p.recvq)
    <3>1. ~ (FirstLine(p.recvq) \in 1 .. Block)
      BY <1>3 DEF ALine, HasLine
    <3>2. Len(p.recvq) \in Nat
      BY <1>1
    <3>3. FirstLine(p.recvq) \notin 1 .. Len(p.recvq)
      BY <1>3, <3>1, <3>2, RecvQueueAssumption
    <3> QED BY <1>1, <3>3, FirstLineOK
  <2>4. g.nonl => ~ Ended(g.recvq)
    BY <2>2, <2>3 DEF Alike
  <2> QED BY <2>2, <2>4, AlikeOK
<1>4. CASE Serves(p) /\ ~ (Len(p.recvq) < MaxLine)
  <2>1. Thrown(g, p)
    BY <1>4 DEF Idled, Thrown
  <2>2. p.recvq # << >>
    BY <1>4 DEF Serves, Pending
  <2> QED BY <2>1, <2>2, ThrownOK
<1> QED BY <1>2, <1>3, <1>4

LEMMA DoneOK ==
  ASSUME RecvInv, loop.at \in {"queue", "packet"}, NEW p, PeerOK(p), p.have = peer[loop.cptr].have,
         queue_done(loop.cptr, p)
  PROVE  RecvInv'
<1>1. PICK all, l, at : all = peer /\ l = rlist /\ at = loop
  OBVIOUS
<1>2. PICK c, p0 : c = at.cptr /\ p0 = all[c]
  OBVIOUS
<1>3. QueuesOK(all, l, at) /\ at.at \in {"queue", "packet", "direct"}
  BY <1>1, <1>2 DEF RecvInv
<1>4. Parsing(all, l, at, c, p0)
  BY <1>2, <1>3, InParse
<1>5. /\ c \in Clients /\ p0 # None /\ PeerOK(p0) /\ at.pos \in Nat
      /\ at.pos # 0 => at.pos \in 1 .. Len(l) /\ l[at.pos].cptr = c /\ ~ l[at.pos].dead
  BY <1>4 DEF Parsing
<1>7. PeerOK(p) /\ p.have = p0.have
  BY <1>1, <1>2
<1>8. queue_done(c, p)
  BY <1>1, <1>2
<1>9. PeersOK(all) /\ Ordered(l) /\ Listed(l) = Havers(all)
  BY <1>3 DEF QueuesOK
<1>10. p.have \in BOOLEAN /\ (p.have <=> c \in Listed(l)) /\ p # None
  <2>1. p.have \in BOOLEAN /\ p # None
    BY <1>7, PeerFields DEF PeerOK
  <2> QED BY <1>2, <1>5, <1>7, <1>9, <2>1 DEF Havers
<1>11. CASE at.pos = 0 /\ p.have
  <2>1. PICK q : q = [p EXCEPT !.have = TRUE]
    OBVIOUS
  <2>2. PeerOK(q) /\ q.have = TRUE
    <3>1. Marked(q, p)
      BY <2>1 DEF Marked
    <3> QED BY <1>7, <3>1, MarkedOK
  <2>3. PICK r : r = [all EXCEPT ![c] = q]
    OBVIOUS
  <2>4. Put(r, all, c, q) /\ q # None
    BY <2>2, <2>3, PeerFields DEF Put, PeerOK
  <2>5. Havers(r) = Listed(l)
    <3>1. Havers(r) = Havers(all) \cup {c}
      BY <1>5, <1>9, <2>2, <2>4, PutOK
    <3> QED BY <1>9, <1>10, <1>11, <3>1
  <2>6. QueuesOK(r, l, Idle)
    BY <1>2, <1>3, <1>5, <1>9, <2>2, <2>4, <2>5, LeaveOK
  <2>7. (p.have \/ (~ p.have /\ Pending(p))) = TRUE
    BY <1>10, <1>11
  <2>8. peer' = r /\ rlist' = l /\ loop' = Idle
    <3>1. peer' = [peer EXCEPT ![c] = [p EXCEPT !.have = p.have \/ (~ p.have /\ Pending(p))]]
      BY <1>1, <1>8, <1>11 DEF queue_done
    <3>2. peer' = r
      BY <1>1, <2>1, <2>3, <2>7, <3>1
    <3> QED BY <1>1, <1>8, <1>11, <3>2 DEF queue_done
  <2> QED BY <2>6, <2>8 DEF RecvInv
<1>12. CASE at.pos = 0 /\ ~ p.have /\ Pending(p)
  <2>1. PICK q : q = [p EXCEPT !.have = TRUE]
    OBVIOUS
  <2>2. PeerOK(q) /\ q.have = TRUE
    <3>1. Marked(q, p)
      BY <2>1 DEF Marked
    <3> QED BY <1>7, <3>1, MarkedOK
  <2>3. PICK r, k : r = [all EXCEPT ![c] = q] /\ k = <<[cptr |-> c, dead |-> FALSE]>> \o l
    OBVIOUS
  <2>4. Put(r, all, c, q) /\ q # None /\ Enlisted(k, l, c)
    BY <2>2, <2>3, PeerFields DEF Put, PeerOK, Enlisted
  <2>5. Havers(r) = Havers(all) \cup {c}
    BY <1>5, <1>9, <2>2, <2>4, PutOK
  <2>6. Ordered(k) /\ Listed(k) = Listed(l) \cup {c}
    BY <1>5, <1>9, <1>10, <1>12, <2>4, EnlistOK
  <2>7. QueuesOK(r, k, Idle)
    BY <1>2, <1>3, <1>5, <1>9, <2>2, <2>4, <2>5, <2>6, LeaveOK
  <2>8. (p.have \/ (~ p.have /\ Pending(p))) = TRUE
    BY <1>10, <1>12
  <2>9. peer' = r /\ rlist' = k /\ loop' = Idle
    <3>1. peer' = [peer EXCEPT ![c] = [p EXCEPT !.have = p.have \/ (~ p.have /\ Pending(p))]]
      BY <1>1, <1>8, <1>12 DEF queue_done
    <3>2. peer' = r
      BY <1>1, <2>1, <2>3, <2>8, <3>1
    <3> QED BY <1>1, <1>8, <1>12, <2>3, <3>2 DEF queue_done
  <2> QED BY <2>7, <2>9 DEF RecvInv
<1>13. CASE at.pos = 0 /\ ~ p.have /\ ~ Pending(p)
  <2>1. PICK q : q = [p EXCEPT !.have = FALSE]
    OBVIOUS
  <2>2. PeerOK(q) /\ q.have = FALSE /\ q.recvq = p.recvq
    <3>1. Unmarked(q, p)
      BY <2>1 DEF Unmarked
    <3> QED BY <1>7, <3>1, UnmarkedOK
  <2>3. PICK r : r = [all EXCEPT ![c] = q]
    OBVIOUS
  <2>4. Put(r, all, c, q) /\ q # None
    BY <2>2, <2>3, PeerFields DEF Put, PeerOK
  <2>5. Havers(r) = Havers(all) \ {c}
    BY <1>5, <1>9, <2>2, <2>4, PutOK
  <2>6. Havers(r) = Listed(l)
    BY <1>9, <1>10, <1>13, <2>5
  <2>7. ~ Ended(q.recvq)
    BY <1>7, <1>13, <2>2, EndedPending
  <2>8. QueuesOK(r, l, Idle)
    BY <1>2, <1>3, <1>5, <1>9, <2>2, <2>4, <2>6, <2>7, LeaveOK
  <2>9. (p.have \/ (~ p.have /\ Pending(p))) = FALSE
    BY <1>10, <1>13
  <2>10. peer' = r /\ rlist' = l /\ loop' = Idle
    <3>1. peer' = [peer EXCEPT ![c] = [p EXCEPT !.have = p.have \/ (~ p.have /\ Pending(p))]]
      BY <1>1, <1>8, <1>13 DEF queue_done
    <3>2. peer' = r
      BY <1>1, <2>1, <2>3, <2>9, <3>1
    <3> QED BY <1>1, <1>8, <1>13, <3>2 DEF queue_done
  <2> QED BY <2>8, <2>10 DEF RecvInv
<1>14. CASE at.pos # 0 /\ Pending(p)
  <2>1. PICK r : r = [all EXCEPT ![c] = p]
    OBVIOUS
  <2>2. Put(r, all, c, p)
    BY <2>1 DEF Put
  <2>3. p.have
    BY <1>5, <1>10, <1>14 DEF Listed
  <2>4. Havers(r) = Listed(l)
    <3>1. p # None
      BY <1>7, PeerFields DEF PeerOK
    <3>2. Havers(r) = Havers(all) \cup {c}
      BY <1>5, <1>7, <1>9, <2>2, <2>3, <3>1, PutOK
    <3>3. c \in Havers(all)
      BY <1>9, <1>10, <2>3
    <3> QED BY <1>9, <3>2, <3>3
  <2>5. PICK i \in Nat \ {0} : i = at.pos + 1
    BY <1>5
  <2>6. PICK to : to = Walk(i)
    OBVIOUS
  <2>7. QueuesOK(r, l, to)
    BY <1>2, <1>3, <1>5, <1>7, <1>9, <2>2, <2>3, <2>4, <2>6, LeaveOK
  <2>8. peer' = r /\ rlist' = l /\ loop' = to
    BY <1>1, <1>8, <1>14, <2>1, <2>5, <2>6 DEF queue_done
  <2> QED BY <2>7, <2>8 DEF RecvInv
<1>15. CASE at.pos # 0 /\ ~ Pending(p)
  <2>1. PICK q : q = [p EXCEPT !.have = FALSE]
    OBVIOUS
  <2>2. PeerOK(q) /\ q.have = FALSE /\ q.recvq = p.recvq
    <3>1. Unmarked(q, p)
      BY <2>1 DEF Unmarked
    <3> QED BY <1>7, <3>1, UnmarkedOK
  <2>3. PICK i \in 1 .. Len(l) : i = at.pos
    BY <1>5, <1>15
  <2>4. PICK r, k : r = [all EXCEPT ![c] = q] /\ k = RemoveAt(l, i)
    OBVIOUS
  <2>5. Put(r, all, c, q) /\ q # None /\ Unlinked(k, l, i)
    BY <2>2, <2>4, PeerFields DEF Put, PeerOK, Unlinked
  <2>6. Havers(r) = Havers(all) \ {c}
    BY <1>5, <1>9, <2>2, <2>5, PutOK
  <2>7. ~ l[i].dead /\ l[i].cptr = c /\ i \in Nat \ {0}
    BY <1>5, <1>15, <2>3
  <2>8. Ordered(k) /\ Listed(k) = Listed(l) \ {c}
    BY <1>9, <2>5, <2>7, UnlinkOK
  <2>9. ~ Ended(q.recvq)
    BY <1>7, <1>15, <2>2, EndedPending
  <2>10. PICK to : to = Walk(i)
    OBVIOUS
  <2>11. QueuesOK(r, k, to)
    BY <1>2, <1>3, <1>5, <1>9, <2>2, <2>5, <2>6, <2>7, <2>8, <2>9, <2>10, LeaveOK
  <2>12. peer' = r /\ rlist' = k /\ loop' = to
    BY <1>1, <1>8, <1>15, <2>1, <2>3, <2>4, <2>10 DEF queue_done
  <2> QED BY <2>11, <2>12 DEF RecvInv
<1> QED BY <1>11, <1>12, <1>13, <1>14, <1>15

LEMMA QueueDone ==
  ASSUME RecvInv, do_client_queue
  PROVE  RecvInv'
<1>1. PICK c, p0 : c = loop.cptr /\ p0 = peer[c]
  OBVIOUS
<1>2. loop.at = "queue" /\ ~ ALine(p0) /\ ~ (Serves(p0) /\ p0.kind \in Links)
  BY <1>1 DEF do_client_queue, InQueue
<1>3. PeerOK(p0)
  <2>1. QueuesOK(peer, rlist, loop)
    BY DEF RecvInv
  <2> QED BY <1>1, <1>2, <2>1, InParse DEF Parsing
<1>4. PICK p : p = IF ~ Serves(p0) THEN p0
                   ELSE IF Len(p0.recvq) < MaxLine THEN [p0 EXCEPT !.nonl = TRUE]
                   ELSE [p0 EXCEPT !.recvq = <<>>, !.got = Last(p0.recvq).n]
  OBVIOUS
<1>5. PeerOK(p) /\ p.have = p0.have
  <2>1. Idled(p, p0)
    BY <1>4 DEF Idled
  <2> QED BY <1>2, <1>3, <2>1, IdledOK
<1>6. queue_done(c, p)
  BY <1>1, <1>4 DEF do_client_queue
<1> QED BY <1>1, <1>2, <1>5, <1>6, DoneOK

LEMMA PacketEnd ==
  ASSUME RecvInv, packet_end
  PROVE  RecvInv'
<1>1. CASE loop.at = "packet"
  <2>1. PICK p : p = peer[loop.cptr]
    OBVIOUS
  <2>2. PeerOK(p)
    <3>1. QueuesOK(peer, rlist, loop)
      BY DEF RecvInv
    <3> QED BY <1>1, <2>1, <3>1, InParse DEF Parsing
  <2>3. queue_done(loop.cptr, p)
    BY <1>1, <2>1 DEF packet_end
  <2> QED BY <1>1, <2>1, <2>2, <2>3, DoneOK
<1>2. CASE loop.at = "direct"
  <2>1. PICK all, l, at : all = peer /\ l = rlist /\ at = loop
    OBVIOUS
  <2>2. QueuesOK(all, l, at) /\ at.at = "direct"
    BY <1>2, <2>1 DEF RecvInv
  <2>3. WaitsOK(Idle, all)
    BY <2>2 DEF QueuesOK, WaitsOK
  <2>4. LoopOK(Idle, l, all)
    BY DEF LoopOK
  <2>5. QueuesOK(all, l, Idle)
    BY <2>2, <2>3, <2>4 DEF QueuesOK
  <2>6. peer' = all /\ rlist' = l /\ loop' = Idle
    BY <1>2, <2>1 DEF packet_end
  <2> QED BY <2>5, <2>6 DEF RecvInv
<1> QED BY <1>1, <1>2 DEF packet_end, InPacket

LEMMA MoveOK ==
  ASSUME NEW all, NEW l, NEW at, QueuesOK(all, l, at), at.cptr = None, NEW k, Ordered(k), Listed(k) = Listed(l),
         NEW to, LoopOK(to, k, all)
  PROVE  QueuesOK(all, k, to)
<1>1. WaitsOK(to, all)
  BY LoopFields DEF QueuesOK, WaitsOK
<1> QED BY <1>1 DEF QueuesOK

LEMMA LinkStep ==
  ASSUME RecvInv, recvqs_link
  PROVE  RecvInv'
<1>1. PICK all, l, at : all = peer /\ l = rlist /\ at = loop
  OBVIOUS
<1>2. QueuesOK(all, l, at) /\ at.at = "walk"
  BY <1>1 DEF RecvInv, recvqs_link
<1>3. PeersOK(all) /\ Ordered(l) /\ Listed(l) = Havers(all) /\ LoopOK(at, l, all)
  BY <1>2 DEF QueuesOK
<1>4. PICK i \in Nat \ {0} : i = at.pos /\ at = Walk(i)
  BY <1>2, <1>3, AtWalk
<1>5. at.cptr = None /\ l \in Seq(LinkRecs)
  BY <1>3, <1>4, LoopFields DEF Ordered
<1>6. CASE i > Len(l)
  <2>1. LoopOK(Idle, l, all)
    BY DEF LoopOK
  <2>2. QueuesOK(all, l, Idle)
    BY <1>2, <1>3, <1>5, <2>1, MoveOK
  <2>3. peer' = all /\ rlist' = l /\ loop' = Idle
    BY <1>1, <1>4, <1>6 DEF recvqs_link
  <2> QED BY <2>2, <2>3 DEF RecvInv
<1>7. CASE ~ (i > Len(l)) /\ l[i].dead
  <2>1. i \in 1 .. Len(l)
    BY <1>5, <1>7
  <2>2. PICK k : k = RemoveAt(l, i)
    OBVIOUS
  <2>3. Unlinked(k, l, i)
    BY <2>2 DEF Unlinked
  <2>4. Ordered(k) /\ Listed(k) = Listed(l)
    BY <1>3, <1>7, <2>1, <2>3, UnlinkOK
  <2>5. LoopOK(at, k, all)
    BY <1>4 DEF LoopOK
  <2>6. QueuesOK(all, k, at)
    BY <1>2, <1>5, <2>4, <2>5, MoveOK
  <2>7. peer' = all /\ rlist' = k /\ loop' = at
    BY <1>1, <1>4, <1>7, <2>2 DEF recvqs_link
  <2> QED BY <2>6, <2>7 DEF RecvInv
<1>8. CASE ~ (i > Len(l)) /\ ~ l[i].dead
  <2>1. i \in 1 .. Len(l)
    BY <1>5, <1>8
  <2>2. PICK c, p : c = l[i].cptr /\ p = all[c]
    OBVIOUS
  <2>3. c \in Clients /\ p # None /\ p.have /\ PeerOK(p)
    BY <1>2, <1>8, <2>1, <2>2, LiveLink
  <2>4. CASE Pending(p)
    <3>1. PICK to : to = Queue(c, i)
      OBVIOUS
    <3>2. LoopOK(to, l, all)
      BY <1>8, <2>1, <2>2, <2>3, <3>1 DEF LoopOK, Busy
    <3>3. QueuesOK(all, l, to)
      BY <1>2, <1>3, <1>5, <3>2, MoveOK
    <3>4. peer' = all /\ rlist' = l /\ loop' = to
      BY <1>1, <1>4, <1>8, <2>2, <2>4, <3>1 DEF recvqs_link
    <3> QED BY <3>3, <3>4 DEF RecvInv
  <2>5. CASE ~ Pending(p)
    <3>1. PICK q : q = [p EXCEPT !.have = FALSE]
      OBVIOUS
    <3>2. PeerOK(q) /\ q.have = FALSE /\ q.recvq = p.recvq
      <4>1. Unmarked(q, p)
        BY <3>1 DEF Unmarked
      <4> QED BY <2>3, <4>1, UnmarkedOK
    <3>3. PICK r, k : r = [all EXCEPT ![c] = q] /\ k = RemoveAt(l, i)
      OBVIOUS
    <3>4. Put(r, all, c, q) /\ q # None /\ Unlinked(k, l, i)
      BY <3>2, <3>3, PeerFields DEF Put, PeerOK, Unlinked
    <3>5. Havers(r) = Havers(all) \ {c}
      BY <1>3, <2>3, <3>2, <3>4, PutOK
    <3>6. Ordered(k) /\ Listed(k) = Listed(l) \ {c}
      BY <1>3, <1>8, <2>1, <2>2, <3>4, UnlinkOK
    <3>7. ~ Ended(q.recvq)
      BY <2>3, <2>5, <3>2, EndedPending
    <3>8. QueuesOK(r, k, at)
      BY <1>2, <1>3, <1>4, <1>5, <2>3, <3>2, <3>4, <3>5, <3>6, <3>7, LeaveOK
    <3>9. peer' = r /\ rlist' = k /\ loop' = at
      BY <1>1, <1>4, <1>8, <2>2, <2>5, <3>1, <3>3 DEF recvqs_link
    <3> QED BY <3>8, <3>9 DEF RecvInv
  <2> QED BY <2>4, <2>5
<1> QED BY <1>6, <1>7, <1>8

LEMMA WalkStep ==
  ASSUME RecvInv, do_recvqs
  PROVE  RecvInv'
<1>1. PICK all, l, to : all = peer /\ l = rlist /\ to = Walk(1)
  OBVIOUS
<1>2. QueuesOK(all, l, Idle) /\ peer' = all /\ rlist' = l /\ loop' = to
  BY <1>1 DEF RecvInv, do_recvqs
<1>3. LoopOK(to, l, all)
  BY <1>1 DEF LoopOK
<1>4. Idle.cptr = None /\ Ordered(l)
  BY <1>2, LoopFields DEF QueuesOK
<1>5. QueuesOK(all, l, to)
  BY <1>2, <1>3, <1>4, MoveOK
<1> QED BY <1>2, <1>5 DEF RecvInv

LEMMA SecondRecv ==
  ASSUME RecvInv, second
  PROVE  RecvInv'
<1>1. PICK all, l, r : all = peer /\ l = rlist /\ r = peer'
  OBVIOUS
<1>2. QueuesOK(all, l, Idle) /\ rlist' = l /\ loop' = Idle
  BY <1>1 DEF RecvInv, second
<1>3. PeersOK(all) /\ Ordered(l) /\ Listed(l) = Havers(all) /\ WaitsOK(Idle, all)
  BY <1>2 DEF QueuesOK
<1>4. r = [c \in Clients |-> IF all[c] = None THEN None
                             ELSE [all[c] EXCEPT !.lag = IF @ > 0 THEN @ - 1 ELSE 0]]
  BY <1>1 DEF second
<1>5. ASSUME NEW c \in Clients
      PROVE  \/ all[c] = None /\ r[c] = None
             \/ /\ all[c] # None /\ r[c] # None /\ PeerOK(r[c])
                /\ r[c].have = all[c].have /\ r[c].recvq = all[c].recvq
  <2>1. CASE all[c] = None
    BY <1>4, <2>1
  <2>2. CASE all[c] # None
    <3>1. PICK p : p = all[c]
      OBVIOUS
    <3>2. PeerOK(p) /\ p \in PeerRecs
      BY <1>3, <2>2, <3>1 DEF PeersOK, PeerOK
    <3>3. p.lag \in Nat
      BY <3>2, PeerFields
    <3>4. PICK n \in Nat : n = IF p.lag > 0 THEN p.lag - 1 ELSE 0
      BY <3>3
    <3>5. PICK g : g = [p EXCEPT !.lag = n]
      OBVIOUS
    <3>6. r[c] = g
      BY <1>4, <2>2, <3>1, <3>4, <3>5
    <3>7. Alike(g, p) /\ g.have = p.have /\ g.nonl = p.nonl
      BY <3>2, <3>5 DEF Alike, PeerRecs
    <3>8. g.nonl => ~ Ended(g.recvq)
      BY <3>2, <3>7 DEF PeerOK, Alike
    <3>9. PeerOK(g)
      BY <3>2, <3>7, <3>8, AlikeOK
    <3>10. g # None
      BY <3>9, PeerFields DEF PeerOK
    <3> QED BY <2>2, <3>1, <3>6, <3>7, <3>9, <3>10 DEF Alike
  <2> QED BY <2>1, <2>2
<1>6. PeersOK(r)
  BY <1>4, <1>5 DEF PeersOK
<1>7. Havers(r) = Havers(all)
  BY <1>5 DEF Havers
<1>8. WaitsOK(Idle, r)
  BY <1>3, <1>5 DEF WaitsOK
<1>9. LoopOK(Idle, l, r)
  BY DEF LoopOK
<1>10. QueuesOK(r, l, Idle)
  BY <1>3, <1>6, <1>7, <1>8, <1>9 DEF QueuesOK
<1> QED BY <1>1, <1>2, <1>10 DEF RecvInv

LEMMA RecvStep ==
  ASSUME RecvInv, [RecvNext]_recvVars
  PROVE  RecvInv'
<1>1. Cost \in Nat
  BY RecvQueueAssumption
<1>2. ASSUME InLoop PROVE RecvInv'
  <2>1. ASSUME NEW price \in {0, Cost}, NEW kind \in Kinds, parse_line(price, kind)
        PROVE  RecvInv'
    <3>1. price \in Nat
      BY <1>1
    <3> QED BY <2>1, <3>1, ParseLine
  <2>2. ASSUME NEW price \in {0, Cost}, NEW d \in Clients, parse_exit(price, d) PROVE RecvInv'
    <3>1. price \in Nat
      BY <1>1
    <3> QED BY <2>2, <3>1, ParseExit
  <2>3. ASSUME NEW price \in {0, Cost}, sbuf_get(price) PROVE RecvInv'
    <3>1. price \in Nat
      BY <1>1
    <3> QED BY <2>3, <3>1, TakeBlock
  <2> QED BY <1>2, <2>1, <2>2, <2>3, ParseQuit, QueueDone, LinkStep, DkeyStep, PacketExit, PacketEnd
          DEF InLoop
<1>3. ASSUME NEW c \in Clients, hang_up(c) PROVE RecvInv'
  BY <1>3, ExitStep DEF hang_up
<1>4. ASSUME NEW c \in Clients, Reads(c) PROVE RecvInv'
  <2>1. ASSUME NEW k, NEW price \in {0, Cost}, read_server(c, k, price) PROVE RecvInv'
    <3>1. price \in Nat
      BY <1>1
    <3> QED BY <2>1, <3>1, ReadServer
  <2> QED BY <1>4, <2>1, ReadRecv DEF Reads
<1>5. ASSUME NEW c \in Clients, NEW eol \in BOOLEAN, transmit(c, eol) PROVE RecvInv'
  <2>1. PeerOK(peer[c])
    BY <1>5 DEF transmit, RecvInv, QueuesOK, PeersOK
  <2>2. PICK z \in Nat : z = peer[c].sent
    BY <2>1, PeerFields DEF PeerOK
  <2>3. PICK x : x = [n |-> z + 1, eol |-> eol]
    OBVIOUS
  <2>4. x \in Pieces /\ x.n = peer[c].sent + 1 /\ x.eol = eol
    BY <2>2, <2>3 DEF Pieces
  <2>5. transmit(c, x.eol)
    BY <1>5, <2>4
  <2> QED BY <2>4, <2>5, TransmitRecv
<1>6. ASSUME UNCHANGED recvVars PROVE RecvInv'
  BY <1>6 DEF recvVars, RecvInv
<1> QED BY <1>2, <1>3, <1>4, <1>5, <1>6, AcceptRecv, WalkStep, SecondRecv DEF RecvNext

\* Lines of clients: whoever exits while do_recvqs walks its list, whoever gets a structure
\* again and however the data is split, the list has exactly the clients that wait, no line
\* that is there is overlooked, and lines are parsed in the order they were sent, each from its
\* first piece on and to its last if it fits into cptr->buffer; except for a server whose queue
\* was not empty when it was read (read_packet, do_client_queue, client_dopacket, do_recvqs,
\* exit_client).
THEOREM LinesAlwaysRight == RecvSpec => []RecvqRight
<1>1. RecvInit => RecvInv
  <2>1. SUFFICES ASSUME RecvInit PROVE RecvInv
    OBVIOUS
  <2>2. peer = [c \in Clients |-> None] /\ rlist = << >> /\ loop = Idle
    BY <2>1 DEF RecvInit
  <2>3. Havers(peer) = {} /\ Listed(rlist) = {}
    BY <2>2 DEF Havers, Listed
  <2>4. PeersOK(peer) /\ Ordered(rlist) /\ LoopOK(loop, rlist, peer) /\ WaitsOK(loop, peer)
    BY <2>2 DEF PeersOK, Ordered, LoopOK, WaitsOK
  <2> QED BY <2>3, <2>4 DEF RecvInv, QueuesOK
<1>2. RecvInv => RecvqRight
  <2>1. SUFFICES ASSUME RecvInv, NEW c \in Clients
                 PROVE  /\ Cardinality({i \in DOMAIN rlist : rlist[i].cptr = c /\ ~ rlist[i].dead})
                             = IF peer[c] # None /\ peer[c].have THEN 1 ELSE 0
                        /\ peer[c] # None =>
                             /\ peer[c].whole \/ peer[c].late
                             /\ loop.cptr # c /\ FirstLine(peer[c].recvq) # 0 => peer[c].have /\ ~ peer[c].nonl
    BY DEF RecvqRight, RecvqList
  <2>2. PICK l, all : l = rlist /\ all = peer
    OBVIOUS
  <2>3. PeersOK(all) /\ Ordered(l) /\ Listed(l) = Havers(all) /\ WaitsOK(loop, all)
    BY <2>1, <2>2 DEF RecvInv, QueuesOK
  <2>4. l \in Seq(LinkRecs) /\ DOMAIN l = 1 .. Len(l) /\ Len(l) \in Nat
    BY <2>3 DEF Ordered
  <2>5. PICK S : S = {i \in DOMAIN l : l[i].cptr = c /\ ~ l[i].dead}
    OBVIOUS
  <2>6. CASE c \in Listed(l)
    <3>1. PICK k \in 1 .. Len(l) : l[k].cptr = c /\ ~ l[k].dead
      BY <2>6 DEF Listed
    <3>2. ASSUME NEW j \in S PROVE j = k
      <4>1. j \in 1 .. Len(l) /\ l[j].cptr = c /\ ~ l[j].dead
        BY <2>4, <2>5
      <4>2. ~ (j < k) /\ ~ (k < j)
        BY <2>3, <3>1, <4>1 DEF Ordered
      <4> QED BY <2>4, <4>1, <4>2
    <3>3. S = {k}
      BY <2>4, <2>5, <3>1, <3>2
    <3>4. Cardinality(S) = 1
      BY <3>3, FS_Singleton
    <3>5. all[c] # None /\ all[c].have
      BY <2>3, <2>6 DEF Havers
    <3>6. Cardinality({i \in DOMAIN rlist : rlist[i].cptr = c /\ ~ rlist[i].dead})
            = IF peer[c] # None /\ peer[c].have THEN 1 ELSE 0
      BY <2>2, <2>5, <3>4, <3>5
    <3>7. all[c] # None => /\ all[c].whole \/ all[c].late
                           /\ FirstLine(all[c].recvq) # 0 => ~ all[c].nonl
      BY <2>3, LineEnded, PeerFields DEF PeersOK, PeerOK, Numbered
    <3> QED BY <2>2, <3>5, <3>6, <3>7
  <2>7. CASE c \notin Listed(l)
    <3>1. S = {}
      BY <2>4, <2>5, <2>7 DEF Listed
    <3>2. Cardinality(S) = 0
      BY <3>1, FS_EmptySet
    <3>3. ~ (all[c] # None /\ all[c].have)
      BY <2>3, <2>7 DEF Havers
    <3>4. Cardinality({i \in DOMAIN rlist : rlist[i].cptr = c /\ ~ rlist[i].dead})
            = IF peer[c] # None /\ peer[c].have THEN 1 ELSE 0
      BY <2>2, <2>5, <3>2, <3>3
    <3>5. all[c] # None => /\ all[c].whole \/ all[c].late
                           /\ FirstLine(all[c].recvq) # 0 => Ended(all[c].recvq)
      BY <2>3, LineEnded, PeerFields DEF PeersOK, PeerOK, Numbered
    <3>6. all[c] # None /\ loop.cptr # c => ~ Ended(all[c].recvq)
      BY <2>3, <3>3 DEF WaitsOK
    <3> QED BY <2>2, <3>4, <3>5, <3>6
  <2> QED BY <2>6, <2>7
<1> QED BY <1>1, <1>2, RecvStep, PTL DEF RecvSpec

----------------------------------------------------------------------------
(* Send queues (src/src/sbuf.c, src/src/send.c).                         *)

\* What data is made of.
Units == STRING \cup {"note", "all"}

\* A user of a buffer, and a buffer.
Uses == [buf : Nat, start : Nat]
SBuffers == [data : Seq(Units), size : Nat, refs : Nat]
\* The fields of the memory.
Shape(q) == q = [bufs |-> q.bufs, shares |-> q.shares, queue |-> q.queue,
                 dead |-> q.dead, want |-> q.want, mixed |-> q.mixed]

\* Whose queues use buffer b.
UsersOf(q, b) == {c \in Peers : \E i \in 1 .. Len(q.queue[c]) : q.queue[c][i].buf = b}

\* The types.
MemTyped(q) ==
  /\ Shape(q)
  /\ q.bufs \in [InUse(q) -> SBuffers]
  /\ q.shares \subseteq InUse(q) /\ InUse(q) \subseteq Nat /\ IsFiniteSet(InUse(q))
  /\ q.queue \in [Peers -> Seq(Uses)]
  /\ q.want \in [Peers -> Seq(Units)]
  /\ q.dead \subseteq Peers /\ q.mixed \subseteq Peers

\* What set_buf leaves.
SameBut(q, r) ==
  /\ Shape(r) /\ r.shares = q.shares /\ r.dead = q.dead /\ r.mixed = q.mixed

\* What set_buf changes.
LEMMA SetBuf ==
  ASSUME NEW q, MemTyped(q), NEW b \in InUse(q), NEW x \in SBuffers
  PROVE  LET r == set_buf(q, b, x)
         IN /\ SameBut(q, r) /\ r.queue = q.queue /\ r.want = q.want
            /\ InUse(r) = InUse(q) /\ r.bufs \in [InUse(q) -> SBuffers] /\ r.bufs[b] = x
            /\ \A a \in InUse(q) \ {b} : r.bufs[a] = q.bufs[a]
<1>2. q.bufs \in [InUse(q) -> SBuffers]
  BY DEF MemTyped
<1>5. PICK g : g = [q.bufs EXCEPT ![b] = x]
  OBVIOUS
<1>6. PICK r : r = [q EXCEPT !.bufs = g]
  OBVIOUS
<1>8. /\ Shape(r) /\ r.queue = q.queue /\ r.shares = q.shares
      /\ r.want = q.want /\ r.dead = q.dead /\ r.mixed = q.mixed /\ r.bufs = g
  BY <1>6 DEF MemTyped, Shape
<1>9. /\ g \in [InUse(q) -> SBuffers] /\ g[b] = x
      /\ \A a \in InUse(q) \ {b} : g[a] = q.bufs[a]
  BY <1>2, <1>5
<1>7. set_buf(q, b, x) = r
  BY <1>5, <1>6 DEF set_buf
<1> QED BY <1>7, <1>8, <1>9 DEF InUse, SameBut

\* What set_queue changes.
LEMMA SetQueue ==
  ASSUME NEW q, MemTyped(q), NEW c \in Peers, NEW us \in Seq(Uses)
  PROVE  LET r == set_queue(q, c, us)
         IN /\ SameBut(q, r) /\ r.bufs = q.bufs /\ r.want = q.want
            /\ r.queue \in [Peers -> Seq(Uses)] /\ r.queue[c] = us
            /\ \A d \in Peers \ {c} : r.queue[d] = q.queue[d]
<1>2. q.queue \in [Peers -> Seq(Uses)]
  BY DEF MemTyped
<1>5. PICK g : g = [q.queue EXCEPT ![c] = us]
  OBVIOUS
<1>6. PICK r : r = [q EXCEPT !.queue = g]
  OBVIOUS
<1>8. /\ Shape(r) /\ r.bufs = q.bufs /\ r.shares = q.shares
      /\ r.want = q.want /\ r.dead = q.dead /\ r.mixed = q.mixed /\ r.queue = g
  BY <1>6 DEF MemTyped, Shape
<1>9. /\ g \in [Peers -> Seq(Uses)] /\ g[c] = us
      /\ \A d \in Peers \ {c} : g[d] = q.queue[d]
  BY <1>2, <1>5
<1>7. set_queue(q, c, us) = r
  BY <1>5, <1>6 DEF set_queue
<1> QED BY <1>7, <1>8, <1>9 DEF SameBut

\* What set_want changes.
LEMMA SetWant ==
  ASSUME NEW q, MemTyped(q), NEW c \in Peers, NEW w \in Seq(Units)
  PROVE  LET r == set_want(q, c, w)
         IN /\ SameBut(q, r) /\ r.bufs = q.bufs /\ r.queue = q.queue
            /\ r.want \in [Peers -> Seq(Units)] /\ r.want[c] = w
            /\ \A d \in Peers \ {c} : r.want[d] = q.want[d]
<1>2. q.want \in [Peers -> Seq(Units)]
  BY DEF MemTyped
<1>5. PICK g : g = [q.want EXCEPT ![c] = w]
  OBVIOUS
<1>6. PICK r : r = [q EXCEPT !.want = g]
  OBVIOUS
<1>8. /\ Shape(r) /\ r.bufs = q.bufs /\ r.shares = q.shares
      /\ r.queue = q.queue /\ r.dead = q.dead /\ r.mixed = q.mixed /\ r.want = g
  BY <1>6 DEF MemTyped, Shape
<1>9. /\ g \in [Peers -> Seq(Units)] /\ g[c] = w
      /\ \A d \in Peers \ {c} : g[d] = q.want[d]
  BY <1>2, <1>5
<1>7. set_want(q, c, w) = r
  BY <1>5, <1>6 DEF set_want
<1> QED BY <1>7, <1>8, <1>9 DEF SameBut

\* sbuf_alloc finds a buffer that is free.
LEMMA AllocFresh ==
  ASSUME NEW q, IsFiniteSet(InUse(q))
  PROVE  sbuf_alloc(q) \in Nat \ InUse(q)
<1> DEFINE n == Cardinality(InUse(q))
<1>1. n \in Nat
  BY FS_CardinalityType
<1>2. \E b \in 1 .. n + 1 : b \notin InUse(q)
  <2>1. SUFFICES ASSUME 1 .. n + 1 \subseteq InUse(q) PROVE FALSE
    OBVIOUS
  <2>2. Cardinality(1 .. n + 1) <= n
    BY <2>1, FS_Subset
  <2>3. PICK m \in Int : m = n + 1
    BY <1>1
  <2>4. Cardinality(1 .. m) = IF 1 > m THEN 0 ELSE m - 1 + 1
    BY FS_Interval
  <2> QED BY <1>1, <2>2, <2>3, <2>4
<1>3. sbuf_alloc(q) \in 1 .. n + 1 /\ sbuf_alloc(q) \notin InUse(q)
  BY <1>2 DEF sbuf_alloc
<1> QED BY <1>1, <1>3

\* A new buffer beside the others.
LEMMA WithBuf ==
  ASSUME NEW q, MemTyped(q), NEW data \in Seq(Units), NEW f \in Nat
  PROVE  LET r == with_buf(q, data, f)
             b == sbuf_alloc(q)
         IN /\ SameBut(q, r) /\ r.queue = q.queue /\ r.want = q.want
            /\ InUse(r) = InUse(q) \cup {b} /\ r.bufs \in [InUse(r) -> SBuffers]
            /\ IsFiniteSet(InUse(r))
            /\ r.bufs[b] = [data |-> data, size |-> bufsize(Len(data)), refs |-> f]
            /\ \A a \in InUse(q) : r.bufs[a] = q.bufs[a]
<1>1. PICK b : b = sbuf_alloc(q)
  OBVIOUS
<1>2. b \in Nat /\ b \notin InUse(q)
  BY <1>1, AllocFresh DEF MemTyped
<1>3. PICK x : x = [data |-> data, size |-> bufsize(Len(data)), refs |-> f]
  OBVIOUS
<1>4. x \in SBuffers
  BY <1>3, SendAssumption DEF SBuffers, bufsize
<1>5. PICK g : g = [a \in InUse(q) \cup {b} |-> IF a = b THEN x ELSE q.bufs[a]]
  OBVIOUS
<1>6. PICK r : r = [q EXCEPT !.bufs = g]
  OBVIOUS
<1>7. with_buf(q, data, f) = r
  BY <1>1, <1>3, <1>5, <1>6 DEF with_buf
<1>8. /\ Shape(r) /\ r.queue = q.queue /\ r.shares = q.shares
      /\ r.want = q.want /\ r.dead = q.dead /\ r.mixed = q.mixed /\ r.bufs = g
  BY <1>6 DEF MemTyped, Shape
<1>9. q.bufs \in [InUse(q) -> SBuffers] /\ IsFiniteSet(InUse(q))
  BY DEF MemTyped
<1>10. g \in [InUse(q) \cup {b} -> SBuffers] /\ g[b] = x /\ \A a \in InUse(q) : g[a] = q.bufs[a]
  BY <1>2, <1>4, <1>5, <1>9
<1>11. IsFiniteSet(InUse(q) \cup {b})
  BY <1>9, FS_AddElement
<1>12. InUse(r) = InUse(q) \cup {b}
  BY <1>8, <1>10 DEF InUse
<1> QED BY <1>1, <1>3, <1>7, <1>8, <1>10, <1>11, <1>12 DEF SameBut

\* One buffer less.
LEMMA FreeBuf ==
  ASSUME NEW q, MemTyped(q), NEW b \in InUse(q)
  PROVE  LET r == sbuf_free(q, b)
         IN /\ SameBut(q, r) /\ r.queue = q.queue /\ r.want = q.want
            /\ InUse(r) = InUse(q) \ {b} /\ r.bufs \in [InUse(r) -> SBuffers]
            /\ IsFiniteSet(InUse(r))
            /\ \A a \in InUse(q) \ {b} : r.bufs[a] = q.bufs[a]
<1>5. PICK g : g = [a \in InUse(q) \ {b} |-> q.bufs[a]]
  OBVIOUS
<1>6. PICK r : r = [q EXCEPT !.bufs = g]
  OBVIOUS
<1>7. sbuf_free(q, b) = r
  BY <1>5, <1>6 DEF sbuf_free
<1>8. /\ Shape(r) /\ r.queue = q.queue /\ r.shares = q.shares
      /\ r.want = q.want /\ r.dead = q.dead /\ r.mixed = q.mixed /\ r.bufs = g
  BY <1>6 DEF MemTyped, Shape
<1>9. q.bufs \in [InUse(q) -> SBuffers] /\ IsFiniteSet(InUse(q))
  BY DEF MemTyped
<1>10. g \in [InUse(q) \ {b} -> SBuffers] /\ \A a \in InUse(q) \ {b} : g[a] = q.bufs[a]
  BY <1>5, <1>9
<1>11. IsFiniteSet(InUse(q) \ {b})
  BY <1>9, FS_Subset
<1>12. InUse(r) = InUse(q) \ {b}
  BY <1>8, <1>10 DEF InUse
<1> QED BY <1>7, <1>8, <1>10, <1>11, <1>12 DEF SameBut

\* c's queue uses buffer b.
UsesBuf(q, c, b) == \E i \in 1 .. Len(q.queue[c]) : q.queue[c][i].buf = b

\* Data fits its buffer and is not empty.
Fits(q) == \A b \in InUse(q) : /\ q.bufs[b].data # << >> /\ Len(q.bufs[b].data) <= q.bufs[b].size
                               /\ q.bufs[b].size <= LargeBuf

\* A user of a buffer has something left in it.
UseOK(q, u) == u.buf \in InUse(q) /\ u.start < Len(q.bufs[u.buf].data)
UsesOK(q) == \A c \in Peers : \A i \in 1 .. Len(q.queue[c]) : UseOK(q, q.queue[c][i])

\* No queue uses a buffer twice.
Once(us) == \A i, j \in 1 .. Len(us) : us[i].buf = us[j].buf => i = j
OnceEach(q) == \A c \in Peers : Once(q.queue[c])

\* The count of a buffer.
Counted(q, b) == q.bufs[b].refs = Cardinality(UsersOf(q, b)) /\ (q.bufs[b].refs > 0 \/ b \in q.shares)
Counts(q) == \A b \in InUse(q) : Counted(q, b)

\* The queues and the buffers they use.
BufsOK(q) == MemTyped(q) /\ Fits(q) /\ UsesOK(q) /\ OnceEach(q) /\ Counts(q)

\* The parts of c's queue.
Rests(q, c) == [i \in DOMAIN q.queue[c] |-> Rest(q, q.queue[c][i])]

----------------------------------------------------------------------------
\* A buffer has finitely many users.
LEMMA UsersFinite ==
  ASSUME NEW q, NEW b
  PROVE  IsFiniteSet(UsersOf(q, b)) /\ Cardinality(UsersOf(q, b)) \in Nat
<1>1. IsFiniteSet(Peers)
  BY SendAssumption, FS_AddElement DEF Peers
<1>2. UsersOf(q, b) \subseteq Peers
  BY DEF UsersOf
<1> QED BY <1>1, <1>2, FS_Subset, FS_CardinalityType

\* The users of a buffer, one by one.
LEMMA UsersAre ==
  ASSUME NEW q, NEW b, NEW c \in Peers
  PROVE  c \in UsersOf(q, b) <=> UsesBuf(q, c, b)
BY DEF UsersOf, UsesBuf

\* What is left of a buffer.
LEMMA RestIs ==
  ASSUME NEW q, MemTyped(q), NEW u \in Uses, UseOK(q, u)
  PROVE  /\ Rest(q, u) \in Seq(Units) /\ Rest(q, u) # << >>
         /\ Len(Rest(q, u)) = Len(q.bufs[u.buf].data) - u.start
         /\ \A i \in 1 .. Len(Rest(q, u)) : Rest(q, u)[i] = q.bufs[u.buf].data[u.start + i]
<1>1. PICK d : d = q.bufs[u.buf].data
  OBVIOUS
<1>2. PICK s : s = u.start
  OBVIOUS
<1>3. d \in Seq(Units) /\ s \in Nat /\ s < Len(d)
  BY <1>1, <1>2 DEF UseOK, MemTyped, SBuffers, Uses
<1>4. PICK r : r = SubSeq(d, s + 1, Len(d))
  OBVIOUS
<1>5. /\ r \in Seq(Units) /\ Len(r) = Len(d) - s
      /\ \A i \in 1 .. Len(r) : r[i] = d[s + i]
  BY <1>3, <1>4
<1>6. r # << >>
  BY <1>3, <1>5
<1>7. Rest(q, u) = r
  BY <1>1, <1>2, <1>4 DEF Rest
<1> QED BY <1>1, <1>2, <1>5, <1>6, <1>7

\* The parts a queue is made of.
LEMMA RestsAre ==
  ASSUME NEW q, MemTyped(q), UsesOK(q), NEW c \in Peers
  PROVE  /\ Rests(q, c) \in Seq(Seq(Units)) /\ Len(Rests(q, c)) = Len(q.queue[c])
         /\ \A i \in 1 .. Len(q.queue[c]) : /\ Rests(q, c)[i] = Rest(q, q.queue[c][i])
                                            /\ Rest(q, q.queue[c][i]) \in Seq(Units)
                                            /\ Rest(q, q.queue[c][i]) # << >>
         /\ Content(q, c) = FlattenSeq(Rests(q, c)) /\ Content(q, c) \in Seq(Units)
<1>1. PICK us \in Seq(Uses) : us = q.queue[c]
  BY DEF MemTyped
<1>2. Len(us) \in Nat /\ DOMAIN us = 1 .. Len(us)
  OBVIOUS
<1>3. ASSUME NEW i \in 1 .. Len(us) PROVE Rest(q, us[i]) \in Seq(Units) /\ Rest(q, us[i]) # << >>
  <2>1. PICK u \in Uses : u = us[i]
    BY <1>2
  <2>2. UseOK(q, u)
    BY <1>1, <2>1 DEF UsesOK
  <2> QED BY <2>1, <2>2, RestIs
<1>4. PICK rs : rs = [i \in 1 .. Len(us) |-> Rest(q, us[i])]
  OBVIOUS
<1>5. /\ rs \in Seq(Seq(Units)) /\ Len(rs) = Len(us)
      /\ \A i \in 1 .. Len(us) : rs[i] = Rest(q, us[i])
  <2>1. rs \in [1 .. Len(us) -> Seq(Units)]
    BY <1>3, <1>4
  <2>2. rs \in Seq(Seq(Units)) /\ Len(rs) = Len(us)
    BY <1>2, <2>1
  <2> QED BY <1>4, <2>2
<1>6. Rests(q, c) = rs
  BY <1>1, <1>2, <1>4 DEF Rests
<1>7. Content(q, c) = FlattenSeq(rs)
  BY <1>1, <1>2, <1>4 DEF Content
<1>8. FlattenSeq(rs) \in Seq(Units)
  <2>1. PICK F : FlattenSeq(rs) = F[Len(rs)] /\ Flats(rs, F)
    BY <1>5, FlatWalk
  <2> QED BY <1>5, <2>1, FlatUnique
<1> QED BY <1>1, <1>3, <1>5, <1>6, <1>7, <1>8

\* Only the buffers that a queue uses matter for its content.
LEMMA SameContent ==
  ASSUME NEW q, NEW r, MemTyped(q), NEW c \in Peers, r.queue[c] = q.queue[c],
         \A i \in 1 .. Len(q.queue[c]) : r.bufs[q.queue[c][i].buf].data = q.bufs[q.queue[c][i].buf].data
  PROVE  Content(r, c) = Content(q, c)
<1>1. PICK us \in Seq(Uses) : us = q.queue[c]
  BY SMTT(30) DEF MemTyped
<1>2. \A i \in 1 .. Len(us) : Rest(r, us[i]) = Rest(q, us[i])
  BY <1>1 DEF Rest
<1>3. [i \in 1 .. Len(us) |-> Rest(r, us[i])] = [i \in 1 .. Len(us) |-> Rest(q, us[i])]
  BY <1>2
<1>4. DOMAIN us = 1 .. Len(us)
  OBVIOUS
<1> QED BY <1>1, <1>3, <1>4 DEF Content

\* A buffer with one user has no other.
LEMMA OnlyUser ==
  ASSUME NEW q, BufsOK(q), NEW c \in Peers, NEW b \in InUse(q), UsesBuf(q, c, b), q.bufs[b].refs <= 1
  PROVE  \A d \in Peers \ {c} : ~ UsesBuf(q, d, b)
<1> SUFFICES ASSUME NEW d \in Peers \ {c}, UsesBuf(q, d, b) PROVE FALSE
  OBVIOUS
<1>1. {c, d} \subseteq UsersOf(q, b) /\ IsFiniteSet(UsersOf(q, b)) /\ Cardinality(UsersOf(q, b)) \in Nat
  BY UsersAre, UsersFinite
<1>2. Cardinality(UsersOf(q, b)) <= 1
  BY DEF BufsOK, Counts, Counted
<1>3. IsFiniteSet({c}) /\ Cardinality({c}) = 1
  BY FS_Singleton
<1>4. Cardinality({c} \cup {d}) = 2
  BY <1>3, FS_AddElement, SMTT(30)
<1>5. {c, d} = {c} \cup {d}
  OBVIOUS
<1>6. Cardinality({c, d}) <= Cardinality(UsersOf(q, b))
  BY <1>1, FS_Subset
<1> QED BY <1>1, <1>2, <1>4, <1>5, <1>6

\* What an operation on the queue of c leaves alone.
Apart(q, r, c) ==
  /\ r.shares = q.shares /\ r.dead = q.dead /\ r.mixed = q.mixed
  /\ \A d \in Peers \ {c} : Content(r, d) = Content(q, d) /\ r.queue[d] = q.queue[d]

\* c's queue has no new user of a shared buffer.
Fewer(q, r, c) == \A b \in q.shares : UsesBuf(r, c, b) => UsesBuf(q, c, b)

\* Data is appended to the last buffer of a queue that is its only user.
LEMMA Grown ==
  ASSUME NEW q, BufsOK(q), NEW c \in Peers, q.queue[c] # << >>, NEW b, b = Last(q.queue[c]).buf,
         q.bufs[b].refs <= 1, NEW data \in Seq(Units),
         Len(q.bufs[b].data) + Len(data) <= q.bufs[b].size
  PROVE  LET r == grow(q, b, data)
         IN  BufsOK(r) /\ Apart(q, r, c) /\ Fewer(q, r, c) /\ r.want = q.want /\ Content(r, c) = Content(q, c) \o data
             /\ r.queue = q.queue
<1>1. PICK us \in Seq(Uses) : us = q.queue[c]
  BY DEF BufsOK, MemTyped
<1>2. PICK n \in Nat : n = Len(us) /\ n > 0
  BY <1>1
<1>3. b = us[n].buf /\ n \in 1 .. Len(us)
  BY <1>1, <1>2 DEF Last
<1>4. UsesBuf(q, c, b)
  BY <1>1, <1>3 DEF UsesBuf
<1>5. b \in InUse(q) /\ us[n].start < Len(q.bufs[b].data)
  BY <1>1, <1>3 DEF BufsOK, UsesOK, UseOK
<1>6. \A d \in Peers \ {c} : ~ UsesBuf(q, d, b)
  BY <1>4, <1>5, OnlyUser
<1>7. PICK d \in Seq(Units) : d = q.bufs[b].data
  BY <1>5 DEF BufsOK, MemTyped, SBuffers
<1>8. PICK e \in Seq(Units) : e = d \o data /\ Len(e) = Len(d) + Len(data)
  BY <1>7, ConcatProperties, ZenonT(40)
<1>9. PICK x : x = [q.bufs[b] EXCEPT !.data = e]
  OBVIOUS
<1>10. x \in SBuffers /\ x.data = e /\ x.size = q.bufs[b].size /\ x.refs = q.bufs[b].refs
  BY <1>5, <1>9 DEF BufsOK, MemTyped, SBuffers
<1>11. PICK r : r = set_buf(q, b, x)
  OBVIOUS
<1>12. grow(q, b, data) = r
  BY <1>7, <1>8, <1>9, <1>11 DEF grow
<1>13. MemTyped(q)
  BY DEF BufsOK
<1>14. /\ SameBut(q, r) /\ r.queue = q.queue /\ r.want = q.want
       /\ InUse(r) = InUse(q) /\ r.bufs \in [InUse(q) -> SBuffers] /\ r.bufs[b] = x
       /\ \A a \in InUse(q) \ {b} : r.bufs[a] = q.bufs[a]
  BY <1>5, <1>10, <1>11, <1>13, SetBuf
<1>15. MemTyped(r)
  BY <1>13, <1>14 DEF MemTyped, SameBut
<1>16. \A a \in InUse(q) : /\ r.bufs[a].refs = q.bufs[a].refs /\ r.bufs[a].size = q.bufs[a].size
                           /\ Len(r.bufs[a].data) >= Len(q.bufs[a].data)
  <2> TAKE a \in InUse(q)
  <2>1. CASE a = b
    <3>1. Len(e) >= Len(d)
      BY <1>8
    <3> QED BY <1>7, <1>10, <1>14, <2>1, <3>1
  <2>2. CASE a # b
    <3>1. r.bufs[a] = q.bufs[a] /\ q.bufs[a].data \in Seq(Units)
      BY <1>13, <1>14, <2>2 DEF MemTyped, SBuffers
    <3> QED BY <3>1
  <2> QED BY <2>1, <2>2
<1>17. Fits(r)
  <2> SUFFICES ASSUME NEW a \in InUse(q)
               PROVE  /\ r.bufs[a].data # << >> /\ Len(r.bufs[a].data) <= r.bufs[a].size
                      /\ r.bufs[a].size <= LargeBuf
    BY <1>14 DEF Fits
  <2>1. /\ q.bufs[a].data # << >> /\ Len(q.bufs[a].data) <= q.bufs[a].size
        /\ q.bufs[a].size <= LargeBuf
    BY DEF BufsOK, Fits
  <2>2. CASE a = b
    <3>1. Len(e) <= q.bufs[b].size
      BY <1>7, <1>8
    <3>2. d # << >>
      BY <1>7, <2>1, <2>2
    <3>3. e # << >>
      BY <1>8, <3>2
    <3> QED BY <1>10, <1>14, <2>1, <2>2, <3>1, <3>3, SMTT(30)
  <2>3. CASE a # b
    BY <1>14, <2>1, <2>3
  <2> QED BY <2>2, <2>3
<1>18. UsesOK(r)
  <2> SUFFICES ASSUME NEW d1 \in Peers, NEW i \in 1 .. Len(q.queue[d1]) PROVE UseOK(r, q.queue[d1][i])
    BY <1>14 DEF UsesOK
  <2>1. PICK u \in Uses : u = q.queue[d1][i]
    BY <1>13 DEF MemTyped
  <2>2. u.buf \in InUse(q) /\ u.start < Len(q.bufs[u.buf].data)
    BY <2>1 DEF BufsOK, UsesOK, UseOK
  <2>3. Len(r.bufs[u.buf].data) >= Len(q.bufs[u.buf].data)
    BY <1>16, <2>2
  <2>4. PICK d1len \in Nat, d2len \in Nat, s \in Nat :
          d1len = Len(r.bufs[u.buf].data) /\ d2len = Len(q.bufs[u.buf].data) /\ s = u.start
    <3>1. r.bufs[u.buf].data \in Seq(Units) /\ q.bufs[u.buf].data \in Seq(Units)
      BY <1>13, <1>14, <2>2 DEF MemTyped, SBuffers
    <3>2. u.start \in Nat
      BY DEF Uses
    <3>3. \A z \in Seq(Units) : Len(z) \in Nat
      OBVIOUS
    <3> QED BY <3>1, <3>2, <3>3
  <2>5. u.start < Len(r.bufs[u.buf].data)
    <3>1. s < d2len /\ d1len >= d2len
      BY <2>2, <2>3, <2>4
    <3>2. s < d1len
      BY <3>1
    <3> QED BY <2>4, <3>2
  <2> QED BY <1>14, <2>1, <2>2, <2>5 DEF UseOK
<1>19. OnceEach(r)
  BY <1>14 DEF BufsOK, OnceEach
<1>20. Counts(r)
  <2> SUFFICES ASSUME NEW a \in InUse(q) PROVE Counted(r, a)
    BY <1>14 DEF Counts
  <2>1. UsersOf(r, a) = UsersOf(q, a)
    BY <1>14 DEF UsersOf
  <2>2. Counted(q, a)
    BY DEF BufsOK, Counts
  <2>3. r.bufs[a].refs = q.bufs[a].refs /\ r.shares = q.shares
    BY <1>14, <1>16 DEF SameBut
  <2> QED BY <2>1, <2>2, <2>3 DEF Counted
<1>21. BufsOK(r)
  BY <1>15, <1>17, <1>18, <1>19, <1>20 DEF BufsOK
<1>22. Apart(q, r, c)
  <2>1. ASSUME NEW d1 \in Peers \ {c} PROVE Content(r, d1) = Content(q, d1)
    <3>1. ASSUME NEW i \in 1 .. Len(q.queue[d1])
          PROVE  r.bufs[q.queue[d1][i].buf].data = q.bufs[q.queue[d1][i].buf].data
      <4>1. q.queue[d1][i].buf # b
        BY <1>6 DEF UsesBuf
      <4>2. q.queue[d1][i].buf \in InUse(q)
        BY DEF BufsOK, UsesOK, UseOK
      <4> QED BY <1>14, <4>1, <4>2
    <3> QED BY <1>13, <1>14, <3>1, SameContent
  <2> QED BY <1>14, <2>1 DEF Apart, SameBut
<1>d. Fewer(q, r, c)
  BY <1>14 DEF UsesBuf, Fewer
<1>c. \A x1, y, z \in Seq(Units) : (x1 \o y) \o z = x1 \o (y \o z)
  BY Concats
<1>23. Content(r, c) = Content(q, c) \o data
  <2>1. PICK rs \in Seq(Seq(Units)) : /\ rs = Rests(q, c) /\ Len(rs) = n
                                       /\ \A i \in 1 .. n : rs[i] = Rest(q, us[i])
    BY <1>1, <1>2, <1>13, RestsAre DEF BufsOK
  <2>2. PICK ts \in Seq(Seq(Units)) : /\ ts = Rests(r, c) /\ Len(ts) = n
                                       /\ \A i \in 1 .. n : ts[i] = Rest(r, us[i])
    BY <1>1, <1>2, <1>14, <1>15, <1>18, RestsAre, SMTT(30)
  <2>3. PICK x1 \in Seq(Units) : x1 = rs[n]
    BY <1>2, <2>1
  <2>4. PICK f \in Seq(Seq(Units)) : /\ rs = Append(f, x1) /\ Len(f) = n - 1
                                      /\ \A i \in 1 .. n - 1 : f[i] = rs[i]
    <3>1. rs # << >>
      BY <1>2, <2>1
    <3>2. PICK f \in Seq(Seq(Units)) : /\ rs = Append(f, rs[Len(rs)]) /\ Len(f) = Len(rs) - 1
                                        /\ \A i \in 1 .. Len(rs) - 1 : f[i] = rs[i]
      BY <3>1, LastSplit
    <3> QED BY <2>1, <2>3, <3>2
  <2>5. rs = Append(f, x1)
    BY <2>4
  <2>6. ts[n] = x1 \o data
    <3>1. us[n] \in Uses
      BY <1>2
    <3>a. PICK s \in Nat : s = us[n].start
      BY <3>1 DEF Uses
    <3>b. s < Len(d)
      BY <1>5, <1>7, <3>a
    <3>2. s \in 0 .. Len(d)
      BY <3>b
    <3>3. x1 = SubSeq(d, s + 1, Len(d))
      BY <1>2, <1>3, <1>7, <2>1, <2>3, <3>a DEF Rest
    <3>4. ts[n] = SubSeq(e, s + 1, Len(e))
      BY <1>2, <1>3, <1>10, <1>14, <2>2, <3>a, ZenonT(40) DEF Rest
    <3> QED BY <1>8, <3>2, <3>3, <3>4, LaterRest
  <2>7. ASSUME NEW i \in 1 .. n - 1 PROVE ts[i] = rs[i]
    <3>1. i \in 1 .. n /\ i # n
      BY <1>2
    <3>2. us[i].buf # b
      BY <1>1, <1>2, <1>3, <3>1 DEF BufsOK, OnceEach, Once
    <3>3. us[i].buf \in InUse(q)
      BY <1>1, <1>2, <3>1 DEF BufsOK, UsesOK, UseOK
    <3>4. r.bufs[us[i].buf] = q.bufs[us[i].buf]
      BY <1>14, <3>2, <3>3
    <3>5. Rest(r, us[i]) = Rest(q, us[i])
      BY <3>4 DEF Rest
    <3> QED BY <2>1, <2>2, <3>1, <3>5
  <2>8. PICK y \in Seq(Units) : y = x1 \o data
    BY ConcatProperties
  <2>9. ts = Append(f, y)
    <3>a. n \in Nat /\ n >= 1
      BY <1>2
    <3>b. PICK m : m = Len(f) /\ m = n - 1
      BY <2>4
    <3>1. m \in Nat /\ m = Len(f) /\ n = m + 1 /\ m = n - 1
      BY <3>a, <3>b
    <3>2. ts[m + 1] = y /\ Len(ts) = m + 1
      BY <2>2, <2>6, <2>8, <3>1
    <3>3. \A i \in 1 .. m : ts[i] = f[i]
      BY <2>4, <2>7, <3>1
    <3> QED BY <3>1, <3>2, <3>3, IsAppend
  <2>10. FlattenSeq(rs) = FlattenSeq(f) \o x1 /\ FlattenSeq(ts) = FlattenSeq(f) \o y /\ FlattenSeq(f) \in Seq(Units)
    BY <2>5, <2>9, FlatAppend
  <2>11. PICK g \in Seq(Units) : g = FlattenSeq(f)
    BY <2>10
  <2>12. (g \o x1) \o data = g \o (x1 \o data)
    BY <1>c, ZenonT(40)
  <2>13. Content(q, c) = FlattenSeq(rs) /\ Content(r, c) = FlattenSeq(ts)
    <3>1. Content(q, c) = FlattenSeq(rs)
      BY <1>13, <2>1, RestsAre DEF BufsOK
    <3>2. Content(r, c) = FlattenSeq(ts)
      BY <1>15, <1>18, <2>2, RestsAre
    <3> QED BY <3>1, <3>2
  <2> QED BY <2>8, <2>10, <2>11, <2>12, <2>13
<1> QED BY <1>12, <1>14, <1>21, <1>22, <1>23, <1>d

\* The queue of c has one user more, of all of buffer b.
Pushes(q, r, c, b) ==
  /\ SameBut(q, r) /\ r.want = q.want
  /\ InUse(r) = InUse(q) \cup {b}
  /\ r.queue[c] = Append(q.queue[c], [buf |-> b, start |-> 0])
  /\ \A d \in Peers \ {c} : r.queue[d] = q.queue[d]
  /\ \A a \in InUse(q) : r.bufs[a].data = q.bufs[a].data
  /\ \A a \in InUse(q) \ {b} : r.bufs[a].refs = q.bufs[a].refs
  /\ r.bufs[b].refs = Cardinality(UsersOf(q, b)) + 1

\* A user at the end of a queue, of a buffer it did not use.
LEMMA Pushed ==
  ASSUME NEW q, BufsOK(q), NEW r, MemTyped(r), Fits(r), NEW c \in Peers, NEW b \in Nat,
         ~ UsesBuf(q, c, b), Pushes(q, r, c, b)
  PROVE  BufsOK(r) /\ Apart(q, r, c) /\ Content(r, c) = Content(q, c) \o r.bufs[b].data
<1>1. PICK us \in Seq(Uses) : us = q.queue[c]
  BY DEF BufsOK, MemTyped
<1>u. PICK u : u = [buf |-> b, start |-> 0]
  OBVIOUS
<1>2. u \in Uses /\ u = [buf |-> b, start |-> 0] /\ u.buf = b /\ u.start = 0
  BY <1>u DEF Uses
<1>3. PICK n \in Nat : n = Len(us)
  OBVIOUS
<1>4. PICK vs : vs = Append(us, u)
  OBVIOUS
<1>5. /\ vs \in Seq(Uses) /\ Len(vs) = n + 1 /\ vs[n + 1] = u
      /\ \A i \in 1 .. n : vs[i] = us[i]
  BY <1>2, <1>3, <1>4
<1>6. r.queue[c] = vs
  BY <1>1, <1>2, <1>4 DEF Pushes
<1>7. b \in InUse(r) /\ InUse(q) \subseteq InUse(r)
  BY DEF Pushes
<1>8. PICK x : x = r.bufs[b].data
  OBVIOUS
<1>9. x \in Seq(Units) /\ x # << >> /\ Len(x) \in Nat
  <2>1. x \in Seq(Units) /\ x # << >>
    BY <1>7, <1>8 DEF MemTyped, SBuffers, Fits
  <2> QED BY <2>1
<1>10. UsesOK(r)
  <2> SUFFICES ASSUME NEW d \in Peers, NEW i \in 1 .. Len(r.queue[d]) PROVE UseOK(r, r.queue[d][i])
    BY DEF UsesOK
  <2>1. ASSUME NEW j \in 1 .. Len(q.queue[d]) PROVE UseOK(r, q.queue[d][j])
    <3>1. UseOK(q, q.queue[d][j])
      BY DEF BufsOK, UsesOK
    <3> QED BY <1>7, <3>1 DEF UseOK, Pushes
  <2>2. CASE d # c
    BY <2>1, <2>2 DEF Pushes
  <2>3. CASE d = c
    <3>1. i \in 1 .. n + 1
      BY <1>5, <1>6, <2>3
    <3>2. CASE i = n + 1
      <4>1. r.queue[d][i] = u
        BY <1>5, <1>6, <2>3, <3>2
      <4>2. 0 < Len(x)
        BY <1>9
      <4> QED BY <1>2, <1>7, <1>8, <4>1, <4>2 DEF UseOK
    <3>3. CASE i # n + 1
      <4>1. i \in 1 .. n
        BY <3>1, <3>3
      <4>2. r.queue[d][i] = q.queue[d][i] /\ i \in 1 .. Len(q.queue[d])
        BY <1>1, <1>3, <1>5, <1>6, <2>3, <4>1
      <4> QED BY <2>1, <4>2
    <3> QED BY <3>2, <3>3
  <2> QED BY <2>2, <2>3
<1>11. \A i \in 1 .. n : us[i].buf # b
  BY <1>1, <1>3 DEF UsesBuf
<1>12. OnceEach(r)
  <2> SUFFICES ASSUME NEW d \in Peers PROVE Once(r.queue[d])
    BY DEF OnceEach
  <2>1. Once(q.queue[d])
    BY DEF BufsOK, OnceEach
  <2>2. CASE d # c
    BY <2>1, <2>2 DEF Pushes
  <2>3. CASE d = c
    <3> SUFFICES ASSUME NEW i \in 1 .. n + 1, NEW j \in 1 .. n + 1, vs[i].buf = vs[j].buf PROVE i = j
      BY <1>5, <1>6, <2>3 DEF Once
    <3>1. CASE i \in 1 .. n /\ j \in 1 .. n
      BY <1>1, <1>3, <1>5, <2>1, <2>3, <3>1 DEF Once
    <3>2. CASE i = n + 1 /\ j \in 1 .. n
      BY <1>2, <1>5, <1>11, <3>2
    <3>3. CASE j = n + 1 /\ i \in 1 .. n
      BY <1>2, <1>5, <1>11, <3>3
    <3> QED BY <3>1, <3>2, <3>3
  <2> QED BY <2>2, <2>3
<1>13. \A a : a # b => (UsesBuf(r, c, a) <=> UsesBuf(q, c, a))
  <2> SUFFICES ASSUME NEW a, a # b
               PROVE  (\E i \in 1 .. n + 1 : vs[i].buf = a) <=> (\E i \in 1 .. n : us[i].buf = a)
    BY <1>1, <1>3, <1>5, <1>6, ZenonT(40) DEF UsesBuf
  <2>1. ASSUME NEW i \in 1 .. n + 1, vs[i].buf = a PROVE \E j \in 1 .. n : us[j].buf = a
    <3>1. i \in 1 .. n
      BY <1>2, <1>5, <2>1
    <3> QED BY <1>5, <2>1, <3>1
  <2>2. ASSUME NEW i \in 1 .. n, us[i].buf = a PROVE \E j \in 1 .. n + 1 : vs[j].buf = a
    BY <1>5, <2>2
  <2> QED BY <2>1, <2>2
<1>14. UsesBuf(r, c, b)
  BY <1>2, <1>5, <1>6 DEF UsesBuf
<1>15. \A d \in Peers \ {c} : \A a : UsesBuf(r, d, a) <=> UsesBuf(q, d, a)
  BY DEF Pushes, UsesBuf
<1>16. Counts(r)
  <2> SUFFICES ASSUME NEW a \in InUse(r) PROVE Counted(r, a)
    BY DEF Counts
  <2>1. CASE a = b
    <3>1. UsersOf(r, b) = UsersOf(q, b) \cup {c}
      <4>1. \A d \in Peers : d \in UsersOf(r, b) <=> d \in UsersOf(q, b) \/ d = c
        BY <1>14, <1>15, UsersAre
      <4> QED BY <4>1 DEF UsersOf
    <3>2. c \notin UsersOf(q, b)
      BY UsersAre
    <3>3. Cardinality(UsersOf(r, b)) = Cardinality(UsersOf(q, b)) + 1
      BY <3>1, <3>2, UsersFinite, FS_AddElement
    <3>4. Cardinality(UsersOf(q, b)) \in Nat
      BY UsersFinite
    <3>5. PICK k \in Nat : k = Cardinality(UsersOf(q, b))
      BY <3>4
    <3>6. r.bufs[b].refs = k + 1 /\ k + 1 > 0
      BY <3>5 DEF Pushes
    <3> QED BY <2>1, <3>3, <3>5, <3>6 DEF Counted
  <2>2. CASE a # b
    <3>1. a \in InUse(q) /\ r.bufs[a].refs = q.bufs[a].refs /\ r.shares = q.shares
      BY <2>2 DEF Pushes, SameBut
    <3>2. UsersOf(r, a) = UsersOf(q, a)
      <4>1. \A d \in Peers : d \in UsersOf(r, a) <=> d \in UsersOf(q, a)
        BY <1>13, <1>15, <2>2, UsersAre
      <4> QED BY <4>1 DEF UsersOf
    <3>3. Counted(q, a)
      BY <3>1 DEF BufsOK, Counts
    <3> QED BY <3>1, <3>2, <3>3 DEF Counted
  <2> QED BY <2>1, <2>2
<1>17. BufsOK(r)
  BY <1>10, <1>12, <1>16 DEF BufsOK
<1>18. \A d \in Peers : \A i \in 1 .. Len(q.queue[d]) :
         r.bufs[q.queue[d][i].buf].data = q.bufs[q.queue[d][i].buf].data
  BY DEF BufsOK, UsesOK, UseOK, Pushes
<1>19. Apart(q, r, c)
  <2>1. ASSUME NEW d \in Peers \ {c} PROVE Content(r, d) = Content(q, d) /\ r.queue[d] = q.queue[d]
    <3>1. r.queue[d] = q.queue[d] /\ MemTyped(q)
      BY DEF Pushes, BufsOK
    <3> QED BY <1>18, <3>1, SameContent
  <2> QED BY <2>1 DEF Apart, Pushes, SameBut
<1>20. Content(r, c) = Content(q, c) \o x
  <2>1. PICK rs \in Seq(Seq(Units)) : /\ rs = Rests(q, c) /\ Len(rs) = n
                                       /\ \A i \in 1 .. n : rs[i] = Rest(q, us[i])
    BY <1>1, <1>3, RestsAre DEF BufsOK
  <2>2. PICK ts \in Seq(Seq(Units)) : /\ ts = Rests(r, c) /\ Len(ts) = n + 1
                                       /\ \A i \in 1 .. n + 1 : ts[i] = Rest(r, vs[i])
    <3>1. PICK ts : ts = Rests(r, c)
      OBVIOUS
    <3>2. PICK m \in Nat : m = n + 1
      OBVIOUS
    <3>3. ts \in Seq(Seq(Units)) /\ Len(ts) = m /\ \A i \in 1 .. m : ts[i] = Rest(r, vs[i])
      BY <1>5, <1>6, <1>10, <3>1, <3>2, RestsAre, ZenonT(40)
    <3> QED BY <3>1, <3>2, <3>3
  <2>3. ts[n + 1] = x
    <3>a. ts[n + 1] = Rest(r, u) /\ 0 + 1 = 1
      BY <1>5, <2>2
    <3>1. ts[n + 1] = SubSeq(x, 1, Len(x))
      BY <1>2, <1>8, <3>a DEF Rest
    <3>2. SubSeq(x, 1, Len(x)) = x
      BY <1>9, SubSeqFull
    <3> QED BY <3>1, <3>2
  <2>4. ASSUME NEW i \in 1 .. n PROVE ts[i] = rs[i]
    <3>1. Rest(r, us[i]) = Rest(q, us[i])
      BY <1>1, <1>3, <1>18 DEF Rest
    <3>2. ts[i] = Rest(r, us[i]) /\ rs[i] = Rest(q, us[i])
      BY <1>5, <2>1, <2>2
    <3> QED BY <3>1, <3>2, SMTT(30)
  <2>5. ts = Append(rs, x)
    BY <1>9, <2>1, <2>2, <2>3, <2>4, IsAppend
  <2>6. FlattenSeq(ts) = FlattenSeq(rs) \o x
    BY <1>9, <2>5, FlatAppend
  <2>7. Content(q, c) = FlattenSeq(rs)
    BY <2>1, RestsAre DEF BufsOK
  <2>8. Content(r, c) = FlattenSeq(ts)
    BY <1>10, <2>2, RestsAre
  <2> QED BY <2>6, <2>7, <2>8
<1> QED BY <1>8, <1>17, <1>19, <1>20

\* A new buffer at the end of c's queue.
LEMMA NewUser ==
  ASSUME NEW q, BufsOK(q), NEW c \in Peers, NEW data \in Seq(Units), data # << >>, Len(data) <= LargeBuf
  PROVE  LET r == with_user(with_buf(q, data, 1), c, sbuf_alloc(q))
         IN  BufsOK(r) /\ Apart(q, r, c) /\ Fewer(q, r, c) /\ r.want = q.want
             /\ Content(r, c) = Content(q, c) \o data
<1>1. PICK b : b = sbuf_alloc(q)
  OBVIOUS
<1>2. PICK p : p = with_buf(q, data, 1)
  OBVIOUS
<1>3. MemTyped(q) /\ b \in Nat /\ b \notin InUse(q)
  BY <1>1, AllocFresh DEF BufsOK, MemTyped
<1>4. /\ SameBut(q, p) /\ p.queue = q.queue /\ p.want = q.want
      /\ InUse(p) = InUse(q) \cup {b} /\ p.bufs \in [InUse(p) -> SBuffers]
      /\ IsFiniteSet(InUse(p))
      /\ p.bufs[b] = [data |-> data, size |-> bufsize(Len(data)), refs |-> 1]
      /\ \A a \in InUse(q) : p.bufs[a] = q.bufs[a]
  BY <1>1, <1>2, <1>3, WithBuf
<1>5. MemTyped(p)
  BY <1>3, <1>4 DEF MemTyped, SameBut
<1>6. PICK us \in Seq(Uses) : us = q.queue[c]
  BY <1>3 DEF MemTyped
<1>7. PICK vs : vs = Append(us, [buf |-> b, start |-> 0])
  OBVIOUS
<1>8. vs \in Seq(Uses)
  <2>1. [buf |-> b, start |-> 0] \in Uses
    BY <1>3 DEF Uses
  <2> QED BY <1>7, <2>1
<1>9. PICK r : r = set_queue(p, c, vs)
  OBVIOUS
<1>10. /\ SameBut(p, r) /\ r.bufs = p.bufs /\ r.want = p.want
       /\ r.queue \in [Peers -> Seq(Uses)] /\ r.queue[c] = vs
       /\ \A d \in Peers \ {c} : r.queue[d] = p.queue[d]
  BY <1>5, <1>8, <1>9, SetQueue
<1>11. with_user(with_buf(q, data, 1), c, sbuf_alloc(q)) = r
  BY <1>1, <1>2, <1>4, <1>6, <1>7, <1>9 DEF with_user
<1>12. MemTyped(r)
  BY <1>5, <1>10 DEF MemTyped, SameBut, InUse
<1>13. InUse(r) = InUse(q) \cup {b} /\ \A a \in InUse(q) : r.bufs[a] = q.bufs[a]
  BY <1>4, <1>10 DEF InUse
<1>14. Len(data) <= bufsize(Len(data)) /\ bufsize(Len(data)) <= LargeBuf
  <2>1. SmallBuf \in Nat /\ LargeBuf \in Nat /\ SmallBuf < LargeBuf /\ Len(data) \in Nat
    BY SendAssumption
  <2> QED BY <2>1 DEF bufsize
<1>15. Fits(r)
  <2> SUFFICES ASSUME NEW a \in InUse(q) \cup {b}
               PROVE  /\ r.bufs[a].data # << >> /\ Len(r.bufs[a].data) <= r.bufs[a].size
                      /\ r.bufs[a].size <= LargeBuf
    BY <1>13 DEF Fits
  <2>1. CASE a = b
    <3>1. r.bufs[a].data = data /\ r.bufs[a].size = bufsize(Len(data))
      BY <1>4, <1>10, <2>1
    <3> QED BY <1>14, <3>1
  <2>2. CASE a # b
    BY <1>13, <2>2 DEF BufsOK, Fits
  <2> QED BY <2>1, <2>2
<1>16. \A d \in Peers : ~ UsesBuf(q, d, b)
  BY <1>3 DEF BufsOK, UsesOK, UseOK, UsesBuf
<1>17. UsersOf(q, b) = {}
  BY <1>16, UsersAre DEF UsersOf
<1>18. Pushes(q, r, c, b)
  <2>1. Cardinality(UsersOf(q, b)) + 1 = 1
    BY <1>17, FS_EmptySet
  <2>2. r.bufs[b].refs = 1
    BY <1>4, <1>10
  <2>3. SameBut(q, r) /\ r.want = q.want
    BY <1>4, <1>10 DEF SameBut
  <2>4. \A d \in Peers \ {c} : r.queue[d] = q.queue[d]
    BY <1>4, <1>10
  <2>5. r.queue[c] = Append(q.queue[c], [buf |-> b, start |-> 0])
    BY <1>6, <1>7, <1>10
  <2> QED BY <1>13, <2>1, <2>2, <2>3, <2>4, <2>5 DEF Pushes
<1>19. BufsOK(r) /\ Apart(q, r, c) /\ Content(r, c) = Content(q, c) \o r.bufs[b].data
  BY <1>3, <1>12, <1>15, <1>16, <1>18, Pushed
<1>20. r.bufs[b].data = data
  BY <1>4, <1>10
<1>21. Fewer(q, r, c)
  <2> SUFFICES ASSUME NEW a \in q.shares, UsesBuf(r, c, a) PROVE UsesBuf(q, c, a)
    BY DEF Fewer
  <2>1. a # b
    BY <1>3 DEF MemTyped
  <2>2. PICK i \in 1 .. Len(vs) : vs[i].buf = a
    BY <1>10 DEF UsesBuf
  <2>3. Len(vs) = Len(us) + 1 /\ vs[Len(us) + 1] = [buf |-> b, start |-> 0] /\ Len(us) \in Nat
        /\ \A j \in 1 .. Len(us) : vs[j] = us[j]
    BY <1>7
  <2>4. i \in 1 .. Len(us)
    BY <2>1, <2>2, <2>3
  <2> QED BY <1>6, <2>2, <2>3, <2>4 DEF UsesBuf
<1> QED BY <1>4, <1>10, <1>11, <1>19, <1>20, <1>21

\* A shared buffer at the end of c's queue.
LEMMA SharedUser ==
  ASSUME NEW q, BufsOK(q), NEW c \in Peers, NEW b \in InUse(q), ~ UsesBuf(q, c, b)
  PROVE  LET r == with_user(one_more(q, b), c, b)
         IN  BufsOK(r) /\ Apart(q, r, c) /\ r.want = q.want
             /\ Content(r, c) = Content(q, c) \o q.bufs[b].data
             /\ \A a : a # b => (UsesBuf(r, c, a) => UsesBuf(q, c, a))
<1>1. MemTyped(q) /\ b \in Nat
  BY DEF BufsOK, MemTyped
<1>2. PICK x : x = [q.bufs[b] EXCEPT !.refs = q.bufs[b].refs + 1]
  OBVIOUS
<1>3. q.bufs[b] \in SBuffers
  BY <1>1 DEF MemTyped
<1>4. x \in SBuffers /\ x.data = q.bufs[b].data /\ x.size = q.bufs[b].size /\ x.refs = q.bufs[b].refs + 1
  BY <1>2, <1>3 DEF SBuffers
<1>5. PICK p : p = set_buf(q, b, x)
  OBVIOUS
<1>6. /\ SameBut(q, p) /\ p.queue = q.queue /\ p.want = q.want
      /\ InUse(p) = InUse(q) /\ p.bufs \in [InUse(q) -> SBuffers] /\ p.bufs[b] = x
      /\ \A a \in InUse(q) \ {b} : p.bufs[a] = q.bufs[a]
  BY <1>1, <1>4, <1>5, SetBuf
<1>7. MemTyped(p)
  BY <1>1, <1>6 DEF MemTyped, SameBut
<1>8. PICK us \in Seq(Uses) : us = q.queue[c]
  BY <1>1 DEF MemTyped
<1>9. PICK vs : vs = Append(us, [buf |-> b, start |-> 0])
  OBVIOUS
<1>10. vs \in Seq(Uses)
  <2>1. [buf |-> b, start |-> 0] \in Uses
    BY <1>1 DEF Uses
  <2> QED BY <1>9, <2>1
<1>11. PICK r : r = set_queue(p, c, vs)
  OBVIOUS
<1>12. /\ SameBut(p, r) /\ r.bufs = p.bufs /\ r.want = p.want
       /\ r.queue \in [Peers -> Seq(Uses)] /\ r.queue[c] = vs
       /\ \A d \in Peers \ {c} : r.queue[d] = p.queue[d]
  BY <1>7, <1>10, <1>11, SetQueue
<1>13. with_user(one_more(q, b), c, b) = r
  BY <1>2, <1>5, <1>6, <1>8, <1>9, <1>11 DEF with_user, one_more
<1>14. MemTyped(r)
  BY <1>7, <1>12 DEF MemTyped, SameBut, InUse
<1>15. InUse(r) = InUse(q) /\ InUse(q) \cup {b} = InUse(q)
  BY <1>6, <1>12 DEF InUse
<1>16. /\ \A a \in InUse(q) : r.bufs[a].data = q.bufs[a].data /\ r.bufs[a].size = q.bufs[a].size
       /\ \A a \in InUse(q) \ {b} : r.bufs[a].refs = q.bufs[a].refs
  <2>1. \A a \in InUse(q) \ {b} : r.bufs[a] = q.bufs[a]
    BY <1>6, <1>12
  <2>2. r.bufs[b].data = q.bufs[b].data /\ r.bufs[b].size = q.bufs[b].size
    BY <1>4, <1>6, <1>12
  <2>3. ASSUME NEW a \in InUse(q) PROVE r.bufs[a].data = q.bufs[a].data /\ r.bufs[a].size = q.bufs[a].size
    BY <2>1, <2>2
  <2> QED BY <2>1, <2>3
<1>17. Fits(r)
  BY <1>15, <1>16 DEF BufsOK, Fits
<1>18. Pushes(q, r, c, b)
  <2>1. r.bufs[b].refs = Cardinality(UsersOf(q, b)) + 1
    BY <1>4, <1>6, <1>12 DEF BufsOK, Counts, Counted
  <2>2. SameBut(q, r) /\ r.want = q.want
    BY <1>6, <1>12 DEF SameBut
  <2>3. \A d \in Peers \ {c} : r.queue[d] = q.queue[d]
    BY <1>6, <1>12
  <2>4. r.queue[c] = Append(q.queue[c], [buf |-> b, start |-> 0])
    BY <1>8, <1>9, <1>12
  <2> QED BY <1>15, <1>16, <2>1, <2>2, <2>3, <2>4 DEF Pushes
<1>19. BufsOK(r) /\ Apart(q, r, c) /\ Content(r, c) = Content(q, c) \o r.bufs[b].data
  BY <1>1, <1>14, <1>17, <1>18, Pushed
<1>20. r.bufs[b].data = q.bufs[b].data
  BY <1>16
<1>21. ASSUME NEW a, a # b, UsesBuf(r, c, a) PROVE UsesBuf(q, c, a)
  <2>2. PICK i \in 1 .. Len(vs) : vs[i].buf = a
    BY <1>12, <1>21 DEF UsesBuf
  <2>3. Len(vs) = Len(us) + 1 /\ vs[Len(us) + 1] = [buf |-> b, start |-> 0] /\ Len(us) \in Nat
        /\ \A j \in 1 .. Len(us) : vs[j] = us[j]
    BY <1>9
  <2>4. i \in 1 .. Len(us)
    BY <1>21, <2>2, <2>3
  <2> QED BY <1>8, <2>2, <2>3, <2>4 DEF UsesBuf
<1> QED BY <1>6, <1>12, <1>13, <1>19, <1>20, <1>21

----------------------------------------------------------------------------
\* The queue of c has lost its first user, of buffer b.
Pops(q, r, c, b) ==
  /\ SameBut(q, r)
  /\ r.queue[c] = Tail(q.queue[c])
  /\ \A d \in Peers \ {c} : r.queue[d] = q.queue[d]
  /\ InUse(q) \ {b} \subseteq InUse(r) /\ InUse(r) \subseteq InUse(q)
  /\ \A a \in InUse(q) \ {b} : r.bufs[a] = q.bufs[a]
  /\ IF q.bufs[b].refs = 1 /\ b \notin q.shares THEN b \notin InUse(r)
     ELSE /\ b \in InUse(r) /\ r.bufs[b].data = q.bufs[b].data /\ r.bufs[b].size = q.bufs[b].size
          /\ r.bufs[b].refs = q.bufs[b].refs - 1

\* The first user of a queue leaves it, and its buffer goes with the last one.
LEMMA Popped ==
  ASSUME NEW q, BufsOK(q), NEW r, MemTyped(r), NEW c \in Peers, q.queue[c] # << >>,
         NEW b, b = Head(q.queue[c]).buf, Pops(q, r, c, b)
  PROVE  /\ BufsOK(r) /\ Apart(q, r, c) /\ Fewer(q, r, c)
         /\ Content(q, c) = Rest(q, Head(q.queue[c])) \o Content(r, c)
<1>1. PICK us \in Seq(Uses) : us = q.queue[c]
  BY DEF BufsOK, MemTyped
<1>2. PICK n \in Nat : n = Len(us) /\ n > 0
  BY <1>1
<1>3. PICK vs : vs = Tail(us)
  OBVIOUS
<1>4. /\ vs \in Seq(Uses) /\ Len(vs) = n - 1 /\ \A i \in 1 .. n - 1 : vs[i] = us[i + 1]
  BY <1>1, <1>2, <1>3
<1>5. r.queue[c] = vs
  BY <1>1, <1>3 DEF Pops
<1>6. b = us[1].buf /\ Head(us) = us[1] /\ us[1] \in Uses /\ 1 \in 1 .. n
  BY <1>1, <1>2
<1>7. b \in InUse(q) /\ UseOK(q, us[1]) /\ UsesBuf(q, c, b)
  BY <1>1, <1>2, <1>6 DEF BufsOK, UsesOK, UseOK, UsesBuf
<1>8. \A i \in 1 .. n - 1 : vs[i].buf # b
  <2> TAKE i \in 1 .. n - 1
  <2>1. i + 1 \in 1 .. n /\ i + 1 # 1
    BY <1>2
  <2>2. us[i + 1].buf # us[1].buf
    BY <1>1, <1>2, <1>6, <2>1 DEF BufsOK, OnceEach, Once
  <2> QED BY <1>4, <1>6, <2>2
<1>9. ~ UsesBuf(r, c, b)
  BY <1>4, <1>5, <1>8 DEF UsesBuf
<1>10. \A a : a # b => (UsesBuf(r, c, a) <=> UsesBuf(q, c, a))
  <2> SUFFICES ASSUME NEW a, a # b
               PROVE  (\E i \in 1 .. n - 1 : vs[i].buf = a) <=> (\E i \in 1 .. n : us[i].buf = a)
    BY <1>1, <1>2, <1>4, <1>5, ZenonT(40) DEF UsesBuf
  <2>1. ASSUME NEW i \in 1 .. n, us[i].buf = a PROVE \E j \in 1 .. n - 1 : vs[j].buf = a
    <3>1. i # 1
      BY <1>6, <2>1
    <3>2. i - 1 \in 1 .. n - 1 /\ (i - 1) + 1 = i
      BY <1>2, <3>1
    <3>3. vs[i - 1] = us[i]
      BY <1>4, <3>2
    <3> QED BY <2>1, <3>2, <3>3
  <2>2. ASSUME NEW i \in 1 .. n - 1, vs[i].buf = a PROVE \E j \in 1 .. n : us[j].buf = a
    <3>1. i + 1 \in 1 .. n /\ vs[i] = us[i + 1]
      BY <1>2, <1>4
    <3> QED BY <2>2, <3>1
  <2> QED BY <2>1, <2>2
<1>11. \A d \in Peers \ {c} : \A a : UsesBuf(r, d, a) <=> UsesBuf(q, d, a)
  BY DEF Pops, UsesBuf
<1>12. UsersOf(r, b) = UsersOf(q, b) \ {c} /\ c \in UsersOf(q, b)
  <2>1. \A d \in Peers : d \in UsersOf(r, b) <=> d \in UsersOf(q, b) /\ d # c
    BY <1>9, <1>11, UsersAre
  <2>2. c \in UsersOf(q, b)
    BY <1>7, UsersAre
  <2>3. UsersOf(r, b) \subseteq Peers /\ UsersOf(q, b) \subseteq Peers
    BY DEF UsersOf
  <2> QED BY <2>1, <2>2, <2>3
<1>13. PICK k \in Nat : k = Cardinality(UsersOf(r, b)) /\ Cardinality(UsersOf(q, b)) = k + 1
  <2>1. Cardinality(UsersOf(r, b)) = Cardinality(UsersOf(q, b)) - 1
    BY <1>12, UsersFinite, FS_RemoveElement
  <2>2. Cardinality(UsersOf(r, b)) \in Nat /\ Cardinality(UsersOf(q, b)) \in Nat
    BY UsersFinite
  <2> QED BY <2>1, <2>2
<1>14. Counted(q, b) /\ q.bufs[b].refs = k + 1
  BY <1>7, <1>13 DEF BufsOK, Counts, Counted
<1>15. \A d \in Peers \ {c} : \A i \in 1 .. Len(q.queue[d]) :
         q.queue[d][i].buf \in InUse(r)
  <2> TAKE d \in Peers \ {c}
  <2> TAKE i \in 1 .. Len(q.queue[d])
  <2>1. PICK a : a = q.queue[d][i].buf
    OBVIOUS
  <2>2. a \in InUse(q) /\ UsesBuf(q, d, a)
    BY <2>1 DEF BufsOK, UsesOK, UseOK, UsesBuf
  <2>3. CASE a # b
    BY <2>1, <2>2, <2>3 DEF Pops
  <2>4. CASE a = b
    <3>1. d \in UsersOf(r, b)
      BY <1>12, <2>2, <2>4, UsersAre
    <3>2. k # 0
      BY <1>13, <3>1, UsersFinite, FS_EmptySet
    <3>3. k + 1 # 1
      BY <3>2
    <3>4. b \in InUse(r)
      BY <1>14, <3>3 DEF Pops
    <3> QED BY <2>1, <2>4, <3>4
  <2> QED BY <2>3, <2>4
<1>16. \A a \in InUse(r) : r.bufs[a].data = q.bufs[a].data /\ r.bufs[a].size = q.bufs[a].size
  <2> TAKE a \in InUse(r)
  <2>1. CASE a = b
    BY <2>1 DEF Pops
  <2>2. CASE a # b
    BY <2>2 DEF Pops
  <2> QED BY <2>1, <2>2
<1>17. Fits(r)
  BY <1>16 DEF BufsOK, Fits, Pops
<1>18. UsesOK(r)
  <2> SUFFICES ASSUME NEW d \in Peers, NEW i \in 1 .. Len(r.queue[d]) PROVE UseOK(r, r.queue[d][i])
    BY DEF UsesOK
  <2>1. CASE d # c
    <3>1. r.queue[d] = q.queue[d] /\ i \in 1 .. Len(q.queue[d])
      BY <2>1 DEF Pops
    <3>2. UseOK(q, q.queue[d][i]) /\ q.queue[d][i].buf \in InUse(r)
      BY <1>15, <2>1, <3>1 DEF BufsOK, UsesOK
    <3> QED BY <1>16, <3>1, <3>2 DEF UseOK
  <2>2. CASE d = c
    <3>1. i \in 1 .. n - 1 /\ i + 1 \in 1 .. n /\ vs[i] = us[i + 1] /\ r.queue[d][i] = vs[i]
      BY <1>2, <1>4, <1>5, <2>2
    <3>2. UseOK(q, us[i + 1])
      BY <1>1, <1>2, <3>1 DEF BufsOK, UsesOK
    <3>3. vs[i].buf # b
      BY <1>8, <3>1
    <3>4. vs[i].buf \in InUse(q) \ {b}
      BY <3>1, <3>2, <3>3 DEF UseOK
    <3>5. vs[i].buf \in InUse(r) /\ r.bufs[vs[i].buf] = q.bufs[vs[i].buf]
      BY <3>4 DEF Pops
    <3> QED BY <3>1, <3>2, <3>5 DEF UseOK
  <2> QED BY <2>1, <2>2
<1>19. OnceEach(r)
  <2> SUFFICES ASSUME NEW d \in Peers PROVE Once(r.queue[d])
    BY DEF OnceEach
  <2>1. Once(q.queue[d])
    BY DEF BufsOK, OnceEach
  <2>2. CASE d # c
    BY <2>1, <2>2 DEF Pops
  <2>3. CASE d = c
    <3> SUFFICES ASSUME NEW i \in 1 .. n - 1, NEW j \in 1 .. n - 1, vs[i].buf = vs[j].buf PROVE i = j
      BY <1>4, <1>5, <2>3 DEF Once
    <3>1. i + 1 \in 1 .. n /\ j + 1 \in 1 .. n /\ us[i + 1].buf = us[j + 1].buf
      BY <1>2, <1>4
    <3>2. i + 1 = j + 1
      BY <1>1, <1>2, <2>1, <2>3, <3>1 DEF Once
    <3> QED BY <3>2
  <2> QED BY <2>2, <2>3
<1>20. Counts(r)
  <2> SUFFICES ASSUME NEW a \in InUse(r) PROVE Counted(r, a)
    BY DEF Counts
  <2>1. CASE a = b
    <3>1. ~ (q.bufs[b].refs = 1 /\ b \notin q.shares)
      BY <2>1 DEF Pops
    <3>2. r.bufs[b].refs = q.bufs[b].refs - 1 /\ r.shares = q.shares
      BY <3>1 DEF Pops, SameBut
    <3>3. r.bufs[b].refs = k
      BY <1>14, <3>2
    <3>4. k > 0 \/ b \in r.shares
      BY <1>14, <3>1, <3>2
    <3> QED BY <1>13, <2>1, <3>3, <3>4 DEF Counted
  <2>2. CASE a # b
    <3>1. a \in InUse(q) /\ r.bufs[a] = q.bufs[a] /\ r.shares = q.shares
      BY <2>2 DEF Pops, SameBut
    <3>2. UsersOf(r, a) = UsersOf(q, a)
      <4>1. \A d \in Peers : d \in UsersOf(r, a) <=> d \in UsersOf(q, a)
        BY <1>10, <1>11, <2>2, UsersAre
      <4> QED BY <4>1 DEF UsersOf
    <3>3. Counted(q, a)
      BY <3>1 DEF BufsOK, Counts
    <3> QED BY <3>1, <3>2, <3>3 DEF Counted
  <2> QED BY <2>1, <2>2
<1>21. BufsOK(r)
  BY <1>17, <1>18, <1>19, <1>20 DEF BufsOK
<1>22. Apart(q, r, c)
  <2>1. ASSUME NEW d \in Peers \ {c} PROVE Content(r, d) = Content(q, d) /\ r.queue[d] = q.queue[d]
    <3>1. r.queue[d] = q.queue[d] /\ MemTyped(q)
      BY DEF Pops, BufsOK
    <3>2. \A i \in 1 .. Len(q.queue[d]) : r.bufs[q.queue[d][i].buf].data = q.bufs[q.queue[d][i].buf].data
      BY <1>15, <1>16
    <3> QED BY <3>1, <3>2, SameContent
  <2> QED BY <2>1 DEF Apart, Pops, SameBut
<1>23. Fewer(q, r, c)
  BY <1>9, <1>10 DEF Fewer
<1>24. Content(q, c) = Rest(q, us[1]) \o Content(r, c)
  <2>1. PICK rs \in Seq(Seq(Units)) : /\ rs = Rests(q, c) /\ Len(rs) = n
                                       /\ \A i \in 1 .. n : rs[i] = Rest(q, us[i])
    BY <1>1, <1>2, RestsAre DEF BufsOK
  <2>a. n - 1 \in Nat
    BY <1>2
  <2>2. PICK m \in Nat : m = n - 1
    BY <2>a
  <2>3. PICK ts : ts = Rests(r, c)
    OBVIOUS
  <2>4. ts \in Seq(Seq(Units)) /\ Len(ts) = m /\ \A i \in 1 .. m : ts[i] = Rest(r, vs[i])
    BY <1>4, <1>5, <1>18, <2>2, <2>3, RestsAre, ZenonT(40)
  <2>5. ASSUME NEW i \in 1 .. m PROVE ts[i] = rs[i + 1]
    <3>1. i \in 1 .. n - 1 /\ i + 1 \in 1 .. n /\ vs[i] = us[i + 1]
      BY <1>2, <1>4, <2>2
    <3>2. vs[i].buf # b /\ vs[i].buf \in InUse(q)
      BY <1>1, <1>2, <1>8, <3>1 DEF BufsOK, UsesOK, UseOK
    <3>3. r.bufs[vs[i].buf] = q.bufs[vs[i].buf]
      BY <3>2 DEF Pops
    <3>4. Rest(r, vs[i]) = Rest(q, vs[i])
      BY <3>3 DEF Rest
    <3>5. ts[i] = Rest(r, vs[i]) /\ rs[i + 1] = Rest(q, us[i + 1])
      BY <2>1, <2>4, <3>1
    <3> QED BY <3>1, <3>4, <3>5
  <2>6. rs # << >> /\ Head(rs) = rs[1] /\ rs[1] = Rest(q, us[1])
    BY <1>2, <2>1
  <2>7. Tail(rs) = ts
    <3>1. PICK tt : tt = Tail(rs)
      OBVIOUS
    <3>2. tt \in Seq(Seq(Units)) /\ Len(tt) = m /\ \A i \in 1 .. m : tt[i] = rs[i + 1]
      BY <1>2, <2>1, <2>2, <2>6, <3>1
    <3>3. \A i \in 1 .. Len(tt) : tt[i] = ts[i]
      BY <2>5, <3>2
    <3> QED BY <2>4, <3>1, <3>2, <3>3, SeqEqual
  <2>8. FlattenSeq(rs) = Head(rs) \o FlattenSeq(ts)
    BY <2>6, <2>7, FlatHead
  <2>9. Content(q, c) = FlattenSeq(rs)
    BY <2>1, RestsAre DEF BufsOK
  <2>10. Content(r, c) = FlattenSeq(ts)
    BY <1>18, <2>3, RestsAre
  <2> QED BY <2>6, <2>8, <2>9, <2>10
<1>25. Rest(q, us[1]) = Rest(q, Head(q.queue[c]))
  BY <1>1, <1>6
<1> QED BY <1>21, <1>22, <1>23, <1>24, <1>25

\* The first k units of what c is waiting for are off.
WantLess(q, r, c, k) ==
  /\ r.want[c] = SubSeq(q.want[c], k + 1, Len(q.want[c]))
  /\ \A d \in Peers \ {c} : r.want[d] = q.want[d]

\* What unwanted changes.
LEMMA Unwanted ==
  ASSUME NEW q, MemTyped(q), NEW c \in Peers, NEW k \in Nat
  PROVE  LET p == unwanted(q, c, k)
         IN  /\ SameBut(q, p) /\ p.bufs = q.bufs /\ p.queue = q.queue /\ MemTyped(p)
             /\ WantLess(q, p, c, k)
<1>1. PICK w : w = SubSeq(q.want[c], k + 1, Len(q.want[c]))
  OBVIOUS
<1>2. w \in Seq(Units)
  <2>1. PICK v \in Seq(Units) : v = q.want[c]
    BY DEF MemTyped
  <2>2. SubSeq(v, k + 1, Len(v)) \in Seq(Units)
    OBVIOUS
  <2> QED BY <1>1, <2>1, <2>2
<1>3. PICK p : p = set_want(q, c, w)
  OBVIOUS
<1>4. /\ SameBut(q, p) /\ p.bufs = q.bufs /\ p.queue = q.queue
      /\ p.want \in [Peers -> Seq(Units)] /\ p.want[c] = w
      /\ \A d \in Peers \ {c} : p.want[d] = q.want[d]
  BY <1>2, <1>3, SetWant
<1>5. unwanted(q, c, k) = p
  BY <1>1, <1>3 DEF unwanted
<1>6. MemTyped(p)
  BY <1>4 DEF MemTyped, SameBut, InUse
<1> QED BY <1>1, <1>4, <1>5, <1>6 DEF WantLess

\* All that is left of the first buffer is off the queue.
LEMMA Dropped ==
  ASSUME NEW q, BufsOK(q), NEW c \in Peers, q.queue[c] # << >>
  PROVE  LET r == drop_head(q, c)
             x == Rest(q, Head(q.queue[c]))
         IN  /\ BufsOK(r) /\ Apart(q, r, c) /\ Fewer(q, r, c)
             /\ WantLess(q, r, c, Len(x))
             /\ x \in Seq(Units) /\ x # << >> /\ Content(q, c) = x \o Content(r, c)
             /\ Len(r.queue[c]) = Len(q.queue[c]) - 1
<1>1. PICK us \in Seq(Uses) : us = q.queue[c]
  BY DEF BufsOK, MemTyped
<1>2. PICK u : u = Head(us)
  OBVIOUS
<1>3. u = us[1] /\ 1 \in 1 .. Len(us) /\ u \in Uses /\ us # << >>
  BY <1>1, <1>2
<1>4. UseOK(q, u) /\ MemTyped(q)
  BY <1>1, <1>3 DEF BufsOK, UsesOK
<1>5. PICK b : b = u.buf
  OBVIOUS
<1>6. b \in InUse(q) /\ b = Head(q.queue[c]).buf
  BY <1>1, <1>2, <1>4, <1>5 DEF UseOK
<1>7. PICK x : x = Rest(q, u)
  OBVIOUS
<1>8. x \in Seq(Units) /\ x # << >>
  BY <1>3, <1>4, <1>7, RestIs
<1>9. PICK k \in Nat : k = Len(x)
  BY <1>8
<1>10. PICK p : p = unwanted(q, c, k)
  OBVIOUS
<1>11. /\ SameBut(q, p) /\ p.bufs = q.bufs /\ p.queue = q.queue /\ MemTyped(p)
       /\ WantLess(q, p, c, k)
  BY <1>4, <1>10, Unwanted
<1>12. PICK vs : vs = Tail(us)
  OBVIOUS
<1>13. vs \in Seq(Uses) /\ Len(vs) = Len(us) - 1
  BY <1>3, <1>12
<1>14. PICK o : o = set_queue(p, c, vs)
  OBVIOUS
<1>15. /\ SameBut(p, o) /\ o.bufs = p.bufs /\ o.want = p.want
       /\ o.queue \in [Peers -> Seq(Uses)] /\ o.queue[c] = vs
       /\ \A d \in Peers \ {c} : o.queue[d] = p.queue[d]
  BY <1>11, <1>13, <1>14, SetQueue
<1>16. MemTyped(o) /\ InUse(o) = InUse(q) /\ o.bufs = q.bufs /\ o.shares = q.shares
  BY <1>11, <1>15 DEF MemTyped, SameBut, InUse
<1>17. PICK r : r = one_less(o, b)
  OBVIOUS
<1>18. drop_head(q, c) = r
  BY <1>1, <1>2, <1>5, <1>7, <1>9, <1>10, <1>12, <1>14, <1>17 DEF drop_head
<1>19. PICK y : y = [o.bufs[b] EXCEPT !.refs = o.bufs[b].refs - 1]
  OBVIOUS
<1>20. q.bufs[b] \in SBuffers /\ q.bufs[b].refs \in Nat /\ q.bufs[b].refs > 0
  <2>1. q.bufs[b] \in SBuffers /\ q.bufs[b].refs \in Nat
    BY <1>4, <1>6 DEF MemTyped, SBuffers
  <2>2. c \in UsersOf(q, b)
    BY <1>1, <1>3, <1>5, UsersAre DEF UsesBuf
  <2>3. Cardinality(UsersOf(q, b)) # 0
    BY <2>2, UsersFinite, FS_EmptySet
  <2>4. q.bufs[b].refs = Cardinality(UsersOf(q, b))
    BY <1>6 DEF BufsOK, Counts, Counted
  <2> QED BY <2>1, <2>3, <2>4
<1>21. y \in SBuffers /\ y.data = q.bufs[b].data /\ y.size = q.bufs[b].size /\ y.refs = q.bufs[b].refs - 1
  BY <1>16, <1>19, <1>20, SMTT(30) DEF SBuffers
<1>22. /\ SameBut(o, r) /\ r.queue = o.queue /\ r.want = o.want /\ r.bufs \in [InUse(r) -> SBuffers]
       /\ IsFiniteSet(InUse(r))
       /\ InUse(o) \ {b} \subseteq InUse(r) /\ InUse(r) \subseteq InUse(o)
       /\ \A a \in InUse(o) \ {b} : r.bufs[a] = o.bufs[a]
       /\ IF q.bufs[b].refs = 1 /\ b \notin q.shares THEN b \notin InUse(r)
          ELSE b \in InUse(r) /\ r.bufs[b] = y
  <2>1. CASE q.bufs[b].refs = 1 /\ b \notin q.shares
    <3>1. r = sbuf_free(o, b)
      BY <1>16, <1>17, <2>1 DEF one_less
    <3>2. /\ SameBut(o, r) /\ r.queue = o.queue /\ r.want = o.want
          /\ InUse(r) = InUse(o) \ {b} /\ r.bufs \in [InUse(r) -> SBuffers]
          /\ IsFiniteSet(InUse(r))
          /\ \A a \in InUse(o) \ {b} : r.bufs[a] = o.bufs[a]
      BY <1>6, <1>16, <3>1, FreeBuf
    <3> QED BY <2>1, <3>2
  <2>2. CASE ~ (q.bufs[b].refs = 1 /\ b \notin q.shares)
    <3>1. r = set_buf(o, b, y)
      BY <1>16, <1>17, <1>19, <2>2, SMTT(30) DEF one_less
    <3>2. /\ SameBut(o, r) /\ r.queue = o.queue /\ r.want = o.want
          /\ InUse(r) = InUse(o) /\ r.bufs \in [InUse(o) -> SBuffers] /\ r.bufs[b] = y
          /\ \A a \in InUse(o) \ {b} : r.bufs[a] = o.bufs[a]
      BY <1>6, <1>16, <1>21, <3>1, SetBuf
    <3>3. IsFiniteSet(InUse(r))
      BY <1>16, <3>2 DEF MemTyped
    <3> QED BY <1>6, <1>16, <2>2, <3>2, <3>3
  <2> QED BY <2>1, <2>2
<1>23. r.shares \subseteq InUse(r)
  <2>1. r.shares = q.shares /\ q.shares \subseteq InUse(q)
    BY <1>4, <1>16, <1>22 DEF SameBut, MemTyped
  <2> QED BY <1>16, <1>22, <2>1
<1>24. MemTyped(r)
  BY <1>16, <1>22, <1>23 DEF MemTyped, SameBut
<1>25. Pops(q, r, c, b)
  <2>1. SameBut(q, r)
    BY <1>11, <1>15, <1>22 DEF SameBut
  <2>2. r.queue[c] = Tail(q.queue[c]) /\ \A d \in Peers \ {c} : r.queue[d] = q.queue[d]
    BY <1>1, <1>11, <1>12, <1>15, <1>22
  <2>3. /\ InUse(q) \ {b} \subseteq InUse(r) /\ InUse(r) \subseteq InUse(q)
        /\ \A a \in InUse(q) \ {b} : r.bufs[a] = q.bufs[a]
    BY <1>16, <1>22
  <2>4. IF q.bufs[b].refs = 1 /\ b \notin q.shares THEN b \notin InUse(r)
        ELSE /\ b \in InUse(r) /\ r.bufs[b].data = q.bufs[b].data /\ r.bufs[b].size = q.bufs[b].size
             /\ r.bufs[b].refs = q.bufs[b].refs - 1
    BY <1>21, <1>22
  <2> QED BY <2>1, <2>2, <2>3, <2>4 DEF Pops
<1>26. /\ BufsOK(r) /\ Apart(q, r, c) /\ Fewer(q, r, c)
       /\ Content(q, c) = Rest(q, Head(q.queue[c])) \o Content(r, c)
  BY <1>6, <1>24, <1>25, Popped
<1>27. WantLess(q, r, c, k)
  BY <1>11, <1>15, <1>22 DEF WantLess
<1>28. x = Rest(q, Head(q.queue[c]))
  BY <1>1, <1>2, <1>7
<1>29. Len(r.queue[c]) = Len(q.queue[c]) - 1
  BY <1>1, <1>13, <1>15, <1>22
<1> QED BY <1>8, <1>9, <1>18, <1>26, <1>27, <1>28, <1>29

\* r has the first k units of c's queue in q no more.
Takes(q, r, c, k) == \E z \in Seq(Units) : Len(z) = k /\ Content(q, c) = z \o Content(r, c)

\* Part of the first buffer is off the queue.
LEMMA Cut ==
  ASSUME NEW q, BufsOK(q), NEW c \in Peers, q.queue[c] # << >>, NEW k \in Nat,
         k < Len(Rest(q, Head(q.queue[c])))
  PROVE  LET r == cut_head(q, c, k)
         IN  /\ BufsOK(r) /\ Apart(q, r, c) /\ Fewer(q, r, c)
             /\ WantLess(q, r, c, k) /\ Takes(q, r, c, k)
<1>1. PICK us \in Seq(Uses) : us = q.queue[c]
  BY DEF BufsOK, MemTyped
<1>2. PICK u : u = Head(us)
  OBVIOUS
<1>3. u = us[1] /\ 1 \in 1 .. Len(us) /\ u \in Uses /\ us # << >>
  BY <1>1, <1>2
<1>4. UseOK(q, u) /\ MemTyped(q)
  BY <1>1, <1>3 DEF BufsOK, UsesOK
<1>5. PICK b \in Nat, s \in Nat : b = u.buf /\ s = u.start
  BY <1>3 DEF Uses
<1>6. b \in InUse(q) /\ s < Len(q.bufs[b].data)
  BY <1>4, <1>5 DEF UseOK
<1>7. PICK x : x = Rest(q, u)
  OBVIOUS
<1>8. PICK dt \in Seq(Units) : dt = q.bufs[b].data
  BY <1>4, <1>6, SMTT(30) DEF MemTyped, SBuffers
<1>9. x \in Seq(Units) /\ Len(x) = Len(dt) - s /\ x = SubSeq(dt, s + 1, Len(dt))
  BY <1>3, <1>4, <1>5, <1>7, <1>8, RestIs DEF Rest
<1>10. k < Len(x)
  BY <1>1, <1>2, <1>7
<1>11. PICK v : v = [buf |-> b, start |-> s + k]
  OBVIOUS
<1>12. v \in Uses /\ v.buf = b /\ v.start = s + k
  BY <1>11 DEF Uses
<1>13. PICK vs : vs = <<v>> \o Tail(us)
  OBVIOUS
<1>14. /\ vs \in Seq(Uses) /\ Len(vs) = Len(us) /\ vs[1] = v
       /\ \A i \in 2 .. Len(us) : vs[i] = us[i]
  <2>1. PICK tt : tt = Tail(us)
    OBVIOUS
  <2>2. tt \in Seq(Uses) /\ Len(tt) = Len(us) - 1 /\ \A i \in 1 .. Len(us) - 1 : tt[i] = us[i + 1]
    BY <1>3, <2>1
  <2>3. /\ vs \in Seq(Uses) /\ Len(vs) = Len(tt) + 1 /\ vs[1] = v
        /\ \A i \in 2 .. Len(vs) : vs[i] = tt[i - 1]
    BY <1>12, <1>13, <2>1, <2>2, PushSpec
  <2>4. ASSUME NEW i \in 2 .. Len(us) PROVE vs[i] = us[i]
    <3>1. i - 1 \in 1 .. Len(us) - 1 /\ (i - 1) + 1 = i /\ i \in 2 .. Len(vs)
      BY <1>3, <2>2, <2>3
    <3> QED BY <2>2, <2>3, <3>1
  <2>5. Len(vs) = Len(us)
    BY <1>3, <2>2, <2>3
  <2> QED BY <2>3, <2>4, <2>5
<1>15. PICK n \in Nat : n = Len(us) /\ n >= 1
  BY <1>3
<1>16. \A i \in 1 .. n : vs[i].buf = us[i].buf
  <2> TAKE i \in 1 .. n
  <2>1. CASE i = 1
    BY <1>3, <1>5, <1>12, <1>14, <2>1
  <2>2. CASE i # 1
    BY <1>14, <1>15, <2>2
  <2> QED BY <2>1, <2>2
<1>17. PICK p : p = unwanted(q, c, k)
  OBVIOUS
<1>18. /\ SameBut(q, p) /\ p.bufs = q.bufs /\ p.queue = q.queue /\ MemTyped(p)
       /\ WantLess(q, p, c, k)
  BY <1>4, <1>17, Unwanted
<1>19. PICK r : r = set_queue(p, c, vs)
  OBVIOUS
<1>20. /\ SameBut(p, r) /\ r.bufs = p.bufs /\ r.want = p.want
       /\ r.queue \in [Peers -> Seq(Uses)] /\ r.queue[c] = vs
       /\ \A d \in Peers \ {c} : r.queue[d] = p.queue[d]
  BY <1>14, <1>18, <1>19, SetQueue
<1>21. cut_head(q, c, k) = r
  BY <1>1, <1>2, <1>5, <1>11, <1>13, <1>17, <1>19 DEF cut_head
<1>22. MemTyped(r) /\ InUse(r) = InUse(q) /\ r.bufs = q.bufs /\ r.shares = q.shares /\ SameBut(q, r)
  BY <1>18, <1>20 DEF MemTyped, SameBut, InUse
<1>23. \A d \in Peers \ {c} : r.queue[d] = q.queue[d]
  BY <1>18, <1>20
<1>24. UseOK(r, v)
  <2>1. s + k < Len(dt)
    BY <1>9, <1>10
  <2> QED BY <1>6, <1>8, <1>12, <1>22, <2>1 DEF UseOK
<1>25. UsesOK(r)
  <2> SUFFICES ASSUME NEW d \in Peers, NEW i \in 1 .. Len(r.queue[d]) PROVE UseOK(r, r.queue[d][i])
    BY DEF UsesOK
  <2>1. ASSUME NEW j \in 1 .. Len(q.queue[d]) PROVE UseOK(r, q.queue[d][j])
    <3>1. UseOK(q, q.queue[d][j])
      BY DEF BufsOK, UsesOK
    <3> QED BY <1>22, <3>1 DEF UseOK
  <2>2. CASE d # c
    BY <1>23, <2>1, <2>2
  <2>3. CASE d = c
    <3>1. i \in 1 .. n /\ r.queue[d][i] = vs[i]
      BY <1>14, <1>15, <1>20, <2>3
    <3>2. CASE i = 1
      BY <1>14, <1>24, <3>1, <3>2
    <3>3. CASE i # 1
      <4>1. vs[i] = us[i] /\ i \in 1 .. Len(q.queue[d]) /\ us = q.queue[d]
        BY <1>1, <1>14, <1>15, <2>3, <3>1, <3>3
      <4> QED BY <2>1, <3>1, <4>1
    <3> QED BY <3>2, <3>3
  <2> QED BY <2>2, <2>3
<1>26. OnceEach(r)
  <2> SUFFICES ASSUME NEW d \in Peers PROVE Once(r.queue[d])
    BY DEF OnceEach
  <2>1. Once(q.queue[d])
    BY DEF BufsOK, OnceEach
  <2>2. CASE d # c
    BY <1>23, <2>1, <2>2
  <2>3. CASE d = c
    BY <1>1, <1>14, <1>15, <1>16, <1>20, <2>1, <2>3 DEF Once
  <2> QED BY <2>2, <2>3
<1>27. \A d \in Peers : \A a : UsesBuf(r, d, a) <=> UsesBuf(q, d, a)
  <2> TAKE d \in Peers
  <2>1. CASE d # c
    BY <1>23, <2>1 DEF UsesBuf
  <2>2. CASE d = c
    BY <1>1, <1>14, <1>15, <1>16, <1>20, <2>2 DEF UsesBuf
  <2> QED BY <2>1, <2>2
<1>28. Counts(r)
  <2> SUFFICES ASSUME NEW a \in InUse(q) PROVE Counted(r, a)
    BY <1>22 DEF Counts
  <2>1. UsersOf(r, a) = UsersOf(q, a)
    <3>1. \A d \in Peers : d \in UsersOf(r, a) <=> d \in UsersOf(q, a)
      BY <1>27, UsersAre
    <3> QED BY <3>1 DEF UsersOf
  <2>2. Counted(q, a)
    BY DEF BufsOK, Counts
  <2> QED BY <1>22, <2>1, <2>2 DEF Counted
<1>29. Fits(r)
  BY <1>22 DEF BufsOK, Fits
<1>30. BufsOK(r)
  BY <1>22, <1>25, <1>26, <1>28, <1>29 DEF BufsOK
<1>31. Apart(q, r, c) /\ Fewer(q, r, c)
  <2>1. ASSUME NEW d \in Peers \ {c} PROVE Content(r, d) = Content(q, d) /\ r.queue[d] = q.queue[d]
    BY <1>4, <1>22, <1>23, SameContent
  <2> QED BY <1>22, <1>27, <2>1 DEF Apart, Fewer, SameBut
<1>32. WantLess(q, r, c, k)
  BY <1>18, <1>20 DEF WantLess
<1>33. Takes(q, r, c, k)
  <2>1. PICK rs \in Seq(Seq(Units)) : /\ rs = Rests(q, c) /\ Len(rs) = n
                                       /\ \A i \in 1 .. n : rs[i] = Rest(q, us[i])
    BY <1>1, <1>15, RestsAre DEF BufsOK
  <2>2. PICK ts \in Seq(Seq(Units)) : /\ ts = Rests(r, c) /\ Len(ts) = n
                                       /\ \A i \in 1 .. n : ts[i] = Rest(r, vs[i])
    BY <1>14, <1>15, <1>20, <1>22, <1>25, RestsAre
  <2>3. rs # << >> /\ Head(rs) = rs[1] /\ rs[1] = x
    BY <1>3, <1>7, <1>15, <2>1
  <2>4. PICK y : y = Rest(r, v)
    OBVIOUS
  <2>5. ts # << >> /\ Head(ts) = ts[1] /\ ts[1] = y
    BY <1>14, <1>15, <2>2, <2>4
  <2>6. \A i \in 2 .. n : ts[i] = rs[i]
    <3> TAKE i \in 2 .. n
    <3>1. i \in 1 .. n /\ vs[i] = us[i]
      BY <1>14, <1>15
    <3>2. Rest(r, us[i]) = Rest(q, us[i])
      BY <1>22 DEF Rest
    <3> QED BY <2>1, <2>2, <3>1, <3>2
  <2>7. Tail(ts) = Tail(rs)
    <3>1. PICK a1, a2 : a1 = Tail(rs) /\ a2 = Tail(ts)
      OBVIOUS
    <3>2. a1 \in Seq(Seq(Units)) /\ Len(a1) = n - 1 /\ \A i \in 1 .. n - 1 : a1[i] = rs[i + 1]
      BY <1>15, <2>1, <2>3, <3>1
    <3>3. a2 \in Seq(Seq(Units)) /\ Len(a2) = n - 1 /\ \A i \in 1 .. n - 1 : a2[i] = ts[i + 1]
      BY <1>15, <2>2, <2>5, <3>1
    <3>4. \A i \in 1 .. Len(a1) : a1[i] = a2[i]
      BY <1>15, <2>6, <3>2, <3>3
    <3> QED BY <3>1, <3>2, <3>3, <3>4, SeqEqual
  <2>8. PICK t : t = FlattenSeq(Tail(rs))
    OBVIOUS
  <2>9. FlattenSeq(rs) = x \o t /\ t \in Seq(Units)
    BY <2>3, <2>8, FlatHead
  <2>10. FlattenSeq(ts) = y \o t
    BY <2>5, <2>7, <2>8, FlatHead
  <2>11. Content(q, c) = FlattenSeq(rs)
    BY <2>1, RestsAre DEF BufsOK
  <2>12. Content(r, c) = FlattenSeq(ts)
    BY <1>22, <1>25, <2>2, RestsAre
  <2>13. y = SubSeq(dt, s + k + 1, Len(dt))
    BY <1>8, <1>12, <1>22, <2>4 DEF Rest
  <2>14. PICK z : z = SubSeq(dt, s + 1, s + k)
    OBVIOUS
  <2>15. z \in Seq(Units) /\ Len(z) = k /\ y \in Seq(Units)
    <3>1. s + k < Len(dt) /\ Len(dt) \in Nat
      BY <1>9, <1>10
    <3> QED BY <2>13, <2>14, <3>1
  <2>16. z \o y = x
    <3>1. s + 1 \in 1 .. Len(dt) + 1 /\ s + k \in s + 1 - 1 .. Len(dt) /\ Len(dt) \in s + k .. Len(dt)
      BY <1>9, <1>10
    <3>2. PICK m1, m2 : m1 = s + 1 /\ m2 = s + k
      OBVIOUS
    <3>3. m1 \in 1 .. Len(dt) + 1 /\ m2 \in m1 - 1 .. Len(dt) /\ Len(dt) \in m2 .. Len(dt)
      BY <3>1, <3>2
    <3>4. SubSeq(dt, m1, m2) \o SubSeq(dt, m2 + 1, Len(dt)) = SubSeq(dt, m1, Len(dt))
      BY <3>3, ConcatAdjacentSubSeq
    <3> QED BY <1>9, <2>13, <2>14, <3>2, <3>4
  <2>17. \A x1, y1, z1 \in Seq(Units) : (x1 \o y1) \o z1 = x1 \o (y1 \o z1)
    BY Concats
  <2>18. (z \o y) \o t = z \o (y \o t)
    BY <2>9, <2>15, <2>17, Zenon
  <2>19. Content(q, c) = z \o Content(r, c)
    BY <2>9, <2>10, <2>11, <2>12, <2>16, <2>18, Zenon
  <2> QED BY <2>15, <2>19 DEF Takes
<1> QED BY <1>21, <1>30, <1>31, <1>32, <1>33

\* Units are off the front of c's queue, and nothing else has changed.
Deleted(q, r, c) ==
  /\ BufsOK(r) /\ Apart(q, r, c) /\ Fewer(q, r, c)
  /\ \A d \in Peers \ {c} : r.want[d] = q.want[d]
  /\ Content(q, c) = q.want[c] => Content(r, c) = r.want[c]
  /\ Len(Content(r, c)) <= Len(Content(q, c))

\* What is in a queue is a sequence of units.
LEMMA ContentTyped ==
  ASSUME NEW q, BufsOK(q), NEW c \in Peers
  PROVE  Content(q, c) \in Seq(Units) /\ Len(Content(q, c)) \in Nat
<1>1. Content(q, c) \in Seq(Units)
  BY RestsAre DEF BufsOK
<1> QED BY <1>1

\* Nothing deleted.
LEMMA DeletedSelf ==
  ASSUME NEW q, BufsOK(q), NEW c \in Peers
  PROVE  Deleted(q, q, c)
BY ContentTyped DEF Deleted, Apart, Fewer

\* Deleted in two steps.
LEMMA DeletedTrans ==
  ASSUME NEW q, NEW r, NEW s, NEW c \in Peers, BufsOK(q), Deleted(q, r, c), Deleted(r, s, c)
  PROVE  Deleted(q, s, c)
<1>1. BufsOK(r) /\ BufsOK(s)
  BY DEF Deleted
<1>2. Apart(q, s, c)
  BY DEF Deleted, Apart
<1>3. Fewer(q, s, c)
  BY DEF Deleted, Apart, Fewer
<1>4. Len(Content(s, c)) <= Len(Content(q, c))
  <2>1. Len(Content(q, c)) \in Nat /\ Len(Content(r, c)) \in Nat /\ Len(Content(s, c)) \in Nat
    BY <1>1, ContentTyped
  <2>2. Len(Content(s, c)) <= Len(Content(r, c)) /\ Len(Content(r, c)) <= Len(Content(q, c))
    BY DEF Deleted
  <2> QED BY <2>1, <2>2
<1> QED BY <1>1, <1>2, <1>3, <1>4 DEF Deleted

\* The same units are off what c is waiting for.
LEMMA TakenWant ==
  ASSUME NEW q, NEW r, NEW c \in Peers, BufsOK(q), BufsOK(r), NEW k \in Nat,
         Apart(q, r, c), Fewer(q, r, c), WantLess(q, r, c, k), Takes(q, r, c, k)
  PROVE  Deleted(q, r, c) /\ Len(Content(q, c)) = Len(Content(r, c)) + k
<1>1. PICK z \in Seq(Units) : Len(z) = k /\ Content(q, c) = z \o Content(r, c)
  BY DEF Takes
<1>2. PICK y \in Seq(Units) : y = Content(r, c)
  BY ContentTyped
<1>3. PICK x : x = z \o y
  OBVIOUS
<1>4. x \in Seq(Units) /\ Len(x) = k + Len(y) /\ Len(y) \in Nat
  <2>1. x \in Seq(Units) /\ Len(x) = Len(z) + Len(y)
    BY <1>3
  <2>2. Len(z) = k
    BY <1>1
  <2>3. Len(y) \in Nat
    OBVIOUS
  <2> QED BY <2>1, <2>2, <2>3
<1>5. SubSeq(x, k + 1, Len(x)) = y
  <2>1. k \in 0 .. Len(z) /\ k = Len(z)
    BY <1>1
  <2>2. SubSeq(z \o y, k + 1, Len(z \o y)) = SubSeq(z, k + 1, Len(z)) \o y
    BY <2>1, LaterRest
  <2>3. SubSeq(z, k + 1, Len(z)) = << >>
    BY <2>1, SubSeqEmpty
  <2>4. << >> \o y = y
    BY ConcatEmptySeq
  <2> QED BY <1>3, <2>2, <2>3, <2>4
<1>6. Content(q, c) = q.want[c] => Content(r, c) = r.want[c]
  BY <1>1, <1>2, <1>3, <1>5 DEF WantLess
<1>7. Len(Content(q, c)) = Len(Content(r, c)) + k
  BY <1>1, <1>2, <1>3, <1>4
<1>8. Len(Content(r, c)) <= Len(Content(q, c))
  BY <1>2, <1>4, <1>7
<1> QED BY <1>6, <1>7, <1>8 DEF Deleted, WantLess

\* A queue with nothing in it has no users, and the other way round.
LEMMA EmptyContent ==
  ASSUME NEW q, BufsOK(q), NEW c \in Peers
  PROVE  q.queue[c] = << >> <=> Len(Content(q, c)) = 0
<1>1. PICK us \in Seq(Uses) : us = q.queue[c]
  BY DEF BufsOK, MemTyped
<1>2. PICK rs \in Seq(Seq(Units)) : rs = Rests(q, c) /\ Len(rs) = Len(us)
  BY <1>1, RestsAre DEF BufsOK
<1>3. Content(q, c) = FlattenSeq(rs)
  BY <1>2, RestsAre DEF BufsOK
<1>4. CASE us = << >>
  <2>1. rs = << >>
    BY <1>2, <1>4
  <2>2. FlattenSeq(rs) = << >>
    BY <2>1, FlatEmpty
  <2> QED BY <1>1, <1>3, <1>4, <2>2
<1>5. CASE us # << >>
  <2>1. q.queue[c] # << >>
    BY <1>1, <1>5
  <2>a. PICK x, r : x = Rest(q, Head(q.queue[c])) /\ r = drop_head(q, c)
    OBVIOUS
  <2>2. x \in Seq(Units) /\ x # << >> /\ BufsOK(r) /\ Content(q, c) = x \o Content(r, c)
    BY <2>1, <2>a, Dropped
  <2>3. PICK y \in Seq(Units) : y = Content(r, c)
    BY <2>2, ContentTyped
  <2>4. Len(x \o y) = Len(x) + Len(y) /\ Len(x) > 0 /\ Len(y) \in Nat
    BY <2>2
  <2> QED BY <2>1, <2>2, <2>3, <2>4
<1> QED BY <1>4, <1>5

\* One turn of sbuf_delete's loop.
LEMMA ChunkDeleted ==
  ASSUME NEW q, BufsOK(q), NEW c \in Peers, NEW n \in Nat, n <= Len(Content(q, c))
  PROVE  LET e == delete_chunk([q |-> q, n |-> n], c)
         IN  /\ e = [q |-> e.q, n |-> e.n] /\ e.n \in Nat /\ e.n <= n
             /\ Deleted(q, e.q, c)
             /\ Len(Content(q, c)) = Len(Content(e.q, c)) + (n - e.n)
             /\ e.n = 0 \/ Len(e.q.queue[c]) = Len(q.queue[c]) - 1
<1>1. PICK d : d = [q |-> q, n |-> n]
  OBVIOUS
<1>2. d.q = q /\ d.n = n
  BY <1>1
<1>3. PICK e : e = delete_chunk(d, c)
  OBVIOUS
<1>4. Len(Content(q, c)) \in Nat
  BY ContentTyped
<1>5. CASE n = 0
  <2>1. e = [q |-> q, n |-> n] /\ e.q = q /\ e.n = n
    BY <1>1, <1>2, <1>3, <1>5 DEF delete_chunk
  <2>2. Deleted(q, q, c)
    BY DeletedSelf
  <2> QED BY <1>1, <1>3, <1>4, <1>5, <2>1, <2>2
<1>6. CASE n # 0
  <2>1. q.queue[c] # << >>
    BY <1>4, <1>6, EmptyContent
  <2>2. PICK x : x = Rest(q, Head(q.queue[c]))
    OBVIOUS
  <2>3. x \in Seq(Units) /\ x # << >>
    BY <2>1, <2>2, Dropped
  <2>4. PICK k \in Nat : k = Len(x)
    BY <2>3
  <2>5. CASE k > n
    <3>1. PICK r : r = cut_head(q, c, n)
      OBVIOUS
    <3>2. e = [q |-> r, n |-> 0] /\ e.q = r /\ e.n = 0
      BY <1>2, <1>3, <1>6, <2>2, <2>4, <2>5, <3>1 DEF delete_chunk
    <3>3. n < Len(Rest(q, Head(q.queue[c])))
      BY <2>2, <2>4, <2>5
    <3>4. /\ BufsOK(r) /\ Apart(q, r, c) /\ Fewer(q, r, c) /\ WantLess(q, r, c, n) /\ Takes(q, r, c, n)
      BY <2>1, <3>1, <3>3, Cut
    <3>5. Deleted(q, r, c) /\ Len(Content(q, c)) = Len(Content(r, c)) + n
      BY <3>4, TakenWant
    <3>6. n - 0 = n /\ 0 <= n
      OBVIOUS
    <3> QED BY <1>1, <1>3, <3>2, <3>5, <3>6
  <2>6. CASE ~ (k > n)
    <3>1. PICK r : r = drop_head(q, c)
      OBVIOUS
    <3>2. e = [q |-> r, n |-> n - k] /\ e.q = r /\ e.n = n - k
      BY <1>2, <1>3, <1>6, <2>2, <2>4, <2>6, <3>1 DEF delete_chunk
    <3>3. /\ BufsOK(r) /\ Apart(q, r, c) /\ Fewer(q, r, c) /\ WantLess(q, r, c, k)
          /\ Content(q, c) = x \o Content(r, c) /\ Len(r.queue[c]) = Len(q.queue[c]) - 1
      BY <2>1, <2>2, <2>4, <3>1, Dropped
    <3>4. Takes(q, r, c, k)
      BY <2>3, <2>4, <3>3 DEF Takes
    <3>5. Deleted(q, r, c) /\ Len(Content(q, c)) = Len(Content(r, c)) + k
      BY <3>3, <3>4, TakenWant
    <3>6. n - k \in Nat /\ n - k <= n /\ n - (n - k) = k
      BY <2>4, <2>6
    <3> QED BY <1>1, <1>3, <3>2, <3>3, <3>5, <3>6
  <2> QED BY <2>5, <2>6
<1> QED BY <1>5, <1>6

\* sbuf_delete, turn by turn.
LEMMA DeleteWalk ==
  ASSUME NEW q, NEW c, NEW n, Len(q.queue[c]) \in Nat
  PROVE  \E F : /\ sbuf_delete(q, c, n) = F[Len(q.queue[c])].q /\ F[0] = [q |-> q, n |-> n]
                /\ \A i \in 1 .. Len(q.queue[c]) : F[i] = delete_chunk(F[i - 1], c)
<1>0. PICK L \in Nat : L = Len(q.queue[c])
  OBVIOUS
<1> DEFINE body(G, i) == IF i = 0 THEN [q |-> q, n |-> n] ELSE delete_chunk(G[i - 1], c)
           S == {m \in 0 .. L : \E G : G = [i \in 0 .. m |-> body(G, i)]}
           F == CHOOSE G : G = [i \in 0 .. L |-> body(G, i)]
<1>2. 0 \in S
  <2> DEFINE G == [i \in 0 .. 0 |-> [q |-> q, n |-> n]]
  <2>1. G = [i \in 0 .. 0 |-> body(G, i)]
    OBVIOUS
  <2>2. 0 \in 0 .. L
    OBVIOUS
  <2> HIDE DEF G, body
  <2> QED BY <2>1, <2>2
<1>3. ASSUME NEW m \in 0 .. L - 1, m \in S PROVE m + 1 \in S
  <2>1. PICK G : G = [i \in 0 .. m |-> body(G, i)]
    BY <1>3
  <2> DEFINE H == [i \in 0 .. m + 1 |-> IF i <= m THEN G[i] ELSE body(G, m + 1)]
  <2>2. ASSUME NEW i \in 0 .. m + 1 PROVE H[i] = body(H, i)
    <3>1. CASE i = 0
      <4>1. H[0] = G[0] /\ G[0] = [q |-> q, n |-> n]
        BY <2>1
      <4> QED BY <3>1, <4>1
    <3>2. CASE i # 0
      <4>1. i - 1 \in 0 .. m /\ H[i - 1] = G[i - 1]
        BY <3>2
      <4>2. H[i] = body(G, i)
        <5>1. CASE i <= m
          <6>1. H[i] = G[i] /\ i \in 0 .. m
            BY <5>1
          <6>2. G[i] = body(G, i)
            BY <2>1, <6>1
          <6> QED BY <6>1, <6>2
        <5>2. CASE ~ (i <= m)
          <6>1. i = m + 1
            BY <5>2
          <6> QED BY <6>1
        <5> QED BY <5>1, <5>2
      <4> QED BY <3>2, <4>1, <4>2
    <3> QED BY <3>1, <3>2
  <2>3. H = [i \in 0 .. m + 1 |-> body(H, i)]
    <3> DEFINE B == [i \in 0 .. m + 1 |-> body(H, i)]
    <3>1. \A i \in 0 .. m + 1 : H[i] = B[i]
      BY <2>2
    <3> HIDE DEF body
    <3> QED BY <3>1
  <2>4. m + 1 \in 0 .. L
    OBVIOUS
  <2> HIDE DEF H
  <2> QED BY <2>3, <2>4
<1>4. L \in S
  <2> HIDE DEF S
  <2>1. \A i \in 0 .. L : i \in S
    BY <1>2, <1>3, InductUpTo
  <2> QED BY <2>1
<1>5. F = [i \in 0 .. L |-> body(F, i)]
  <2>1. PICK G : G = [i \in 0 .. L |-> body(G, i)]
    BY <1>4
  <2> QED BY <2>1
<1>6. sbuf_delete(q, c, n) = F[L].q
  BY <1>0 DEF sbuf_delete
<1> HIDE DEF F
<1>7. F[0] = body(F, 0) /\ \A i \in 1 .. L : F[i] = body(F, i)
  <2>1. 0 \in 0 .. L /\ \A i \in 1 .. L : i \in 0 .. L
    OBVIOUS
  <2> HIDE DEF body
  <2> QED BY <1>5, <2>1
<1>8. F[0] = [q |-> q, n |-> n] /\ \A i \in 1 .. L : F[i] = delete_chunk(F[i - 1], c)
  <2>1. ASSUME NEW i \in 1 .. L PROVE F[i] = delete_chunk(F[i - 1], c)
    <3>1. i # 0 /\ F[i] = body(F, i)
      BY <1>7
    <3> QED BY <3>1
  <2> QED BY <1>7, <2>1
<1> QED BY <1>0, <1>6, <1>8

\* After turn i of the loop that deletes n units.
TurnOK(q, c, n, i, d) ==
  /\ d = [q |-> d.q, n |-> d.n] /\ d.n \in Nat /\ Deleted(q, d.q, c)
  /\ Len(Content(q, c)) = Len(Content(d.q, c)) + (n - d.n)
  /\ d.n = 0 \/ Len(d.q.queue[c]) = Len(q.queue[c]) - i

\* One more turn of sbuf_delete's loop.
LEMMA TurnKept ==
  ASSUME NEW q, BufsOK(q), NEW c \in Peers, NEW n \in Nat, n <= Len(Content(q, c)),
         NEW i \in Nat, i >= 1, NEW d, TurnOK(q, c, n, i - 1, d)
  PROVE  TurnOK(q, c, n, i, delete_chunk(d, c))
<1>1. PICK p, m : d = [q |-> p, n |-> m] /\ p = d.q /\ m = d.n
  BY DEF TurnOK
<1>2. m \in Nat /\ Deleted(q, p, c) /\ Len(Content(q, c)) = Len(Content(p, c)) + (n - m)
      /\ (m = 0 \/ Len(p.queue[c]) = Len(q.queue[c]) - (i - 1))
  BY <1>1 DEF TurnOK
<1>3. BufsOK(p)
  BY <1>2 DEF Deleted
<1>4. PICK a \in Nat, b \in Nat : a = Len(Content(q, c)) /\ b = Len(Content(p, c))
  BY <1>3, ContentTyped
<1>5. m <= Len(Content(p, c))
  <2>1. a = b + (n - m) /\ n <= a
    BY <1>2, <1>4
  <2>2. m <= b
    BY <1>2, <2>1
  <2> QED BY <1>4, <2>2
<1>6. PICK e : e = delete_chunk([q |-> p, n |-> m], c)
  OBVIOUS
<1>7. /\ e = [q |-> e.q, n |-> e.n] /\ e.n \in Nat /\ e.n <= m
      /\ Deleted(p, e.q, c)
      /\ Len(Content(p, c)) = Len(Content(e.q, c)) + (m - e.n)
      /\ e.n = 0 \/ Len(e.q.queue[c]) = Len(p.queue[c]) - 1
  BY <1>2, <1>3, <1>5, <1>6, ChunkDeleted
<1>8. Deleted(q, e.q, c)
  BY <1>2, <1>7, DeletedTrans
<1>9. PICK k \in Nat, g \in Nat : k = e.n /\ g = Len(Content(e.q, c))
  BY <1>7, <1>8, ContentTyped DEF Deleted
<1>10. Len(Content(q, c)) = Len(Content(e.q, c)) + (n - e.n)
  <2>1. a = b + (n - m) /\ b = g + (m - k)
    BY <1>2, <1>4, <1>7, <1>9
  <2>2. a = g + (n - k)
    BY <1>2, <2>1
  <2> QED BY <1>4, <1>9, <2>2
<1>11. e.n = 0 \/ Len(e.q.queue[c]) = Len(q.queue[c]) - i
  <2>1. CASE e.n = 0
    BY <2>1
  <2>2. CASE e.n # 0
    <3>1. m # 0
      BY <1>2, <1>7, <2>2
    <3>2. Len(e.q.queue[c]) = Len(p.queue[c]) - 1 /\ Len(p.queue[c]) = Len(q.queue[c]) - (i - 1)
      BY <1>2, <1>7, <2>2, <3>1
    <3>3. Len(q.queue[c]) \in Nat
      BY DEF BufsOK, MemTyped
    <3> QED BY <3>2, <3>3
  <2> QED BY <2>1, <2>2
<1> QED BY <1>1, <1>6, <1>7, <1>8, <1>10, <1>11 DEF TurnOK

\* sbuf_delete takes the first n units off the queue of c and leaves the others' alone.
LEMMA DeleteSpec ==
  ASSUME NEW q, BufsOK(q), NEW c \in Peers, NEW n \in Nat, n <= Len(Content(q, c))
  PROVE  LET r == sbuf_delete(q, c, n)
         IN  /\ Deleted(q, r, c)
             /\ n = Len(Content(q, c)) => r.queue[c] = << >>
<1>1. PICK L \in Nat : L = Len(q.queue[c])
  BY DEF BufsOK, MemTyped
<1>2. PICK F : /\ sbuf_delete(q, c, n) = F[L].q /\ F[0] = [q |-> q, n |-> n]
               /\ \A i \in 1 .. L : F[i] = delete_chunk(F[i - 1], c)
  BY <1>1, DeleteWalk
<1> DEFINE S == {i \in 0 .. L : TurnOK(q, c, n, i, F[i])}
<1>3. 0 \in S
  <2>1. PICK d : d = [q |-> q, n |-> n]
    OBVIOUS
  <2>2. d.q = q /\ d.n = n
    BY <2>1
  <2>3. Deleted(q, q, c) /\ Len(Content(q, c)) \in Nat
    BY DeletedSelf, ContentTyped
  <2>4. Len(Content(q, c)) = Len(Content(q, c)) + (n - n) /\ Len(q.queue[c]) = Len(q.queue[c]) - 0
    BY <1>1, <2>3
  <2>5. TurnOK(q, c, n, 0, d)
    BY <2>1, <2>2, <2>3, <2>4 DEF TurnOK
  <2>6. F[0] = d
    BY <1>2, <2>1
  <2>7. TurnOK(q, c, n, 0, F[0])
    BY <2>5, <2>6
  <2> QED BY <2>7
<1>4. ASSUME NEW j \in 1 .. L, j - 1 \in S PROVE j \in S
  <2>1. TurnOK(q, c, n, j - 1, F[j - 1]) /\ j \in Nat /\ j >= 1 /\ j \in 0 .. L
    BY <1>4
  <2>2. TurnOK(q, c, n, j, delete_chunk(F[j - 1], c))
    BY <2>1, TurnKept
  <2>3. F[j] = delete_chunk(F[j - 1], c)
    BY <1>2
  <2>4. TurnOK(q, c, n, j, F[j])
    BY <2>2, <2>3
  <2> QED BY <2>1, <2>4
<1> HIDE DEF S
<1>5. \A i \in 0 .. L : i \in S
  BY <1>3, <1>4, InductFromBelow
<1>6. TurnOK(q, c, n, L, F[L])
  <2>1. L \in S
    BY <1>5
  <2> QED BY <2>1 DEF S
<1>7. PICK d : d = F[L]
  OBVIOUS
<1>8. /\ d.n \in Nat /\ Deleted(q, d.q, c) /\ Len(Content(q, c)) = Len(Content(d.q, c)) + (n - d.n)
      /\ (d.n = 0 \/ Len(d.q.queue[c]) = Len(q.queue[c]) - L)
  BY <1>6, <1>7 DEF TurnOK
<1>9. BufsOK(d.q)
  BY <1>8 DEF Deleted
<1>10. ASSUME n = Len(Content(q, c)) PROVE d.q.queue[c] = << >>
  <2>1. PICK g \in Nat : g = Len(Content(d.q, c))
    BY <1>9, ContentTyped
  <2>2. g = d.n
    BY <1>8, <1>10, <2>1
  <2>3. CASE d.n = 0
    BY <1>9, <2>1, <2>2, <2>3, EmptyContent
  <2>4. CASE d.n # 0
    <3>1. Len(d.q.queue[c]) = 0
      BY <1>1, <1>8, <2>4
    <3>2. d.q.queue[c] \in Seq(Uses)
      BY <1>9 DEF BufsOK, MemTyped
    <3> QED BY <3>1, <3>2
  <2> QED BY <2>3, <2>4
<1>11. sbuf_delete(q, c, n) = d.q
  BY <1>2, <1>7
<1> QED BY <1>8, <1>10, <1>11

----------------------------------------------------------------------------
\* sbuf_put.
LEMMA FillSpec ==
  ASSUME NEW q, BufsOK(q), NEW c \in Peers, NEW data \in Seq(Units), data # << >>, Len(data) <= LargeBuf
  PROVE  LET r == fill(q, c, data)
         IN  /\ BufsOK(r) /\ Apart(q, r, c) /\ Fewer(q, r, c) /\ r.want = q.want
             /\ Content(r, c) = Content(q, c) \o data
<1>1. PICK n : n = IF ~ appendable(q, c) THEN 0
                   ELSE IF Room(q, c) < Len(data) THEN Room(q, c) ELSE Len(data)
  OBVIOUS
<1>2. PICK l \in Nat : l = Len(data) /\ l > 0
  OBVIOUS
<1>3. appendable(q, c) =>
        /\ q.queue[c] # << >> /\ Last(q.queue[c]).buf \in InUse(q) /\ q.bufs[Last(q.queue[c]).buf].refs <= 1
        /\ Room(q, c) \in Nat
        /\ Len(q.bufs[Last(q.queue[c]).buf].data) + Room(q, c) = q.bufs[Last(q.queue[c]).buf].size
        /\ Len(q.bufs[Last(q.queue[c]).buf].data) \in Nat
  <2> SUFFICES ASSUME appendable(q, c)
               PROVE  /\ q.queue[c] # << >> /\ Last(q.queue[c]).buf \in InUse(q)
                      /\ q.bufs[Last(q.queue[c]).buf].refs <= 1
                      /\ Room(q, c) \in Nat
                      /\ Len(q.bufs[Last(q.queue[c]).buf].data) + Room(q, c) = q.bufs[Last(q.queue[c]).buf].size
                      /\ Len(q.bufs[Last(q.queue[c]).buf].data) \in Nat
    OBVIOUS
  <2>1. q.queue[c] # << >> /\ q.bufs[Last(q.queue[c]).buf].refs <= 1
    BY DEF appendable
  <2>2. PICK us \in Seq(Uses) : us = q.queue[c]
    BY DEF BufsOK, MemTyped
  <2>3. Last(us) = us[Len(us)] /\ Len(us) \in 1 .. Len(us)
    BY <2>1, <2>2 DEF Last
  <2>4. PICK b : b = Last(q.queue[c]).buf
    OBVIOUS
  <2>5. b \in InUse(q)
    BY <2>2, <2>3, <2>4 DEF BufsOK, UsesOK, UseOK
  <2>6. q.bufs[b] \in SBuffers /\ Len(q.bufs[b].data) <= q.bufs[b].size
    BY <2>5 DEF BufsOK, MemTyped, Fits
  <2>7. PICK k \in Nat, z \in Nat : k = Len(q.bufs[b].data) /\ z = q.bufs[b].size
    BY <2>6 DEF SBuffers
  <2>8. Room(q, c) = z - k
    BY <2>4, <2>7 DEF Room
  <2>9. z - k \in Nat /\ k + (z - k) = z
    <3>1. k <= z
      BY <2>6, <2>7
    <3> QED BY <3>1
  <2> QED BY <2>1, <2>4, <2>5, <2>7, <2>8, <2>9
<1>4. n \in 0 .. l /\ (n # 0 => appendable(q, c) /\ n <= Room(q, c))
  BY <1>1, <1>2, <1>3
<1>5. PICK h, t : h = SubSeq(data, 1, n) /\ t = SubSeq(data, n + 1, l)
  OBVIOUS
<1>6. /\ h \in Seq(Units) /\ Len(h) = n /\ t \in Seq(Units) /\ Len(t) = l - n /\ h \o t = data
  <2>1. h \in Seq(Units) /\ Len(h) = n /\ t \in Seq(Units) /\ Len(t) = l - n
    BY <1>2, <1>4, <1>5
  <2>2. 1 \in 1 .. Len(data) + 1 /\ n \in 1 - 1 .. Len(data) /\ Len(data) \in n .. Len(data)
    BY <1>2, <1>4
  <2>3. SubSeq(data, 1, n) \o SubSeq(data, n + 1, Len(data)) = SubSeq(data, 1, Len(data))
    BY <2>2, ConcatAdjacentSubSeq
  <2>4. SubSeq(data, 1, Len(data)) = data
    BY SubSeqFull
  <2> QED BY <1>2, <1>5, <2>1, <2>3, <2>4
<1>7. PICK p : p = IF n = 0 THEN q ELSE grow(q, Last(q.queue[c]).buf, h)
  OBVIOUS
<1>8. \A x, y, z \in Seq(Units) : (x \o y) \o z = x \o (y \o z)
  BY Concats
<1>9. \A x \in Seq(Units) : x \o << >> = x
  BY Concats
<1>10. Content(q, c) \in Seq(Units)
  BY ContentTyped
<1>11. /\ BufsOK(p) /\ Apart(q, p, c) /\ Fewer(q, p, c) /\ p.want = q.want
       /\ Content(p, c) = Content(q, c) \o h
  <2>1. CASE n = 0
    <3>1. p = q /\ h = << >>
      BY <1>6, <1>7, <2>1
    <3>2. Apart(q, q, c) /\ Fewer(q, q, c)
      BY DEF Apart, Fewer
    <3>3. Content(q, c) = Content(q, c) \o << >>
      BY <1>9, <1>10, Zenon
    <3> QED BY <3>1, <3>2, <3>3
  <2>2. CASE n # 0
    <3>1. PICK b : b = Last(q.queue[c]).buf
      OBVIOUS
    <3>2. q.queue[c] # << >> /\ q.bufs[b].refs <= 1
      BY <1>3, <1>4, <2>2, <3>1
    <3>3. Len(q.bufs[b].data) + Len(h) <= q.bufs[b].size
      <4>1. PICK k \in Nat, m \in Nat : k = Len(q.bufs[b].data) /\ m = Room(q, c) /\ k + m = q.bufs[b].size
        BY <1>3, <1>4, <2>2, <3>1
      <4>2. n <= m
        BY <1>4, <2>2, <4>1
      <4>3. k + n <= k + m
        BY <1>4, <4>2
      <4> QED BY <1>6, <4>1, <4>3
    <3>4. p = grow(q, b, h)
      BY <1>7, <2>2, <3>1
    <3>5. h \in Seq(Units)
      BY <1>6
    <3> QED BY <3>1, <3>2, <3>3, <3>4, <3>5, Grown, ZenonT(40)
  <2> QED BY <2>1, <2>2
<1>12. CASE n = l
  <2>1. fill(q, c, data) = p
    BY <1>1, <1>2, <1>5, <1>7, <1>12 DEF fill
  <2>2. t = << >> /\ h = data
    <3>1. t = << >>
      BY <1>2, <1>6, <1>12
    <3>2. h \o << >> = h
      BY <1>6, <1>9
    <3> QED BY <1>6, <3>1, <3>2
  <2> QED BY <1>11, <2>1, <2>2
<1>13. CASE n # l
  <2>1. PICK r : r = with_user(with_buf(p, t, 1), c, sbuf_alloc(p))
    OBVIOUS
  <2>2. fill(q, c, data) = r
    BY <1>1, <1>2, <1>5, <1>7, <1>13, <2>1 DEF fill
  <2>3. t # << >> /\ Len(t) <= LargeBuf
    <3>1. LargeBuf \in Nat
      BY SendAssumption
    <3> QED BY <1>2, <1>4, <1>6, <1>13, <3>1
  <2>4. /\ BufsOK(r) /\ Apart(p, r, c) /\ Fewer(p, r, c) /\ r.want = p.want
        /\ Content(r, c) = Content(p, c) \o t
    BY <1>6, <1>11, <2>1, <2>3, NewUser
  <2>5. Apart(q, r, c)
    BY <1>11, <2>4 DEF Apart
  <2>6. Fewer(q, r, c)
    BY <1>11, <2>4 DEF Fewer, Apart
  <2>7. (Content(q, c) \o h) \o t = Content(q, c) \o (h \o t)
    BY <1>6, <1>8, <1>10, Zenon
  <2>8. Content(r, c) = Content(q, c) \o data
    BY <1>6, <1>11, <2>4, <2>7, Zenon
  <2> QED BY <1>11, <2>2, <2>4, <2>5, <2>6, <2>8
<1> QED BY <1>12, <1>13

\* The invariant of the memory.
Right(q, c) == c \notin q.mixed => Content(q, c) = q.want[c]
Short(q, c) == Length(q, c) <= MaxSendQ + LargeBuf
Gone(q, c)  == c \in q.dead => q.queue[c] = << >>
Good(q) == BufsOK(q) /\ \A c \in Peers : Right(q, c) /\ Short(q, c) /\ Gone(q, c)

\* What sending without sharing does.
Kept(q, r) == Good(r) /\ r.shares = q.shares /\ \A d \in Peers : Fewer(q, r, d)

\* Nothing sent.
LEMMA KeptSelf ==
  ASSUME NEW q, Good(q)
  PROVE  Kept(q, q)
BY DEF Kept, Fewer

\* Sent in two steps.
LEMMA KeptTrans ==
  ASSUME NEW q, NEW r, NEW s, Kept(q, r), Kept(r, s)
  PROVE  Kept(q, s)
BY DEF Kept, Fewer

\* A memory whose buffers and queues are those of another.
LEMMA SameBufs ==
  ASSUME NEW q, BufsOK(q), NEW r, Shape(r), r.bufs = q.bufs, r.queue = q.queue, r.shares = q.shares,
         r.want \in [Peers -> Seq(Units)], r.dead \subseteq Peers, r.mixed \subseteq Peers
  PROVE  /\ BufsOK(r)
         /\ \A d \in Peers : Content(r, d) = Content(q, d) /\ Fewer(q, r, d)
<1>1. InUse(r) = InUse(q)
  BY DEF InUse
<1>2. MemTyped(r)
  BY <1>1 DEF BufsOK, MemTyped
<1>3. Fits(r)
  BY <1>1 DEF BufsOK, Fits
<1>4. UsesOK(r)
  BY <1>1 DEF BufsOK, UsesOK, UseOK
<1>5. OnceEach(r)
  BY DEF BufsOK, OnceEach
<1>6. \A b : UsersOf(r, b) = UsersOf(q, b)
  BY DEF UsersOf
<1>7. Counts(r)
  BY <1>1, <1>6 DEF BufsOK, Counts, Counted
<1>8. ASSUME NEW d \in Peers PROVE Content(r, d) = Content(q, d) /\ Fewer(q, r, d)
  <2>1. Fewer(q, r, d)
    BY DEF Fewer, UsesBuf
  <2>2. MemTyped(q)
    BY DEF BufsOK
  <2>3. Content(r, d) = Content(q, d)
    BY <2>2, SameContent
  <2> QED BY <2>1, <2>3
<1> QED BY <1>2, <1>3, <1>4, <1>5, <1>7, <1>8 DEF BufsOK

\* A step that changes the queue of c alone.
LEMMA Elsewhere ==
  ASSUME NEW q, Good(q), NEW c \in Peers, NEW r, BufsOK(r), r.shares = q.shares, Fewer(q, r, c),
         \A d \in Peers \ {c} : /\ Content(r, d) = Content(q, d) /\ r.queue[d] = q.queue[d]
                                /\ r.want[d] = q.want[d],
         \A d \in Peers \ {c} : (d \in r.dead => d \in q.dead) /\ (d \in q.mixed => d \in r.mixed),
         Right(r, c), Short(r, c), Gone(r, c)
  PROVE  Kept(q, r)
<1>1. ASSUME NEW d \in Peers \ {c} PROVE Right(r, d) /\ Short(r, d) /\ Gone(r, d) /\ Fewer(q, r, d)
  <2>1. Right(q, d) /\ Short(q, d) /\ Gone(q, d)
    BY DEF Good
  <2>2. Right(r, d)
    BY <2>1 DEF Right
  <2>3. Short(r, d)
    BY <2>1 DEF Short, Length
  <2>4. Gone(r, d)
    BY <2>1 DEF Gone
  <2>5. Fewer(q, r, d)
    BY DEF Fewer, UsesBuf
  <2> QED BY <2>2, <2>3, <2>4, <2>5
<1>2. \A d \in Peers : Right(r, d) /\ Short(r, d) /\ Gone(r, d) /\ Fewer(q, r, d)
  BY <1>1
<1> QED BY <1>2 DEF Kept, Good

\* The limits are positive numbers.
LEMMA LimitsTyped ==
  /\ MaxSendQ \in Nat /\ LargeBuf \in Nat /\ LargeBuf >= 1
  /\ SmallBuf \in Nat /\ SmallBuf >= 1 /\ SmallBuf < LargeBuf /\ MaxSendQ >= 1
BY SendAssumption

\* Writing some of a queue (send_queued).
LEMMA GoodDelete ==
  ASSUME NEW q, Good(q), NEW c \in Peers, NEW n \in Nat, n <= Length(q, c)
  PROVE  Kept(q, sbuf_delete(q, c, n))
<1>1. PICK r : r = sbuf_delete(q, c, n)
  OBVIOUS
<1>2. BufsOK(q) /\ Right(q, c) /\ Short(q, c) /\ Gone(q, c)
  BY DEF Good
<1>3. Deleted(q, r, c)
  BY <1>1, <1>2, DeleteSpec DEF Length
<1>4. BufsOK(r) /\ Apart(q, r, c) /\ Fewer(q, r, c) /\ (\A d \in Peers \ {c} : r.want[d] = q.want[d])
  BY <1>3 DEF Deleted
<1>5. Right(r, c)
  BY <1>2, <1>3 DEF Right, Deleted, Apart
<1>6. Short(r, c)
  <2>1. PICK a \in Nat, b \in Nat : a = Length(q, c) /\ b = Length(r, c)
    BY <1>2, <1>4, ContentTyped DEF Length
  <2>2. b <= a /\ a <= MaxSendQ + LargeBuf
    BY <1>2, <1>3, <2>1 DEF Short, Deleted, Length
  <2>3. b <= MaxSendQ + LargeBuf
    BY <2>2, LimitsTyped
  <2> QED BY <2>1, <2>3 DEF Short
<1>7. Gone(r, c)
  <2> SUFFICES ASSUME c \in r.dead PROVE r.queue[c] = << >>
    BY DEF Gone
  <2>1. c \in q.dead
    BY <1>4 DEF Apart
  <2>2. q.queue[c] = << >>
    BY <1>2, <2>1 DEF Gone
  <2>3. Len(Content(q, c)) = 0
    BY <1>2, <2>2, EmptyContent
  <2>4. PICK b \in Nat : b = Len(Content(r, c))
    BY <1>4, ContentTyped
  <2>5. b = 0
    BY <1>3, <2>3, <2>4 DEF Deleted
  <2> QED BY <1>4, <2>4, <2>5, EmptyContent
<1>8. Kept(q, r)
  BY <1>2, <1>4, <1>5, <1>6, <1>7, Elsewhere DEF Apart
<1> QED BY <1>1, <1>8

\* SBufClear.
LEMMA ClearSpec ==
  ASSUME NEW q, BufsOK(q), NEW c \in Peers
  PROVE  LET r == SBufClear(q, c)
         IN  /\ BufsOK(r) /\ Apart(q, r, c) /\ Fewer(q, r, c)
             /\ \A d \in Peers \ {c} : r.want[d] = q.want[d]
             /\ r.queue[c] = << >> /\ r.want[c] = << >>
<1>1. PICK n \in Nat : n = Length(q, c)
  BY ContentTyped DEF Length
<1>2. PICK p : p = sbuf_delete(q, c, n)
  OBVIOUS
<1>3. Deleted(q, p, c) /\ p.queue[c] = << >>
  BY <1>1, <1>2, DeleteSpec DEF Length
<1>4. BufsOK(p) /\ Apart(q, p, c) /\ Fewer(q, p, c) /\ (\A d \in Peers \ {c} : p.want[d] = q.want[d])
  BY <1>3 DEF Deleted
<1>a. PICK e : e = << >>
  OBVIOUS
<1>b. e \in Seq(Units)
  BY <1>a
<1>5. PICK r : r = set_want(p, c, e)
  OBVIOUS
<1>6. SBufClear(q, c) = r
  BY <1>a, <1>1, <1>2, <1>5 DEF SBufClear
<1>7. MemTyped(p)
  BY <1>4 DEF BufsOK
<1>8. /\ SameBut(p, r) /\ r.bufs = p.bufs /\ r.queue = p.queue
      /\ r.want \in [Peers -> Seq(Units)] /\ r.want[c] = e
      /\ \A d \in Peers \ {c} : r.want[d] = p.want[d]
  BY <1>b, <1>5, <1>7, SetWant
<1>9. /\ SameBut(p, r) /\ r.bufs = p.bufs /\ r.queue = p.queue
      /\ r.want \in [Peers -> Seq(Units)] /\ r.want[c] = << >>
      /\ \A d \in Peers \ {c} : r.want[d] = p.want[d]
  BY <1>a, <1>8
<1>10. Shape(r) /\ r.shares = p.shares /\ r.dead = p.dead /\ r.mixed = p.mixed
  BY <1>9 DEF SameBut
<1>11. p.dead \subseteq Peers /\ p.mixed \subseteq Peers
  BY <1>7 DEF MemTyped
<1>12. BufsOK(r) /\ \A d \in Peers : Content(r, d) = Content(p, d) /\ Fewer(p, r, d)
  BY <1>4, <1>9, <1>10, <1>11, SameBufs
<1>13. Apart(q, r, c)
  BY <1>4, <1>9, <1>10, <1>12 DEF Apart
<1>14. Fewer(q, r, c)
  BY <1>4, <1>12 DEF Fewer, Apart
<1> QED BY <1>3, <1>4, <1>6, <1>9, <1>12, <1>13, <1>14

\* A link whose queue is cleared, with other dead and mixed links.
LEMMA Cleared ==
  ASSUME NEW q, Good(q), NEW c \in Peers, NEW p, p = SBufClear(q, c),
         NEW r, Shape(r), r.bufs = p.bufs, r.queue = p.queue, r.shares = p.shares,
         r.want = p.want, r.dead \subseteq Peers, r.mixed \subseteq Peers,
         r.dead \subseteq q.dead \cup {c}, q.mixed \subseteq r.mixed \cup {c}
  PROVE  Kept(q, r) /\ r.queue[c] = << >>
<1>1. BufsOK(q)
  BY DEF Good
<1>2. /\ BufsOK(p) /\ Apart(q, p, c) /\ Fewer(q, p, c)
      /\ \A d \in Peers \ {c} : p.want[d] = q.want[d]
      /\ p.queue[c] = << >> /\ p.want[c] = << >>
  BY <1>1, ClearSpec
<1>3. p.want \in [Peers -> Seq(Units)]
  BY <1>2 DEF BufsOK, MemTyped
<1>4. BufsOK(r) /\ \A d \in Peers : Content(r, d) = Content(p, d) /\ Fewer(p, r, d)
  BY <1>2, <1>3, SameBufs
<1>5. r.queue[c] = << >> /\ r.want[c] = << >>
  BY <1>2
<1>6. Len(Content(r, c)) = 0 /\ Content(r, c) \in Seq(Units)
  BY <1>4, <1>5, EmptyContent, ContentTyped
<1>7. Content(r, c) = << >>
  BY <1>6
<1>8. Right(r, c) /\ Gone(r, c)
  BY <1>5, <1>7 DEF Right, Gone
<1>9. Short(r, c)
  BY <1>6, LimitsTyped DEF Short, Length
<1>10. r.shares = q.shares /\ Fewer(q, r, c)
  BY <1>2, <1>4 DEF Fewer, Apart
<1>11. \A d \in Peers \ {c} : Content(r, d) = Content(q, d) /\ r.queue[d] = q.queue[d] /\ r.want[d] = q.want[d]
  BY <1>2, <1>4 DEF Apart
<1>12. \A d \in Peers \ {c} : (d \in r.dead => d \in q.dead) /\ (d \in q.mixed => d \in r.mixed)
  OBVIOUS
<1>13. Kept(q, r)
  BY <1>4, <1>8, <1>9, <1>10, <1>11, <1>12, Elsewhere
<1> QED BY <1>5, <1>13

\* FLAGS_DEADSOCKET.
LEMMA GoodDead ==
  ASSUME NEW q, Good(q), NEW c \in Peers
  PROVE  Kept(q, marked_dead(q, c))
<1>1. PICK p : p = SBufClear(q, c)
  OBVIOUS
<1>2. BufsOK(q)
  BY DEF Good
<1>3. BufsOK(p) /\ p.mixed = q.mixed
  BY <1>1, <1>2, ClearSpec DEF Apart
<1>4. Shape(p)
  BY <1>3 DEF BufsOK, MemTyped
<1>5. PICK r : r = [p EXCEPT !.dead = q.dead \cup {c}]
  OBVIOUS
<1>6. /\ Shape(r) /\ r.bufs = p.bufs /\ r.queue = p.queue /\ r.shares = p.shares
      /\ r.want = p.want /\ r.dead = q.dead \cup {c} /\ r.mixed = p.mixed
  BY <1>4, <1>5 DEF Shape
<1>7. q.dead \cup {c} \in SUBSET Peers /\ q.mixed \in SUBSET Peers
  BY <1>2 DEF BufsOK, MemTyped
<1>8. Kept(q, r)
  BY <1>1, <1>3, <1>6, <1>7, Cleared
<1> QED BY <1>1, <1>5, <1>8 DEF marked_dead

\* What wants changes.
LEMMA WantsSpec ==
  ASSUME NEW p, BufsOK(p), NEW c \in Peers, NEW data \in Seq(Units)
  PROVE  LET r == wants(p, c, data)
         IN  /\ BufsOK(r) /\ r.shares = p.shares /\ r.dead = p.dead /\ r.mixed = p.mixed
             /\ r.queue = p.queue /\ r.bufs = p.bufs /\ Shape(r)
             /\ r.want \in [Peers -> Seq(Units)]
             /\ \A d \in Peers : Content(r, d) = Content(p, d) /\ Fewer(p, r, d)
             /\ r.want[c] = p.want[c] \o data /\ \A d \in Peers \ {c} : r.want[d] = p.want[d]
<1>1. MemTyped(p)
  BY DEF BufsOK
<1>2. p.want[c] \in Seq(Units) /\ p.dead \subseteq Peers /\ p.mixed \subseteq Peers
  BY <1>1 DEF MemTyped
<1>3. PICK w : w = p.want[c] \o data
  OBVIOUS
<1>4. w \in Seq(Units)
  BY <1>2, <1>3
<1>5. PICK r : r = set_want(p, c, w)
  OBVIOUS
<1>6. /\ SameBut(p, r) /\ r.bufs = p.bufs /\ r.queue = p.queue
      /\ r.want \in [Peers -> Seq(Units)] /\ r.want[c] = w
      /\ \A d \in Peers \ {c} : r.want[d] = p.want[d]
  BY <1>1, <1>4, <1>5, SetWant
<1>7. Shape(r) /\ r.shares = p.shares /\ r.dead = p.dead /\ r.mixed = p.mixed
  BY <1>6 DEF SameBut
<1>8. BufsOK(r) /\ \A d \in Peers : Content(r, d) = Content(p, d) /\ Fewer(p, r, d)
  BY <1>2, <1>6, <1>7, SameBufs
<1>9. wants(p, c, data) = r
  BY <1>3, <1>5 DEF wants
<1> QED BY <1>3, <1>6, <1>7, <1>8, <1>9

\* sbuf_put to a link that is under its limit.
LEMMA GoodPut ==
  ASSUME NEW q, Good(q), NEW c \in Peers, c \notin q.dead, Length(q, c) <= MaxSendQ,
         NEW data \in Seq(Units), data # << >>, Len(data) <= LargeBuf
  PROVE  Kept(q, sbuf_put(q, c, data))
<1>1. BufsOK(q) /\ Right(q, c)
  BY DEF Good
<1>2. PICK p : p = fill(q, c, data)
  OBVIOUS
<1>3. /\ BufsOK(p) /\ Apart(q, p, c) /\ Fewer(q, p, c) /\ p.want = q.want
      /\ Content(p, c) = Content(q, c) \o data
  BY <1>1, <1>2, FillSpec
<1>4. PICK r : r = wants(p, c, data)
  OBVIOUS
<1>5. /\ BufsOK(r) /\ r.shares = p.shares /\ r.dead = p.dead /\ r.mixed = p.mixed /\ r.queue = p.queue
      /\ \A d \in Peers : Content(r, d) = Content(p, d) /\ Fewer(p, r, d)
      /\ r.want[c] = p.want[c] \o data /\ \A d \in Peers \ {c} : r.want[d] = p.want[d]
  <2>1. BufsOK(p)
    BY <1>3
  <2> QED BY <1>4, <2>1, WantsSpec, SMTT(30)
<1>6. p.shares = q.shares /\ p.dead = q.dead /\ p.mixed = q.mixed
  BY <1>3 DEF Apart
<1>7. Content(r, c) = Content(q, c) \o data
  BY <1>3, <1>5
<1>8. Right(r, c)
  <2> SUFFICES ASSUME c \notin r.mixed PROVE Content(r, c) = r.want[c]
    BY DEF Right
  <2>1. Content(q, c) = q.want[c]
    BY <1>1, <1>5, <1>6 DEF Right
  <2> QED BY <1>3, <1>5, <1>7, <2>1, Zenon
<1>9. Short(r, c)
  <2>1. PICK a \in Nat, b \in Nat : a = Length(q, c) /\ b = Len(data)
    BY <1>1, ContentTyped DEF Length
  <2>2. Content(q, c) \in Seq(Units)
    BY <1>1, ContentTyped
  <2>3. PICK x \in Seq(Units) : x = Content(q, c)
    BY <2>2
  <2>4. Len(x \o data) = Len(x) + Len(data)
    OBVIOUS
  <2>5. Length(r, c) = a + b
    BY <1>7, <2>1, <2>3, <2>4 DEF Length
  <2>6. a <= MaxSendQ /\ b <= LargeBuf
    BY <2>1
  <2>7. a + b <= MaxSendQ + LargeBuf
    BY <2>6, LimitsTyped
  <2> QED BY <2>5, <2>7 DEF Short
<1>10. Gone(r, c)
  BY <1>5, <1>6 DEF Gone
<1>11. r.shares = q.shares /\ Fewer(q, r, c)
  BY <1>3, <1>5, <1>6 DEF Fewer
<1>12. \A d \in Peers \ {c} : Content(r, d) = Content(q, d) /\ r.queue[d] = q.queue[d] /\ r.want[d] = q.want[d]
  BY <1>3, <1>5 DEF Apart
<1>13. \A d \in Peers \ {c} : (d \in r.dead => d \in q.dead) /\ (d \in q.mixed => d \in r.mixed)
  BY <1>5, <1>6
<1>14. Kept(q, r)
  BY <1>5, <1>8, <1>9, <1>10, <1>11, <1>12, <1>13, Elsewhere
<1> QED BY <1>2, <1>4, <1>14 DEF sbuf_put

\* A message to one who is no server.
LEMMA GoodOne ==
  ASSUME NEW q, Good(q), NEW c \in Peers, NEW data \in Seq(Units), data # << >>, Len(data) <= LargeBuf
  PROVE  Kept(q, send_one(q, c, data))
<1>1. CASE c \in q.dead
  BY <1>1, KeptSelf DEF send_one
<1>2. CASE c \notin q.dead /\ Length(q, c) > MaxSendQ
  BY <1>2, GoodDead DEF send_one
<1>3. CASE c \notin q.dead /\ ~ (Length(q, c) > MaxSendQ)
  <2>1. Length(q, c) \in Nat
    BY ContentTyped DEF Good, Length
  <2>2. Length(q, c) <= MaxSendQ
    BY <1>3, <2>1, LimitsTyped
  <2>3. Kept(q, sbuf_put(q, c, data))
    BY <1>3, <2>2, GoodPut
  <2> QED BY <1>3, <2>3 DEF send_one
<1> QED BY <1>1, <1>2, <1>3

----------------------------------------------------------------------------
\* sendto_ops, operator by operator.
LEMMA OperWalk ==
  ASSUME NEW q, Len(OperList) \in Nat
  PROVE  \E F : /\ sendto_ops(q) = F[Len(OperList)] /\ F[0] = q
                /\ \A i \in 1 .. Len(OperList) : F[i] = send_one(F[i - 1], OperList[i], <<"note">>)
<1>0. PICK L \in Nat : L = Len(OperList)
  OBVIOUS
<1> DEFINE body(G, i) == IF i = 0 THEN q ELSE send_one(G[i - 1], OperList[i], <<"note">>)
           S == {m \in 0 .. L : \E G : G = [i \in 0 .. m |-> body(G, i)]}
           F == CHOOSE G : G = [i \in 0 .. L |-> body(G, i)]
<1>2. 0 \in S
  <2> DEFINE G == [i \in 0 .. 0 |-> q]
  <2>1. G = [i \in 0 .. 0 |-> body(G, i)]
    OBVIOUS
  <2>2. 0 \in 0 .. L
    OBVIOUS
  <2> HIDE DEF G, body
  <2> QED BY <2>1, <2>2
<1>3. ASSUME NEW m \in 0 .. L - 1, m \in S PROVE m + 1 \in S
  <2>1. PICK G : G = [i \in 0 .. m |-> body(G, i)]
    BY <1>3
  <2> DEFINE H == [i \in 0 .. m + 1 |-> IF i <= m THEN G[i] ELSE body(G, m + 1)]
  <2>2. ASSUME NEW i \in 0 .. m + 1 PROVE H[i] = body(H, i)
    <3>1. CASE i = 0
      <4>1. H[0] = G[0] /\ G[0] = q
        BY <2>1
      <4> QED BY <3>1, <4>1
    <3>2. CASE i # 0
      <4>1. i - 1 \in 0 .. m /\ H[i - 1] = G[i - 1]
        BY <3>2
      <4>2. H[i] = body(G, i)
        <5>1. CASE i <= m
          <6>1. H[i] = G[i] /\ i \in 0 .. m
            BY <5>1
          <6>2. G[i] = body(G, i)
            BY <2>1, <6>1
          <6> QED BY <6>1, <6>2
        <5>2. CASE ~ (i <= m)
          <6>1. i = m + 1
            BY <5>2
          <6> QED BY <6>1
        <5> QED BY <5>1, <5>2
      <4> QED BY <3>2, <4>1, <4>2
    <3> QED BY <3>1, <3>2
  <2>3. H = [i \in 0 .. m + 1 |-> body(H, i)]
    <3> DEFINE B == [i \in 0 .. m + 1 |-> body(H, i)]
    <3>1. \A i \in 0 .. m + 1 : H[i] = B[i]
      BY <2>2
    <3> HIDE DEF body
    <3> QED BY <3>1
  <2>4. m + 1 \in 0 .. L
    OBVIOUS
  <2> HIDE DEF H
  <2> QED BY <2>3, <2>4
<1>4. L \in S
  <2> HIDE DEF S
  <2>1. \A i \in 0 .. L : i \in S
    BY <1>2, <1>3, InductUpTo
  <2> QED BY <2>1
<1>5. F = [i \in 0 .. L |-> body(F, i)]
  <2>1. PICK G : G = [i \in 0 .. L |-> body(G, i)]
    BY <1>4
  <2> QED BY <2>1
<1>6. sendto_ops(q) = F[L]
  BY <1>0 DEF sendto_ops
<1> HIDE DEF F
<1>7. F[0] = body(F, 0) /\ \A i \in 1 .. L : F[i] = body(F, i)
  <2>1. 0 \in 0 .. L /\ \A i \in 1 .. L : i \in 0 .. L
    OBVIOUS
  <2> HIDE DEF body
  <2> QED BY <1>5, <2>1
<1>8. F[0] = q /\ \A i \in 1 .. L : F[i] = send_one(F[i - 1], OperList[i], <<"note">>)
  <2>1. ASSUME NEW i \in 1 .. L PROVE F[i] = send_one(F[i - 1], OperList[i], <<"note">>)
    <3>1. i # 0 /\ F[i] = body(F, i)
      BY <1>7
    <3> QED BY <3>1
  <2> QED BY <1>7, <2>1
<1> QED BY <1>0, <1>6, <1>8

\* A notice and a message to many are units.
LEMMA UnitNote == "note" \in Units /\ "all" \in Units
BY DEF Units

\* A sequence of one.
LEMMA OneUnit ==
  ASSUME NEW S, NEW x, x \in S
  PROVE  <<x>> \in Seq(S) /\ Len(<<x>>) = 1
OBVIOUS

\* sendto_ops, whatever links it finds over their limit.
LEMMA GoodOps ==
  ASSUME NEW q, Good(q)
  PROVE  Kept(q, sendto_ops(q))
<1>1. OperList \in Seq(Users) /\ Users \subseteq Peers
  BY SendAssumption DEF Peers
<1>2. PICK L \in Nat : L = Len(OperList)
  BY <1>1
<1>3. \A i \in 1 .. L : OperList[i] \in Peers
  BY <1>1, <1>2
<1>4. PICK data : data = <<"note">>
  OBVIOUS
<1>5. data \in Seq(Units) /\ data # << >> /\ Len(data) = 1
  <2>1. <<"note">> \in Seq(Units) /\ Len(<<"note">>) = 1
    BY UnitNote, OneUnit
  <2>2. data \in Seq(Units) /\ Len(data) = 1
    BY <1>4, <2>1
  <2> QED BY <2>2
<1>6. Len(data) <= LargeBuf
  BY <1>5, LimitsTyped
<1>7. PICK F : /\ sendto_ops(q) = F[L] /\ F[0] = q
               /\ \A i \in 1 .. L : F[i] = send_one(F[i - 1], OperList[i], data)
  BY <1>2, <1>4, OperWalk
<1> DEFINE S == {i \in 0 .. L : Kept(q, F[i])}
<1>8. 0 \in S
  <2>1. Kept(q, F[0])
    BY <1>7, KeptSelf
  <2> QED BY <2>1
<1>9. ASSUME NEW j \in 1 .. L, j - 1 \in S PROVE j \in S
  <2>1. Kept(q, F[j - 1]) /\ j \in 0 .. L
    BY <1>9
  <2>2. Good(F[j - 1])
    BY <2>1 DEF Kept
  <2>3. Kept(F[j - 1], send_one(F[j - 1], OperList[j], data))
    BY <1>3, <1>5, <1>6, <2>2, GoodOne
  <2>4. F[j] = send_one(F[j - 1], OperList[j], data)
    BY <1>7
  <2>5. Kept(q, F[j])
    BY <2>1, <2>3, <2>4, KeptTrans
  <2> QED BY <2>1, <2>5
<1> HIDE DEF S
<1>10. \A i \in 0 .. L : i \in S
  BY <1>8, <1>9, InductFromBelow
<1>11. Kept(q, F[L])
  <2>1. L \in S
    BY <1>10
  <2> QED BY <2>1 DEF S
<1> QED BY <1>7, <1>11

\* dead_link.
LEMMA GoodLink ==
  ASSUME NEW q, Good(q), NEW c \in Peers
  PROVE  Kept(q, dead_link(q, c))
<1>1. Kept(q, marked_dead(q, c))
  BY GoodDead
<1>2. Kept(q, sendto_ops(marked_dead(q, c)))
  <2>1. Good(marked_dead(q, c))
    BY <1>1 DEF Kept
  <2>2. Kept(marked_dead(q, c), sendto_ops(marked_dead(q, c)))
    BY <2>1, GoodOps
  <2> QED BY <1>1, <2>2, KeptTrans
<1> QED BY <1>1, <1>2 DEF dead_link

\* send_message's limit: operators are told, the link is dead.
LEMMA GoodOver ==
  ASSUME NEW q, Good(q), NEW c \in Peers
  PROVE  Kept(q, over_limit(q, c))
<1>1. PICK p : p = IF c = Server THEN sendto_ops(q) ELSE q
  OBVIOUS
<1>2. Kept(q, p)
  BY <1>1, KeptSelf, GoodOps
<1>3. Kept(p, dead_link(p, c))
  BY <1>2, GoodLink DEF Kept
<1>4. over_limit(q, c) = dead_link(p, c)
  BY <1>1 DEF over_limit
<1> QED BY <1>2, <1>3, <1>4, KeptTrans

\* send_queued.
LEMMA GoodWritten ==
  ASSUME NEW q, Good(q), NEW c \in Peers, NEW r \in Written(q, c)
  PROVE  Kept(q, r)
<1>1. CASE c \in q.dead
  BY <1>1, KeptSelf DEF Written
<1>2. CASE c \notin q.dead
  <2>1. r \in {sbuf_delete(q, c, n) : n \in 1..Length(q, c)} \cup {dead_link(q, c)}
    BY <1>2 DEF Written
  <2>2. CASE r = dead_link(q, c)
    BY <2>2, GoodLink
  <2>3. CASE r \in {sbuf_delete(q, c, n) : n \in 1..Length(q, c)}
    <3>1. PICK n \in 1..Length(q, c) : r = sbuf_delete(q, c, n)
      BY <2>3
    <3>2. Length(q, c) \in Nat
      BY ContentTyped DEF Good, Length
    <3>3. n \in Nat /\ n <= Length(q, c)
      BY <3>2
    <3> QED BY <3>1, <3>3, GoodDelete
  <2> QED BY <2>1, <2>2, <2>3
<1> QED BY <1>1, <1>2

\* What putting a shared buffer on c's queue does.
PutOn(q, r, c) == Good(r) /\ r.shares = q.shares /\ \A d \in Peers \ {c} : Fewer(q, r, d)

\* sbuf_put_share to a link that does not use the buffer yet.
LEMMA PutShare ==
  ASSUME NEW q, Good(q), NEW c \in Peers, c \notin q.dead, Length(q, c) <= MaxSendQ,
         NEW b \in q.shares, ~ UsesBuf(q, c, b), NEW data \in Seq(Units)
  PROVE  PutOn(q, sbuf_put_share(q, c, b, data), c)
<1>1. BufsOK(q) /\ Right(q, c) /\ b \in InUse(q) /\ q.bufs[b] \in SBuffers
  BY DEF Good, BufsOK, MemTyped
<1>2. PICK p : p = with_user(one_more(q, b), c, b)
  OBVIOUS
<1>3. BufsOK(p) /\ Apart(q, p, c) /\ p.want = q.want /\ Content(p, c) = Content(q, c) \o q.bufs[b].data
  BY <1>1, <1>2, SharedUser
<1>4. BufsOK(p)
  BY <1>3
<1>5. PICK s : s = wants(p, c, data)
  OBVIOUS
<1>6. /\ BufsOK(s) /\ s.shares = p.shares /\ s.dead = p.dead /\ s.mixed = p.mixed /\ s.queue = p.queue
      /\ s.bufs = p.bufs /\ Shape(s) /\ s.want \in [Peers -> Seq(Units)]
      /\ \A d \in Peers : Content(s, d) = Content(p, d)
      /\ s.want[c] = p.want[c] \o data /\ \A d \in Peers \ {c} : s.want[d] = p.want[d]
  <2>1. /\ BufsOK(s) /\ s.shares = p.shares /\ s.dead = p.dead /\ s.mixed = p.mixed /\ s.queue = p.queue
        /\ s.bufs = p.bufs /\ Shape(s) /\ s.want \in [Peers -> Seq(Units)]
    BY <1>4, <1>5, WantsSpec
  <2>2. \A d \in Peers : Content(s, d) = Content(p, d)
    BY <1>4, <1>5, WantsSpec
  <2>3. s.want[c] = p.want[c] \o data
    BY <1>4, <1>5, WantsSpec, SMTT(30)
  <2>4. \A d \in Peers \ {c} : s.want[d] = p.want[d]
    BY <1>4, <1>5, WantsSpec
  <2> QED BY <2>1, <2>2, <2>3, <2>4
<1>7. PICK r : r = IF q.bufs[b].data = data THEN s ELSE [s EXCEPT !.mixed = s.mixed \cup {c}]
  OBVIOUS
<1>8. /\ Shape(r) /\ r.bufs = s.bufs /\ r.queue = s.queue /\ r.shares = s.shares /\ r.want = s.want /\ r.dead = s.dead
      /\ r.mixed = IF q.bufs[b].data = data THEN s.mixed ELSE s.mixed \cup {c}
  BY <1>6, <1>7 DEF Shape
<1>9. s.dead \subseteq Peers /\ s.mixed \subseteq Peers
  BY <1>6 DEF BufsOK, MemTyped
<1>10. r.mixed \subseteq Peers
  BY <1>8, <1>9
<1>11. BufsOK(r) /\ \A d \in Peers : Content(r, d) = Content(s, d)
  BY <1>6, <1>8, <1>9, <1>10, SameBufs
<1>12. p.shares = q.shares /\ p.dead = q.dead /\ p.mixed = q.mixed
       /\ \A d \in Peers \ {c} : Content(p, d) = Content(q, d) /\ p.queue[d] = q.queue[d]
  BY <1>3 DEF Apart
<1>13. Content(r, c) = Content(q, c) \o q.bufs[b].data
  BY <1>3, <1>6, <1>11
<1>14. Right(r, c)
  <2> SUFFICES ASSUME c \notin r.mixed PROVE Content(r, c) = r.want[c]
    BY DEF Right
  <2>1. q.bufs[b].data = data /\ c \notin q.mixed
    BY <1>6, <1>8, <1>12
  <2>2. Content(q, c) = q.want[c]
    BY <1>1, <2>1 DEF Right
  <2>3. r.want[c] = q.want[c] \o data
    BY <1>3, <1>6, <1>8
  <2> QED BY <1>13, <2>1, <2>2, <2>3, Zenon
<1>15. Short(r, c)
  <2>1. PICK x \in Seq(Units), y \in Seq(Units) : x = Content(q, c) /\ y = q.bufs[b].data
    BY <1>1, ContentTyped DEF SBuffers
  <2>2. PICK k \in Nat, l \in Nat, z \in Nat : k = Len(x) /\ l = Len(y) /\ z = q.bufs[b].size
    BY <1>1, <2>1 DEF SBuffers
  <2>3. l <= z /\ z <= LargeBuf
    BY <1>1, <2>1, <2>2 DEF BufsOK, Fits
  <2>4. k <= MaxSendQ
    BY <2>1, <2>2 DEF Length
  <2>5. k + l <= MaxSendQ + LargeBuf
    BY <2>3, <2>4, LimitsTyped
  <2>6. Len(x \o y) = k + l
    BY <2>2
  <2>7. Content(r, c) = x \o y
    BY <1>13, <2>1
  <2> QED BY <2>5, <2>6, <2>7 DEF Short, Length
<1>16. Gone(r, c)
  BY <1>6, <1>8, <1>12 DEF Gone
<1>17. ASSUME NEW d \in Peers \ {c} PROVE Right(r, d) /\ Short(r, d) /\ Gone(r, d) /\ Fewer(q, r, d)
  <2>1. Right(q, d) /\ Short(q, d) /\ Gone(q, d)
    BY DEF Good
  <2>2. Content(r, d) = Content(q, d) /\ r.queue[d] = q.queue[d]
    BY <1>6, <1>8, <1>11, <1>12
  <2>3. r.want[d] = q.want[d]
    BY <1>3, <1>6, <1>8
  <2>4. (d \in r.dead => d \in q.dead) /\ (d \in q.mixed => d \in r.mixed)
    BY <1>6, <1>8, <1>12
  <2>5. Right(r, d)
    BY <2>1, <2>2, <2>3, <2>4 DEF Right
  <2>6. Short(r, d)
    BY <2>1, <2>2 DEF Short, Length
  <2>7. Gone(r, d)
    BY <2>1, <2>2, <2>4 DEF Gone
  <2>8. Fewer(q, r, d)
    BY <2>2 DEF Fewer, UsesBuf
  <2> QED BY <2>5, <2>6, <2>7, <2>8
<1>18. Good(r)
  BY <1>11, <1>14, <1>15, <1>16, <1>17 DEF Good
<1>19. sbuf_put_share(q, c, b, data) = r
  BY <1>2, <1>5, <1>7 DEF sbuf_put_share
<1> QED BY <1>6, <1>8, <1>12, <1>17, <1>18, <1>19 DEF PutOn

\* Sending puts no one else a shared buffer.
LEMMA KeptPut ==
  ASSUME NEW q, NEW r, NEW c, Kept(q, r)
  PROVE  PutOn(q, r, c)
BY DEF Kept, PutOn

\* Sending after a shared buffer was put.
LEMMA PutKept ==
  ASSUME NEW q, NEW r, NEW s, NEW c, PutOn(q, r, c), Kept(r, s)
  PROVE  PutOn(q, s, c)
BY DEF Kept, PutOn, Fewer

----------------------------------------------------------------------------
\* A new shared buffer.
LEMMA BeginShare ==
  ASSUME NEW q, Good(q), NEW data \in Seq(Units), data # << >>, Len(data) <= LargeBuf
  PROVE  LET r == begin_share(q, data)
             b == sbuf_alloc(q)
         IN  /\ Good(r) /\ r.shares = q.shares \cup {b} /\ r.queue = q.queue
             /\ \A d \in Peers : ~ UsesBuf(r, d, b)
<1>0. BufsOK(q)
  BY DEF Good
<1>1. PICK b : b = sbuf_alloc(q)
  OBVIOUS
<1>2. PICK p : p = with_buf(q, data, 0)
  OBVIOUS
<1>3. MemTyped(q) /\ b \in Nat /\ b \notin InUse(q)
  BY <1>0, <1>1, AllocFresh DEF BufsOK, MemTyped
<1>4. /\ SameBut(q, p) /\ p.queue = q.queue /\ p.want = q.want
      /\ InUse(p) = InUse(q) \cup {b} /\ p.bufs \in [InUse(p) -> SBuffers]
      /\ IsFiniteSet(InUse(p))
      /\ p.bufs[b] = [data |-> data, size |-> bufsize(Len(data)), refs |-> 0]
      /\ \A a \in InUse(q) : p.bufs[a] = q.bufs[a]
  BY <1>1, <1>2, <1>3, WithBuf
<1>5. PICK r : r = [p EXCEPT !.shares = q.shares \cup {b}]
  OBVIOUS
<1>6. /\ Shape(r) /\ r.bufs = p.bufs /\ r.queue = q.queue /\ r.want = q.want
      /\ r.shares = q.shares \cup {b} /\ r.dead = q.dead /\ r.mixed = q.mixed
  BY <1>4, <1>5 DEF SameBut, Shape
<1>7. InUse(r) = InUse(q) \cup {b} /\ \A a \in InUse(q) : r.bufs[a] = q.bufs[a]
  BY <1>4, <1>6 DEF InUse
<1>8. MemTyped(r)
  <2>1. r.bufs \in [InUse(r) -> SBuffers] /\ IsFiniteSet(InUse(r))
    BY <1>4, <1>6, <1>7
  <2> QED BY <1>3, <1>6, <1>7, <2>1 DEF MemTyped
<1>14. Len(data) <= bufsize(Len(data)) /\ bufsize(Len(data)) <= LargeBuf
  <2>1. SmallBuf \in Nat /\ LargeBuf \in Nat /\ SmallBuf < LargeBuf /\ Len(data) \in Nat
    BY SendAssumption
  <2> QED BY <2>1 DEF bufsize
<1>15. Fits(r)
  <2> SUFFICES ASSUME NEW a \in InUse(q) \cup {b}
               PROVE  /\ r.bufs[a].data # << >> /\ Len(r.bufs[a].data) <= r.bufs[a].size
                      /\ r.bufs[a].size <= LargeBuf
    BY <1>7 DEF Fits
  <2>1. CASE a = b
    <3>1. r.bufs[a].data = data /\ r.bufs[a].size = bufsize(Len(data))
      BY <1>4, <1>6, <2>1
    <3> QED BY <1>14, <3>1
  <2>2. CASE a # b
    BY <1>0, <1>7, <2>2 DEF BufsOK, Fits
  <2> QED BY <2>1, <2>2
<1>16. \A d \in Peers : ~ UsesBuf(q, d, b) /\ ~ UsesBuf(r, d, b)
  BY <1>0, <1>3, <1>6 DEF BufsOK, UsesOK, UseOK, UsesBuf
<1>17. UsersOf(r, b) = {}
  BY <1>16, UsersAre DEF UsersOf
<1>18. UsesOK(r)
  <2> SUFFICES ASSUME NEW d \in Peers, NEW i \in 1 .. Len(q.queue[d]) PROVE UseOK(r, q.queue[d][i])
    BY <1>6 DEF UsesOK
  <2>1. UseOK(q, q.queue[d][i])
    BY <1>0 DEF BufsOK, UsesOK
  <2> QED BY <1>7, <2>1 DEF UseOK
<1>19. OnceEach(r)
  BY <1>0, <1>6 DEF BufsOK, OnceEach
<1>20. Counts(r)
  <2> SUFFICES ASSUME NEW a \in InUse(q) \cup {b} PROVE Counted(r, a)
    BY <1>7 DEF Counts
  <2>1. CASE a = b
    <3>1. Cardinality(UsersOf(r, b)) = 0
      BY <1>17, FS_EmptySet
    <3>2. r.bufs[b].refs = 0 /\ b \in r.shares
      BY <1>4, <1>6
    <3> QED BY <2>1, <3>1, <3>2 DEF Counted
  <2>2. CASE a # b
    <3>1. Counted(q, a) /\ a \in InUse(q)
      BY <1>0, <2>2 DEF BufsOK, Counts
    <3>2. UsersOf(r, a) = UsersOf(q, a)
      BY <1>6 DEF UsersOf
    <3> QED BY <1>6, <1>7, <3>1, <3>2 DEF Counted
  <2> QED BY <2>1, <2>2
<1>21. BufsOK(r)
  BY <1>8, <1>15, <1>18, <1>19, <1>20 DEF BufsOK
<1>22. ASSUME NEW d \in Peers PROVE Right(r, d) /\ Short(r, d) /\ Gone(r, d)
  <2>1. Right(q, d) /\ Short(q, d) /\ Gone(q, d)
    BY DEF Good
  <2>2. ASSUME NEW i \in 1 .. Len(q.queue[d])
        PROVE  r.bufs[q.queue[d][i].buf].data = q.bufs[q.queue[d][i].buf].data
    <3>1. q.queue[d][i].buf \in InUse(q)
      BY <1>0 DEF BufsOK, UsesOK, UseOK
    <3> QED BY <1>7, <3>1
  <2>3. Content(r, d) = Content(q, d)
    BY <1>3, <1>6, <2>2, SameContent
  <2> QED BY <1>6, <2>1, <2>3 DEF Right, Short, Gone, Length
<1>23. begin_share(q, data) = r
  BY <1>1, <1>2, <1>5 DEF begin_share
<1> QED BY <1>1, <1>6, <1>16, <1>21, <1>22, <1>23 DEF Good

\* sbuf_end_share.
EndShare(q) == [q EXCEPT !.shares = {},
                        !.bufs = [b \in {a \in InUse(q) : a \in q.shares => q.bufs[a].refs > 0}
                                    |-> q.bufs[b]]]

\* sbuf_end_share frees the shared buffers no queue uses.
LEMMA EndedShare ==
  ASSUME NEW q, Good(q)
  PROVE  Good(EndShare(q)) /\ EndShare(q).shares = {}
<1>0. BufsOK(q)
  BY DEF Good
<1>1. PICK A : A = {a \in InUse(q) : a \in q.shares => q.bufs[a].refs > 0}
  OBVIOUS
<1>2. PICK B : B = [a \in A |-> q.bufs[a]]
  OBVIOUS
<1>3. PICK r : r = EndShare(q)
  OBVIOUS
<1>4. MemTyped(q)
  BY <1>0 DEF BufsOK
<1>5. /\ Shape(r) /\ r.bufs = B /\ r.queue = q.queue /\ r.want = q.want
      /\ r.shares = {} /\ r.dead = q.dead /\ r.mixed = q.mixed
  <2>1. r = [q EXCEPT !.shares = {}, !.bufs = B]
    BY <1>1, <1>2, <1>3 DEF EndShare
  <2> QED BY <1>4, <2>1 DEF MemTyped, Shape
<1>6. InUse(r) = A /\ A \subseteq InUse(q) /\ \A a \in A : r.bufs[a] = q.bufs[a]
  BY <1>1, <1>2, <1>5 DEF InUse
<1>7. MemTyped(r)
  <2>1. IsFiniteSet(A)
    BY <1>4, <1>6, FS_Subset DEF MemTyped
  <2>2. r.bufs \in [A -> SBuffers]
    BY <1>2, <1>4, <1>5, <1>6 DEF MemTyped
  <2> QED BY <1>4, <1>5, <1>6, <2>1, <2>2 DEF MemTyped
<1>8. Fits(r)
  BY <1>0, <1>6 DEF BufsOK, Fits
<1>9. ASSUME NEW d \in Peers, NEW i \in 1 .. Len(q.queue[d]) PROVE q.queue[d][i].buf \in A
  <2>1. PICK b \in InUse(q) : b = q.queue[d][i].buf
    BY <1>0 DEF BufsOK, UsesOK, UseOK
  <2>2. d \in UsersOf(q, b)
    BY <2>1 DEF UsersOf
  <2>3. Cardinality(UsersOf(q, b)) # 0
    BY <2>2, UsersFinite, FS_EmptySet
  <2>4. q.bufs[b].refs = Cardinality(UsersOf(q, b))
    BY <1>0 DEF BufsOK, Counts, Counted
  <2>5. q.bufs[b].refs > 0
    BY <2>3, <2>4, UsersFinite
  <2> QED BY <1>1, <2>1, <2>5
<1>10. UsesOK(r)
  <2> SUFFICES ASSUME NEW d \in Peers, NEW i \in 1 .. Len(q.queue[d]) PROVE UseOK(r, q.queue[d][i])
    BY <1>5 DEF UsesOK
  <2>1. UseOK(q, q.queue[d][i])
    BY <1>0 DEF BufsOK, UsesOK
  <2> QED BY <1>6, <1>9, <2>1 DEF UseOK
<1>11. OnceEach(r)
  BY <1>0, <1>5 DEF BufsOK, OnceEach
<1>12. Counts(r)
  <2> SUFFICES ASSUME NEW a \in A PROVE Counted(r, a)
    BY <1>6 DEF Counts
  <2>1. Counted(q, a)
    BY <1>0, <1>6 DEF BufsOK, Counts
  <2>2. UsersOf(r, a) = UsersOf(q, a)
    BY <1>5 DEF UsersOf
  <2>3. q.bufs[a].refs > 0
    BY <1>1, <2>1 DEF Counted
  <2> QED BY <1>6, <2>1, <2>2, <2>3 DEF Counted
<1>13. BufsOK(r)
  BY <1>7, <1>8, <1>10, <1>11, <1>12 DEF BufsOK
<1>14. ASSUME NEW d \in Peers PROVE Right(r, d) /\ Short(r, d) /\ Gone(r, d)
  <2>1. Right(q, d) /\ Short(q, d) /\ Gone(q, d)
    BY DEF Good
  <2>2. ASSUME NEW i \in 1 .. Len(q.queue[d])
        PROVE  r.bufs[q.queue[d][i].buf].data = q.bufs[q.queue[d][i].buf].data
    BY <1>6, <1>9
  <2>3. Content(r, d) = Content(q, d)
    BY <1>4, <1>5, <2>2, SameContent
  <2> QED BY <1>5, <2>1, <2>3 DEF Right, Short, Gone, Length
<1> QED BY <1>3, <1>5, <1>13, <1>14 DEF Good

\* The buffer that c is put when the message to many comes to it, and that it may be put it.
SharedOf(k, c) == IF c = Server THEN k.remote ELSE k.local
Awaits(q, k, c) == SharedOf(k, c) \in q.shares /\ ~ UsesBuf(q, c, SharedOf(k, c))
\* No entry occurs twice.
Distinct(l) == \A i, j \in 1 .. Len(l) : l[i] = l[j] => i = j
\* The message to many: those left get it once, and none uses its buffer yet.
CastOK(q, k) ==
  /\ k = [data |-> k.data, left |-> k.left, local |-> k.local, remote |-> k.remote]
  /\ k.left \in Seq(Peers) /\ k.data \in Seq(Units)
  /\ k.data = << >> => q.shares = {}
  /\ Distinct(k.left)
  /\ \A i \in 1 .. Len(k.left) : Awaits(q, k, k.left[i])

\* The inductive invariant.
SendInv == Good(mem) /\ CastOK(mem, cast)

\* Sending leaves those who wait for the shared buffer waiting.
LEMMA CastKept ==
  ASSUME NEW q, NEW r, NEW k, CastOK(q, k), Kept(q, r)
  PROVE  CastOK(r, k)
<1>1. r.shares = q.shares
  BY DEF Kept
<1>2. ASSUME NEW i \in 1 .. Len(k.left) PROVE Awaits(r, k, k.left[i])
  <2>1. Awaits(q, k, k.left[i]) /\ k.left[i] \in Peers
    BY DEF CastOK
  <2>2. Fewer(q, r, k.left[i])
    BY <2>1 DEF Kept
  <2> QED BY <1>1, <2>1, <2>2 DEF Awaits, Fewer
<1>3. k.data = << >> => r.shares = {}
  BY <1>1 DEF CastOK
<1> QED BY <1>2, <1>3 DEF CastOK

\* send_message drops the message or the link, or puts the message on a queue that is not over its limit.
LEMMA GoodMessage ==
  ASSUME NEW q, Good(q), NEW c \in Peers, NEW put, NEW r, r = send_message(q, c, put)
  PROVE  Kept(q, r) \/ (r = put /\ c \notin q.dead /\ Length(q, c) <= MaxSendQ)
<1>1. CASE c \in q.dead
  BY <1>1, KeptSelf DEF send_message
<1>2. CASE c \notin q.dead /\ Length(q, c) > MaxSendQ
  BY <1>2, GoodOver DEF send_message
<1>3. CASE c \notin q.dead /\ ~ (Length(q, c) > MaxSendQ)
  <2>1. Length(q, c) \in Nat
    BY ContentTyped DEF Good, Length
  <2>2. Length(q, c) <= MaxSendQ
    BY <1>3, <2>1, LimitsTyped
  <2> QED BY <1>3, <2>2 DEF send_message
<1> QED BY <1>1, <1>2, <1>3

\* A message to many goes to everyone once.
LEMMA AudienceIs ==
  ASSUME NEW to \in Audiences
  PROVE  to \in Seq(Peers) /\ Distinct(to)
<1>1. PICK S \in SUBSET Peers : to \in SetToSeqs(S)
  BY DEF Audiences
<1>2. IsFiniteSet(Peers)
  BY SendAssumption, FS_AddElement DEF Peers
<1>3. PICK n \in Nat : n = Cardinality(S)
  BY <1>2, FS_Subset, FS_CardinalityType
<1>4. to \in [1 .. n -> S] /\ \A i, j \in 1 .. n : i # j => to[i] # to[j]
  BY <1>1, <1>3 DEF SetToSeqs
<1>5. to \in [1 .. n -> Peers]
  BY <1>4
<1>6. to \in Seq(Peers) /\ Len(to) = n
  BY <1>5
<1> QED BY <1>4, <1>6 DEF Distinct

----------------------------------------------------------------------------
\* At the start nothing is queued.
LEMMA SendInitInv == SendInit => SendInv
<1> SUFFICES ASSUME SendInit PROVE SendInv
  OBVIOUS
<1>1. /\ mem = [bufs |-> <<>>, shares |-> {}, queue |-> [c \in Peers |-> <<>>], dead |-> {},
                want |-> [c \in Peers |-> <<>>], mixed |-> {}]
      /\ cast = NoCast
  BY DEF SendInit
<1>2. /\ mem.bufs = <<>> /\ mem.shares = {} /\ mem.dead = {} /\ mem.mixed = {} /\ Shape(mem)
      /\ mem.queue = [c \in Peers |-> <<>>] /\ mem.want = [c \in Peers |-> <<>>]
  BY <1>1 DEF Shape
<1>3. InUse(mem) = {}
  BY <1>2 DEF InUse
<1>4. \A c \in Peers : mem.queue[c] = << >> /\ mem.want[c] = << >>
  BY <1>2
<1>5. MemTyped(mem)
  <2>1. mem.queue \in [Peers -> Seq(Uses)] /\ mem.want \in [Peers -> Seq(Units)]
    BY <1>2
  <2>2. mem.bufs \in [InUse(mem) -> SBuffers]
    BY <1>2, <1>3
  <2>3. IsFiniteSet(InUse(mem))
    BY <1>3, FS_EmptySet
  <2> QED BY <1>2, <1>3, <2>1, <2>2, <2>3 DEF MemTyped
<1>6. \A c \in Peers : Len(mem.queue[c]) = 0
  BY <1>4
<1>7. BufsOK(mem)
  <2>1. Fits(mem) /\ Counts(mem)
    BY <1>3 DEF Fits, Counts
  <2>2. UsesOK(mem) /\ OnceEach(mem)
    BY <1>6 DEF UsesOK, OnceEach, Once
  <2> QED BY <1>5, <2>1, <2>2 DEF BufsOK
<1>8. ASSUME NEW c \in Peers PROVE Right(mem, c) /\ Short(mem, c) /\ Gone(mem, c)
  <2>1. Len(Content(mem, c)) = 0 /\ Content(mem, c) \in Seq(Units)
    BY <1>4, <1>7, EmptyContent, ContentTyped
  <2>2. Content(mem, c) = << >>
    BY <2>1
  <2>3. Right(mem, c)
    BY <1>4, <2>2 DEF Right
  <2>4. Short(mem, c)
    BY <2>1, LimitsTyped DEF Short, Length
  <2>5. Gone(mem, c)
    BY <1>4 DEF Gone
  <2> QED BY <2>3, <2>4, <2>5
<1>9. CastOK(mem, cast)
  <2>1. cast.left = << >> /\ cast.data = << >>
        /\ cast = [data |-> cast.data, left |-> cast.left, local |-> cast.local, remote |-> cast.remote]
    BY <1>1 DEF NoCast
  <2>2. cast.left \in Seq(Peers) /\ cast.data \in Seq(Units) /\ Len(cast.left) = 0
    BY <2>1
  <2> QED BY <1>2, <2>1, <2>2 DEF CastOK, Distinct
<1> QED BY <1>7, <1>8, <1>9 DEF SendInv, Good

\* send_queued keeps the invariant.
LEMMA QueuedKept ==
  ASSUME SendInv, NEW c \in Peers, send_queued(c)
  PROVE  SendInv'
<1>1. mem' \in Written(mem, c) /\ cast' = cast
  BY DEF send_queued
<1>2. Kept(mem, mem')
  BY <1>1, GoodWritten DEF SendInv
<1>3. CastOK(mem', cast)
  BY <1>2, CastKept DEF SendInv
<1> QED BY <1>1, <1>2, <1>3 DEF SendInv, Kept

\* close_connection keeps the invariant.
LEMMA ReconnectKept ==
  ASSUME SendInv, NEW c \in Peers, reconnect(c)
  PROVE  SendInv'
<1>0. Good(mem) /\ CastOK(mem, cast)
  BY DEF SendInv
<1>1. PICK p : p = SBufClear(mem, c)
  OBVIOUS
<1>2. mem' = [p EXCEPT !.dead = mem.dead \ {c}, !.mixed = mem.mixed \ {c}] /\ cast' = cast
  BY <1>1 DEF reconnect
<1>3. Shape(p)
  BY <1>0, <1>1, ClearSpec DEF Good, BufsOK, MemTyped
<1>4. /\ Shape(mem') /\ mem'.bufs = p.bufs /\ mem'.queue = p.queue /\ mem'.shares = p.shares
      /\ mem'.want = p.want /\ mem'.dead = mem.dead \ {c} /\ mem'.mixed = mem.mixed \ {c}
  BY <1>2, <1>3 DEF Shape
<1>5. mem.dead \ {c} \in SUBSET Peers /\ mem.mixed \ {c} \in SUBSET Peers
  BY <1>0 DEF Good, BufsOK, MemTyped
<1>6. mem.dead \ {c} \subseteq mem.dead \cup {c} /\ mem.mixed \subseteq (mem.mixed \ {c}) \cup {c}
  OBVIOUS
<1>7. Kept(mem, mem')
  BY <1>0, <1>1, <1>4, <1>5, <1>6, Cleared
<1>8. CastOK(mem', cast)
  BY <1>0, <1>7, CastKept
<1> QED BY <1>2, <1>7, <1>8 DEF SendInv, Kept

\* A sequence over a larger set.
LEMMA SeqWider ==
  ASSUME NEW A, NEW B, A \subseteq B, NEW s \in Seq(A)
  PROVE  s \in Seq(B)
OBVIOUS

\* sendto_one keeps the invariant.
LEMMA OneKept ==
  ASSUME SendInv, NEW c \in Peers, NEW data \in Messages, sendto_one(c, data)
  PROVE  SendInv'
<1>0. Good(mem) /\ CastOK(mem, cast)
  BY DEF SendInv
<1>1. data \in Seq(Units) /\ data # << >> /\ Len(data) <= LargeBuf
  <2>1. data \in Seq(STRING) /\ data # << >> /\ Len(data) <= LargeBuf
    BY SendAssumption
  <2>2. STRING \subseteq Units
    BY DEF Units
  <2> QED BY <2>1, <2>2, SeqWider
<1>2. PICK p : p = sbuf_put(mem, c, data)
  OBVIOUS
<1>3. mem' = send_message(mem, c, p) /\ cast' = cast
  BY <1>2 DEF sendto_one
<1>4. Kept(mem, mem') \/ (mem' = p /\ c \notin mem.dead /\ Length(mem, c) <= MaxSendQ)
  BY <1>0, <1>3, GoodMessage
<1>5. Kept(mem, mem')
  BY <1>0, <1>1, <1>2, <1>4, GoodPut
<1>6. CastOK(mem', cast)
  BY <1>0, <1>5, CastKept
<1> QED BY <1>3, <1>5, <1>6 DEF SendInv, Kept

\* sbuf_begin_share keeps the invariant: its buffers are new.
LEMMA BeginKept ==
  ASSUME SendInv, NEW to \in Audiences, sbuf_begin_share(to, <<"all">>)
  PROVE  SendInv'
<1>0. Good(mem) /\ CastOK(mem, cast)
  BY DEF SendInv
<1>1. PICK data : data = <<"all">>
  OBVIOUS
<1>2. data \in Seq(Units) /\ data # << >> /\ Len(data) <= LargeBuf
  <2>1. <<"all">> \in Seq(Units) /\ Len(<<"all">>) = 1
    BY UnitNote, OneUnit
  <2>2. data \in Seq(Units) /\ Len(data) = 1
    BY <1>1, <2>1
  <2> QED BY <2>2, LimitsTyped
<1>3. PICK q : q = IF Range(to) \cap Users # {} THEN begin_share(mem, data) ELSE mem
  OBVIOUS
<1>4. PICK r : r = IF Server \in Range(to) THEN begin_share(q, data) ELSE q
  OBVIOUS
<1>5. PICK a, b : a = sbuf_alloc(mem) /\ b = sbuf_alloc(q)
  OBVIOUS
<1>6. PICK k : k = [data |-> data, left |-> to, local |-> a, remote |-> b]
  OBVIOUS
<1>7. mem' = r /\ cast' = k
  BY <1>1, <1>3, <1>4, <1>5, <1>6 DEF sbuf_begin_share
<1>8. /\ Good(q) /\ q.queue = mem.queue
      /\ Range(to) \cap Users # {} => a \in q.shares /\ \A d \in Peers : ~ UsesBuf(q, d, a)
  <2>1. CASE Range(to) \cap Users # {}
    BY <1>0, <1>2, <1>3, <1>5, <2>1, BeginShare
  <2>2. CASE ~ (Range(to) \cap Users # {})
    BY <1>0, <1>3, <2>2
  <2> QED BY <2>1, <2>2
<1>9. /\ Good(r) /\ r.queue = q.queue /\ q.shares \subseteq r.shares
      /\ Server \in Range(to) => b \in r.shares /\ \A d \in Peers : ~ UsesBuf(r, d, b)
  <2>1. CASE Server \in Range(to)
    BY <1>2, <1>4, <1>5, <1>8, <2>1, BeginShare
  <2>2. CASE Server \notin Range(to)
    BY <1>4, <1>8, <2>2
  <2> QED BY <2>1, <2>2
<1>10. to \in Seq(Peers) /\ Distinct(to)
  BY AudienceIs
<1>11. k.left = to /\ k.data = data /\ k.local = a /\ k.remote = b
       /\ k = [data |-> k.data, left |-> k.left, local |-> k.local, remote |-> k.remote]
  BY <1>6
<1>12. ASSUME NEW i \in 1 .. Len(to) PROVE Awaits(r, k, to[i])
  <2>1. PICK c \in Peers : c = to[i] /\ c \in Range(to)
    BY <1>10 DEF Range
  <2>2. CASE c = Server
    <3>1. SharedOf(k, c) = b
      BY <1>11, <2>2 DEF SharedOf
    <3> QED BY <1>9, <2>1, <2>2, <3>1 DEF Awaits
  <2>3. CASE c # Server
    <3>1. SharedOf(k, c) = a /\ c \in Users
      BY <1>11, <2>3 DEF SharedOf, Peers
    <3>2. a \in q.shares /\ ~ UsesBuf(q, c, a)
      BY <1>8, <2>1, <3>1
    <3>3. ~ UsesBuf(r, c, a)
      BY <1>9, <3>2 DEF UsesBuf
    <3> QED BY <1>9, <2>1, <3>1, <3>2, <3>3 DEF Awaits
  <2> QED BY <2>2, <2>3
<1>13. CastOK(r, k)
  <2>1. k.left \in Seq(Peers) /\ Distinct(k.left) /\ k.data \in Seq(Units)
    BY <1>2, <1>10, <1>11
  <2>2. k.data = << >> => r.shares = {}
    BY <1>2, <1>11
  <2>3. \A i \in 1 .. Len(k.left) : Awaits(r, k, k.left[i])
    BY <1>11, <1>12
  <2> QED BY <1>11, <2>1, <2>2, <2>3 DEF CastOK
<1> QED BY <1>7, <1>9, <1>13 DEF SendInv

\* The next one's turn keeps the invariant: those after it do not use its buffer yet.
LEMMA ShareKept ==
  ASSUME SendInv, send_share
  PROVE  SendInv'
<1>0. Good(mem) /\ CastOK(mem, cast) /\ cast.left # << >> /\ cast.data # << >>
  BY DEF SendInv, send_share, Unshared
<1>1. PICK l \in Seq(Peers) : l = cast.left /\ l # << >>
  BY <1>0 DEF CastOK
<1>2. PICK c \in Peers : c = Head(l) /\ c = l[1]
  BY <1>1
<1>a. PICK t : t = Tail(l)
  OBVIOUS
<1>3. t \in Seq(Peers) /\ t = Tail(l) /\ Len(t) = Len(l) - 1 /\ \A i \in 1 .. Len(t) : t[i] = l[i + 1]
  BY <1>1, <1>a
<1>4. PICK n \in Nat : n = Len(l) /\ n >= 1 /\ Len(t) = n - 1
  BY <1>1, <1>3
<1>5. PICK b : b = SharedOf(cast, c)
  OBVIOUS
<1>6. b \in mem.shares /\ ~ UsesBuf(mem, c, b)
  <2>1. 1 \in 1 .. Len(cast.left) /\ c = cast.left[1]
    BY <1>1, <1>2, <1>4
  <2>2. Awaits(mem, cast, c)
    BY <1>0, <2>1 DEF CastOK
  <2> QED BY <1>5, <2>2 DEF Awaits
<1>7. PICK p, q : p = sbuf_put_share(mem, c, b, cast.data) /\ q = send_message(mem, c, p)
  OBVIOUS
<1>8. mem' \in {q} \cup Written(q, c) /\ cast' = [cast EXCEPT !.left = t]
  BY <1>1, <1>2, <1>3, <1>5, <1>7 DEF send_share, SharedOf
<1>9. PutOn(mem, q, c)
  <2>1. Kept(mem, q) \/ (q = p /\ c \notin mem.dead /\ Length(mem, c) <= MaxSendQ)
    BY <1>0, <1>7, GoodMessage
  <2>2. CASE Kept(mem, q)
    BY <2>2, KeptPut
  <2>3. CASE q = p /\ c \notin mem.dead /\ Length(mem, c) <= MaxSendQ
    <3>1. cast.data \in Seq(Units)
      BY <1>0 DEF CastOK
    <3> QED BY <1>0, <1>6, <1>7, <2>3, <3>1, PutShare
  <2> QED BY <2>1, <2>2, <2>3
<1>10. PutOn(mem, mem', c)
  <2>1. CASE mem' = q
    BY <1>9, <2>1
  <2>2. CASE mem' \in Written(q, c)
    <3>1. Good(q)
      BY <1>9 DEF PutOn
    <3>2. Kept(q, mem')
      BY <2>2, <3>1, GoodWritten
    <3> QED BY <1>9, <3>2, PutKept
  <2> QED BY <1>8, <2>1, <2>2
<1>11. /\ cast'.left = t /\ cast'.data = cast.data /\ cast'.local = cast.local /\ cast'.remote = cast.remote
       /\ cast' = [data |-> cast'.data, left |-> cast'.left, local |-> cast'.local, remote |-> cast'.remote]
  BY <1>0, <1>8 DEF CastOK
<1>12. Distinct(l)
  BY <1>0, <1>1 DEF CastOK
<1>13. Distinct(t)
  <2> SUFFICES ASSUME NEW i \in 1 .. Len(t), NEW j \in 1 .. Len(t), t[i] = t[j] PROVE i = j
    BY DEF Distinct
  <2>1. i + 1 \in 1 .. Len(l) /\ j + 1 \in 1 .. Len(l)
    BY <1>4
  <2>2. l[i + 1] = l[j + 1]
    BY <1>3
  <2>3. i + 1 = j + 1
    BY <1>12, <2>1, <2>2 DEF Distinct
  <2> QED BY <2>3
<1>14. ASSUME NEW i \in 1 .. Len(t) PROVE Awaits(mem', cast', t[i])
  <2>1. PICK j : j = i + 1 /\ j \in 1 .. Len(l) /\ j # 1
    BY <1>4
  <2>2. PICK d \in Peers : d = t[i] /\ d = l[j]
    BY <1>3, <2>1
  <2>3. d # c
    BY <1>2, <1>4, <1>12, <2>1, <2>2 DEF Distinct
  <2>4. Awaits(mem, cast, d)
    BY <1>0, <1>1, <2>1, <2>2 DEF CastOK
  <2>5. SharedOf(cast', d) = SharedOf(cast, d)
    BY <1>11 DEF SharedOf
  <2>6. Fewer(mem, mem', d) /\ mem'.shares = mem.shares
    BY <1>10, <2>3 DEF PutOn
  <2> QED BY <2>2, <2>4, <2>5, <2>6 DEF Awaits, Fewer
<1>15. CastOK(mem', cast')
  <2>1. cast'.left \in Seq(Peers) /\ Distinct(cast'.left) /\ cast'.data \in Seq(Units)
    BY <1>0, <1>3, <1>11, <1>13 DEF CastOK
  <2>2. cast'.data = << >> => mem'.shares = {}
    BY <1>0, <1>11
  <2>3. \A i \in 1 .. Len(cast'.left) : Awaits(mem', cast', cast'.left[i])
    BY <1>11, <1>14
  <2> QED BY <1>11, <2>1, <2>2, <2>3 DEF CastOK
<1> QED BY <1>10, <1>15 DEF SendInv, PutOn

\* sbuf_end_share keeps the invariant.
LEMMA EndKept ==
  ASSUME SendInv, sbuf_end_share
  PROVE  SendInv'
<1>1. mem' = EndShare(mem) /\ cast' = NoCast
  BY DEF sbuf_end_share, EndShare
<1>2. Good(mem') /\ mem'.shares = {}
  BY <1>1, EndedShare DEF SendInv
<1>3. cast'.left = << >> /\ cast'.data = << >>
      /\ cast' = [data |-> cast'.data, left |-> cast'.left, local |-> cast'.local, remote |-> cast'.remote]
  BY <1>1 DEF NoCast
<1>4. cast'.left \in Seq(Peers) /\ cast'.data \in Seq(Units) /\ Len(cast'.left) = 0
  BY <1>3
<1>5. CastOK(mem', cast')
  BY <1>2, <1>3, <1>4 DEF CastOK, Distinct
<1> QED BY <1>2, <1>5 DEF SendInv

\* What the invariant says of buffers and queues.
LEMMA SendInvRight == SendInv => SendqRight
<1> SUFFICES ASSUME SendInv PROVE SendqRight
  OBVIOUS
<1>1. Good(mem) /\ BufsOK(mem) /\ MemTyped(mem) /\ CastOK(mem, cast)
  BY DEF SendInv, Good, BufsOK
<1>2. \A c \in Peers : DOMAIN mem.queue[c] = 1 .. Len(mem.queue[c])
  BY <1>1 DEF MemTyped
<1>3. SendTypeOK
  <2>1. \A b \in InUse(mem) : mem.bufs[b].refs \in Nat /\ Len(mem.bufs[b].data) <= mem.bufs[b].size
    BY <1>1 DEF BufsOK, Fits, MemTyped, SBuffers
  <2>2. \A c \in Peers : \A i \in DOMAIN mem.queue[c] : mem.queue[c][i].buf \in InUse(mem)
    BY <1>1, <1>2 DEF BufsOK, UsesOK, UseOK
  <2> QED BY <1>1, <2>1, <2>2 DEF SendTypeOK, MemTyped
<1>4. ASSUME NEW b \in InUse(mem)
      PROVE  /\ mem.bufs[b].refs = Cardinality({c \in Peers : \E i \in DOMAIN mem.queue[c] :
                                                                mem.queue[c][i].buf = b})
             /\ mem.bufs[b].refs > 0 \/ (~ Unshared /\ b \in mem.shares)
  <2>1. UsersOf(mem, b) = {c \in Peers : \E i \in DOMAIN mem.queue[c] : mem.queue[c][i].buf = b}
    BY <1>2 DEF UsersOf
  <2>2. Counted(mem, b)
    BY <1>1 DEF BufsOK, Counts
  <2>3. b \in mem.shares => ~ Unshared
    BY <1>1 DEF CastOK, Unshared
  <2> QED BY <2>1, <2>2, <2>3 DEF Counted
<1>5. BufRefs
  BY <1>3, <1>4 DEF BufRefs
<1>6. QueueRight
  <2>1. \A c \in Peers \ mem.mixed : Content(mem, c) = mem.want[c]
    BY <1>1 DEF Good, Right
  <2>2. \A c \in Peers : Length(mem, c) <= MaxSendQ + LargeBuf
    BY <1>1 DEF Good, Short
  <2>3. \A c \in mem.dead : mem.queue[c] = << >>
    BY <1>1 DEF Good, Gone, MemTyped
  <2> QED BY <2>1, <2>2, <2>3 DEF QueueRight
<1> QED BY <1>5, <1>6 DEF SendqRight

\* Whatever is sent, to one or to many, and whichever links die while it is: every buffer's
\* count (sbuf_put_share, sbuf_delete) is the number of queues that use it, none is freed under a queue and
\* none is left over, and every queue holds what its link was sent and is not written yet, in order and
\* within the limit.
THEOREM SendqAlwaysRight == SendSpec => []SendqRight
<1>1. SendInit => SendInv
  BY SendInitInv
<1>2. SendInv /\ [SendNext]_sendVars => SendInv'
  <2> SUFFICES ASSUME SendInv, [SendNext]_sendVars PROVE SendInv'
    OBVIOUS
  <2>1. CASE SendNext
    <3>1. CASE \E c \in Peers : send_queued(c) \/ reconnect(c)
      BY <3>1, QueuedKept, ReconnectKept
    <3>2. CASE \E c \in Peers, data \in Messages : sendto_one(c, data)
      BY <3>2, OneKept
    <3>3. CASE \E to \in Audiences : sbuf_begin_share(to, <<"all">>)
      BY <3>3, BeginKept
    <3>4. CASE send_share
      BY <3>4, ShareKept
    <3>5. CASE sbuf_end_share
      BY <3>5, EndKept
    <3> QED BY <2>1, <3>1, <3>2, <3>3, <3>4, <3>5 DEF SendNext
  <2>2. CASE UNCHANGED sendVars
    BY <2>2 DEF SendInv, sendVars
  <2> QED BY <2>1, <2>2
<1>3. SendInv => SendqRight
  BY SendInvRight
<1> QED BY <1>1, <1>2, <1>3, PTL DEF SendSpec

============================================================================
