---------------------------- MODULE TableProofs ----------------------------
(***************************************************************************)
(* The tables of one server that clients and modules are entered in are    *)
(* right for every number of clients, nicks, channels and hooks.  Each     *)
(* part has an inductive invariant (WhowasInv, WatchInv, DccInv, HooksInv, *)
(* TargetsInv, FludInv), a lemma that every step keeps it, and theorems.   *)
(***************************************************************************)
EXTENDS Whowas, Watch, DccAllow, Message, Hooks, ListLemmas

----------------------------------------------------------------------------
(* Nick history.                                                           *)

RingRecs == [ring : [Slots -> Entries \cup {Blank}], chain : [Buckets -> Seq(Slots)],
             clist : [Clients -> Seq(Slots)], next : Slots]

\* How many entries were made since the one in slot i, itself included.
Age(w, i) == IF i < w.next THEN w.next - i ELSE w.next - i + HistoryLength

\* The chains hold the used entries of their hash, newest first.
ChainsOK(w) ==
  /\ \A b \in Buckets : \A i \in Slots : i \in Range(w.chain[b]) <=> w.ring[i].hashv = b
  /\ \A b \in Buckets : \A k, l \in 1 .. Len(w.chain[b]) :
       k < l => Age(w, w.chain[b][k]) < Age(w, w.chain[b][l])

\* The list of a client holds the entries that are about it.
ClistsOK(w) ==
  \A c \in Clients : /\ IsInjective(w.clist[c])
                     /\ \A i \in Slots : i \in Range(w.clist[c]) <=> w.ring[i].online = c

\* The entries up to the next are used, or all.
FilledTo(w, n) == /\ n \in {w.next, HistoryLength}
                  /\ \A i \in Slots : w.ring[i].hashv # Unhashed <=> i < n

Hashed(w) == \A i \in Slots : w.ring[i].hashv # Unhashed => w.ring[i].hashv = hashOf[w.ring[i].name]

RingOK(w) == /\ w \in RingRecs /\ ChainsOK(w) /\ ClistsOK(w) /\ Hashed(w)
             /\ \E n \in 0 .. HistoryLength : FilledTo(w, n)

\* What the fields of a slot can be.
LEMMA EntryFields ==
  ASSUME NEW w \in RingRecs, NEW i \in Slots
  PROVE  /\ w.ring[i].online \in Clients \cup {None}
         /\ w.ring[i].hashv \in Buckets \cup {Unhashed}
         /\ w.ring[i].logoff \in Int
         /\ w.ring[i].hashv # Unhashed => w.ring[i] \in Entries
         /\ w.ring[i].hashv = Unhashed => w.ring[i] = Blank
         /\ w.ring[i].online # None => w.ring[i].hashv \in Buckets
         /\ w.next \in Int
<1> PICK e : e = w.ring[i] OBVIOUS
<1>1. w.ring \in [Slots -> Entries \cup {Blank}] /\ w.next \in Int
  BY DEF RingRecs, Slots
<1>2. e \in Entries \/ e = Blank
  BY <1>1
<1>3. CASE e \in Entries
  <2>1. e.online \in Clients \cup {None} /\ e.hashv \in Buckets /\ e.logoff \in Nat
    BY <1>3 DEF Entries
  <2>2. Unhashed \notin Buckets
    BY WhowasAssumption DEF Buckets
  <2> QED BY <1>1, <1>3, <2>1, <2>2
<1>4. CASE e = Blank
  <2>1. e.online = None /\ e.hashv = Unhashed /\ e.logoff = 0
    BY <1>4 DEF Blank
  <2> QED BY <1>1, <1>4, <2>1
<1> QED BY <1>2, <1>3, <1>4

\* The parts of the table.
LEMMA RingFields ==
  ASSUME NEW w \in RingRecs
  PROVE  /\ w = [ring |-> w.ring, chain |-> w.chain, clist |-> w.clist, next |-> w.next]
         /\ w.ring \in [Slots -> Entries \cup {Blank}] /\ w.chain \in [Buckets -> Seq(Slots)]
         /\ w.clist \in [Clients -> Seq(Slots)] /\ w.next \in Slots
         /\ w.next \in Int /\ HistoryLength \in Nat \ {0}
         /\ \A i \in Slots : i \in Int
BY WhowasAssumption DEF RingRecs, Slots

\* Chains have no entry twice.
LEMMA ChainsInjective ==
  ASSUME NEW w \in RingRecs, ChainsOK(w), NEW b \in Buckets
  PROVE  IsInjective(w.chain[b])
<1> PICK s \in Seq(Slots) : s = w.chain[b]
  BY RingFields
<1>1. Len(s) \in Nat /\ DOMAIN s = 1 .. Len(s) /\ \A k \in 1 .. Len(s) : s[k] \in Slots
  OBVIOUS
<1>2. \A k, l \in 1 .. Len(s) : k < l => Age(w, s[k]) < Age(w, s[l])
  BY DEF ChainsOK
<1>3. \A i \in Slots : Age(w, i) \in Int
  BY RingFields DEF Age
<1>4. ASSUME NEW k \in 1 .. Len(s), NEW l \in 1 .. Len(s), s[k] = s[l] PROVE k = l
  <2>1. (k < l => Age(w, s[k]) < Age(w, s[l])) /\ (l < k => Age(w, s[l]) < Age(w, s[k]))
    BY <1>2
  <2>2. PICK x \in Int : x = Age(w, s[k]) /\ x = Age(w, s[l])
    BY <1>1, <1>3, <1>4
  <2>3. ~ (k < l) /\ ~ (l < k)
    BY <2>1, <2>2
  <2> QED BY <1>1, <2>3
<1> QED BY <1>1, <1>4 DEF IsInjective

\* The entry add_history re-uses is the oldest, and every other grows older.
LEMMA Ages ==
  ASSUME NEW w \in RingRecs, NEW v \in RingRecs, v.next = next_slot(w.next)
  PROVE  /\ Age(v, w.next) = 1 /\ Age(w, w.next) = HistoryLength
         /\ \A i \in Slots : Age(w, i) \in 1 .. HistoryLength
         /\ \A i \in Slots : i # w.next => Age(v, i) = Age(w, i) + 1
<1>1. w.next \in Slots /\ HistoryLength \in Nat \ {0}
  BY RingFields
<1> PICK x \in Slots : x = w.next
  BY <1>1
<1> PICK y : y = v.next OBVIOUS
<1>2. y = IF x + 1 = HistoryLength THEN 0 ELSE x + 1
  BY DEF next_slot
<1>3. \A i \in Slots : i # x => (IF i < y THEN y - i ELSE y - i + HistoryLength)
                                = (IF i < x THEN x - i ELSE x - i + HistoryLength) + 1
  BY <1>1, <1>2 DEF Slots
<1>4. \A i \in Slots : (IF i < x THEN x - i ELSE x - i + HistoryLength) \in 1 .. HistoryLength
  BY <1>1 DEF Slots
<1>5. (IF x < y THEN y - x ELSE y - x + HistoryLength) = 1 /\ x - x + HistoryLength = HistoryLength
  BY <1>1, <1>2 DEF Slots
<1>6. ~ (x < x)
  BY <1>1 DEF Slots
<1> QED BY <1>3, <1>4, <1>5, <1>6 DEF Age

\* unhook: the slot leaves its lists.
LEMMA Unhooks ==
  ASSUME NEW w, RingOK(w)
  PROVE  LET v == unhook(w, w.next)
         IN  /\ v \in RingRecs /\ v.ring = w.ring /\ v.next = w.next
             /\ \A b \in Buckets :
                  /\ Range(v.chain[b]) = Range(w.chain[b]) \ {w.next}
                  /\ \A k, l \in 1 .. Len(v.chain[b]) :
                       k < l => Age(w, v.chain[b][k]) < Age(w, v.chain[b][l])
             /\ \A c \in Clients : /\ IsInjective(v.clist[c])
                                   /\ Range(v.clist[c]) = Range(w.clist[c]) \ {w.next}
<1> DEFINE v == unhook(w, w.next)
           e == w.ring[w.next]
           x == w.next
<1>1. w \in RingRecs /\ ChainsOK(w) /\ ClistsOK(w)
  BY DEF RingOK
<1>2. /\ w.ring \in [Slots -> Entries \cup {Blank}] /\ w.chain \in [Buckets -> Seq(Slots)]
      /\ w.clist \in [Clients -> Seq(Slots)] /\ x \in Slots
      /\ w = [ring |-> w.ring, chain |-> w.chain, clist |-> w.clist, next |-> x]
  BY <1>1, RingFields
<1>3. /\ e.online \in Clients \cup {None} /\ e.hashv \in Buckets \cup {Unhashed}
      /\ e.online # None => e.hashv \in Buckets
  BY <1>1, <1>2, EntryFields
<1>4. /\ \A b \in Buckets : x \in Range(w.chain[b]) <=> e.hashv = b
      /\ \A c \in Clients : x \in Range(w.clist[c]) <=> e.online = c
      /\ \A c \in Clients : IsInjective(w.clist[c])
  BY <1>1, <1>2 DEF ChainsOK, ClistsOK
<1>5. None \notin Clients /\ Unhashed \notin Buckets
  BY CommonAssumption, WhowasAssumption DEF Buckets
<1>6. CASE e.hashv = Unhashed
  <2>1. v = w
    BY <1>6 DEF unhook
  <2>2. e.online = None
    BY <1>3, <1>5, <1>6
  <2>3. \A b \in Buckets : Range(w.chain[b]) = Range(w.chain[b]) \ {x}
    BY <1>4, <1>5, <1>6
  <2>4. \A c \in Clients : Range(w.clist[c]) = Range(w.clist[c]) \ {x}
    BY <1>4, <1>5, <2>2
  <2> QED BY <1>1, <1>4, <2>1, <2>3, <2>4 DEF ChainsOK
<1>7. CASE e.hashv # Unhashed
  <2> DEFINE h == e.hashv
             p == RemoveFirst(w.chain[h], x)
             chain == [w.chain EXCEPT ![h] = p]
             clist == IF e.online = None THEN w.clist
                      ELSE [w.clist EXCEPT ![e.online] = RemoveFirst(w.clist[e.online], x)]
  <2>1. h \in Buckets
    BY <1>3, <1>7
  <2>2. v = [ring |-> w.ring, chain |-> chain, clist |-> clist, next |-> x]
    <3>1. v = [w EXCEPT !.clist = clist, !.chain = chain]
      BY <1>7 DEF unhook
    <3> HIDE DEF chain, clist, v
    <3> QED BY <1>2, <3>1
  <2>3. /\ p \in Seq(Slots) /\ IsInjective(p) /\ Range(p) = Range(w.chain[h]) \ {x}
        /\ \E at : Thins(p, w.chain[h], at)
    BY <1>1, <1>2, <2>1, ChainsInjective, RemoveFirstSpec, ZenonT(30)
  <2>4. \A k, l \in 1 .. Len(p) : k < l => Age(w, p[k]) < Age(w, p[l])
    <3> SUFFICES ASSUME NEW k \in 1 .. Len(p), NEW l \in 1 .. Len(p), k < l
                 PROVE  Age(w, p[k]) < Age(w, p[l])
      BY SMTT(30)
    <3>1. PICK at : Thins(p, w.chain[h], at)
      BY <2>3
    <3>2. /\ at[k] \in 1 .. Len(w.chain[h]) /\ at[l] \in 1 .. Len(w.chain[h]) /\ at[k] < at[l]
          /\ p[k] = w.chain[h][at[k]] /\ p[l] = w.chain[h][at[l]]
      <4> HIDE DEF p
      <4> QED BY <3>1 DEF Thins
    <3>3. \A i, j \in 1 .. Len(w.chain[h]) : i < j => Age(w, w.chain[h][i]) < Age(w, w.chain[h][j])
      BY <1>1, <2>1 DEF ChainsOK
    <3> HIDE DEF p, h, chain, clist, e, v
    <3> QED BY <3>2, <3>3
  <2>5. \A b \in Buckets : /\ chain[b] \in Seq(Slots)
                           /\ Range(chain[b]) = Range(w.chain[b]) \ {x}
                           /\ \A k, l \in 1 .. Len(chain[b]) :
                                k < l => Age(w, chain[b][k]) < Age(w, chain[b][l])
    <3> HIDE DEF p
    <3> TAKE b \in Buckets
    <3>1. CASE b = h
      <4>1. chain[b] = p
        BY <1>2, <3>1
      <4> HIDE DEF chain, h
      <4> QED BY <2>3, <2>4, <3>1, <4>1
    <3>2. CASE b # h
      <4>1. chain[b] = w.chain[b] /\ x \notin Range(w.chain[b])
        BY <1>2, <1>4, <3>2
      <4> HIDE DEF chain
      <4> QED BY <1>1, <1>2, <4>1 DEF ChainsOK
    <3> QED BY <3>1, <3>2
  <2>6. \A c \in Clients : /\ clist[c] \in Seq(Slots) /\ IsInjective(clist[c])
                           /\ Range(clist[c]) = Range(w.clist[c]) \ {x}
    <3> TAKE c \in Clients
    <3>1. CASE c = e.online
      <4>1. clist[c] = RemoveFirst(w.clist[c], x)
        BY <1>2, <1>5, <3>1
      <4> HIDE DEF clist
      <4> QED BY <1>2, <1>4, <4>1, RemoveFirstSpec
    <3>2. CASE c # e.online
      <4>1. clist[c] = w.clist[c] /\ x \notin Range(w.clist[c])
        BY <1>2, <1>3, <1>4, <3>2
      <4> HIDE DEF clist
      <4> QED BY <1>2, <1>4, <4>1
    <3> QED BY <3>1, <3>2
  <2>7. chain \in [Buckets -> Seq(Slots)] /\ clist \in [Clients -> Seq(Slots)]
    <3>1. DOMAIN chain = Buckets /\ chain = [b \in Buckets |-> chain[b]]
      BY <1>2
    <3>2. DOMAIN clist = Clients /\ clist = [b \in Clients |-> clist[b]]
      BY <1>2
    <3> HIDE DEF chain, clist
    <3> QED BY <2>5, <2>6, <3>1, <3>2
  <2> HIDE DEF chain, clist
  <2>8. v.chain = chain /\ v.clist = clist /\ v.ring = w.ring /\ v.next = x
    BY <2>2
  <2>9. v \in RingRecs
    BY <1>2, <2>2, <2>7 DEF RingRecs
  <2> QED BY <2>5, <2>6, <2>8, <2>9
<1> QED BY <1>6, <1>7

\* add_history keeps the tables in order; the slot it re-uses is new, the
\* others are as before.
LEMMA Adds ==
  ASSUME NEW w, RingOK(w), NEW c \in Clients, NEW n \in Nicks, NEW t \in Nat, NEW on \in BOOLEAN
  PROVE  LET v == add_history(w, c, n, t, on)
         IN  /\ RingOK(v) /\ v.next = next_slot(w.next)
             /\ v.ring[w.next] = [hashv |-> hashOf[n], name |-> n, logoff |-> t,
                                  online |-> IF on THEN c ELSE None]
             /\ \A i \in Slots : i # w.next => v.ring[i] = w.ring[i]
<1> DEFINE v == add_history(w, c, n, t, on)
           x == w.next
           h == hashOf[n]
           new == [hashv |-> h, name |-> n, logoff |-> t, online |-> IF on THEN c ELSE None]
<1>1. PICK u : u = unhook(w, x) OBVIOUS
<1>2. /\ u \in RingRecs /\ u.ring = w.ring /\ u.next = x
      /\ \A b \in Buckets :
           /\ Range(u.chain[b]) = Range(w.chain[b]) \ {x}
           /\ \A k, l \in 1 .. Len(u.chain[b]) :
                k < l => Age(w, u.chain[b][k]) < Age(w, u.chain[b][l])
      /\ \A d \in Clients : IsInjective(u.clist[d]) /\ Range(u.clist[d]) = Range(w.clist[d]) \ {x}
  BY <1>1, Unhooks
<1>3. /\ w \in RingRecs /\ ChainsOK(w) /\ ClistsOK(w) /\ Hashed(w)
      /\ \E m \in 0 .. HistoryLength : FilledTo(w, m)
  BY DEF RingOK
<1>4. /\ w.ring \in [Slots -> Entries \cup {Blank}] /\ x \in Slots /\ x \in Int
      /\ u.chain \in [Buckets -> Seq(Slots)] /\ u.clist \in [Clients -> Seq(Slots)]
      /\ HistoryLength \in Nat \ {0}
  BY <1>2, <1>3, RingFields
<1>5. h \in Buckets /\ h # Unhashed /\ Unhashed \notin Buckets /\ None \notin Clients
  BY CommonAssumption, WhowasAssumption DEF Buckets
<1> DEFINE ring == [w.ring EXCEPT ![x] = new]
           p == <<x>> \o u.chain[h]
           chain == [u.chain EXCEPT ![h] = p]
           q == <<x>> \o u.clist[c]
           clist == IF on THEN [u.clist EXCEPT ![c] = q] ELSE u.clist
<1>6. v = [ring |-> ring, chain |-> chain, clist |-> clist, next |-> next_slot(x)]
  BY <1>1, <1>2 DEF add_history, add_to_list
<1>7. v.ring = ring /\ v.chain = chain /\ v.clist = clist /\ v.next = next_slot(x)
  <2> HIDE DEF ring, chain, clist, x, v
  <2> QED BY <1>6
<1>8. new \in Entries /\ new.hashv = h /\ new.name = n /\ new.online = IF on THEN c ELSE None
  BY <1>5 DEF Entries
<1> HIDE DEF new
<1>9. ring[x] = new /\ \A i \in Slots : i # x => ring[i] = w.ring[i]
  BY <1>4
<1>10. ring \in [Slots -> Entries \cup {Blank}]
  BY <1>4, <1>8
<1> HIDE DEF ring
<1>11. /\ p \in Seq(Slots) /\ Range(p) = Range(u.chain[h]) \cup {x}
       /\ p[1] = x /\ Len(p) = Len(u.chain[h]) + 1 /\ \A i \in 2 .. Len(p) : p[i] = u.chain[h][i - 1]
  <2>1. u.chain[h] \in Seq(Slots)
    BY <1>4, <1>5
  <2> HIDE DEF x, h
  <2> QED BY <1>4, <2>1, PushSpec
<1>12. q \in Seq(Slots) /\ Range(q) = Range(u.clist[c]) \cup {x} /\ IsInjective(q)
  <2>1. u.clist[c] \in Seq(Slots) /\ IsInjective(u.clist[c]) /\ x \notin Range(u.clist[c])
    BY <1>2, <1>4
  <2> HIDE DEF x
  <2> QED BY <1>4, <2>1, PushSpec
<1>13. next_slot(x) \in Slots
  BY <1>4 DEF Slots, next_slot
<1> HIDE DEF p, q
<1>14. chain[h] = p /\ \A b \in Buckets : b # h => chain[b] = u.chain[b]
  BY <1>4, <1>5
<1>15. /\ ~ on => clist = u.clist
       /\ on => clist[c] = q /\ \A d \in Clients : d # c => clist[d] = u.clist[d]
  BY <1>4
<1>16. chain \in [Buckets -> Seq(Slots)] /\ clist \in [Clients -> Seq(Slots)]
  <2>1. chain \in [Buckets -> Seq(Slots)]
    BY <1>4, <1>5, <1>11
  <2>2. clist \in [Clients -> Seq(Slots)]
    BY <1>4, <1>12
  <2> QED BY <2>1, <2>2
<1> HIDE DEF chain, clist
<1>17. v \in RingRecs
  <2> HIDE DEF v
  <2> QED BY <1>6, <1>10, <1>13, <1>16 DEF RingRecs
<1>18. /\ Age(v, x) = 1 /\ \A i \in Slots : Age(w, i) \in 1 .. HistoryLength
       /\ \A i \in Slots : i # x => Age(v, i) = Age(w, i) + 1
  BY <1>3, <1>7, <1>17, Ages
<1> HIDE DEF v, x, h
<1>19. ChainsOK(v)
  <2>1. ASSUME NEW b \in Buckets, NEW i \in Slots
        PROVE  i \in Range(chain[b]) <=> ring[i].hashv = b
    <3>1. i \in Range(w.chain[b]) <=> w.ring[i].hashv = b
      BY <1>3 DEF ChainsOK
    <3>2. i \in Range(u.chain[b]) <=> i # x /\ w.ring[i].hashv = b
      BY <1>2, <3>1
    <3>3. i \in Range(chain[b]) <=> (i # x /\ w.ring[i].hashv = b) \/ (i = x /\ b = h)
      BY <1>11, <1>14, <3>2
    <3>4. ring[i].hashv = IF i = x THEN h ELSE w.ring[i].hashv
      BY <1>8, <1>9
    <3> QED BY <3>3, <3>4
  <2>2. ASSUME NEW b \in Buckets, NEW k \in 1 .. Len(chain[b]), NEW l \in 1 .. Len(chain[b]), k < l
        PROVE  Age(v, chain[b][k]) < Age(v, chain[b][l])
    <3> PICK s \in Seq(Slots) : s = u.chain[b]
      BY <1>4
    <3>1. /\ Len(s) \in Nat /\ \A i \in 1 .. Len(s) : s[i] \in Slots
          /\ \A i \in 1 .. Len(s) : s[i] # x
      <4>1. x \notin Range(s) /\ DOMAIN s = 1 .. Len(s)
        BY <1>2
      <4> QED BY <4>1 DEF Range
    <3>2. \A i \in 1 .. Len(s) : Age(v, s[i]) = Age(w, s[i]) + 1 /\ Age(w, s[i]) \in 1 .. HistoryLength
      BY <1>18, <3>1
    <3>3. \A i, j \in 1 .. Len(s) : i < j => Age(w, s[i]) < Age(w, s[j])
      BY <1>2
    <3>4. \A i, j \in 1 .. Len(s) : i < j => Age(v, s[i]) < Age(v, s[j])
      BY <1>4, <3>2, <3>3
    <3>5. CASE b # h
      BY <1>14, <2>2, <3>4, <3>5
    <3>6. CASE b = h
      <4>1. chain[b] = p /\ Len(p) = Len(s) + 1 /\ p[1] = x /\ \A i \in 2 .. Len(p) : p[i] = s[i - 1]
        BY <1>11, <1>14, <3>6
      <4>2. l \in 2 .. Len(p) /\ l - 1 \in 1 .. Len(s) /\ chain[b][l] = s[l - 1]
        BY <2>2, <3>1, <4>1
      <4>3. CASE k = 1
        <5>1. chain[b][k] = x /\ Age(v, chain[b][l]) = Age(w, s[l - 1]) + 1 /\ Age(w, s[l - 1]) \in 1 .. HistoryLength
          BY <3>2, <4>1, <4>2, <4>3
        <5> QED BY <1>4, <1>18, <5>1
      <4>4. CASE k # 1
        <5>1. k \in 2 .. Len(p) /\ k - 1 \in 1 .. Len(s) /\ k - 1 < l - 1 /\ chain[b][k] = s[k - 1]
          BY <2>2, <3>1, <4>1, <4>4
        <5> QED BY <3>4, <4>2, <5>1
      <4> QED BY <4>3, <4>4
    <3> QED BY <3>5, <3>6
  <2> QED BY <1>7, <2>1, <2>2 DEF ChainsOK
<1>20. ClistsOK(v)
  <2>1. ASSUME NEW d \in Clients, NEW i \in Slots
        PROVE  IsInjective(clist[d]) /\ (i \in Range(clist[d]) <=> ring[i].online = d)
    <3>1. i \in Range(w.clist[d]) <=> w.ring[i].online = d
      BY <1>3 DEF ClistsOK
    <3>2. i \in Range(u.clist[d]) <=> i # x /\ w.ring[i].online = d
      BY <1>2, <3>1
    <3>3. i \in Range(clist[d]) <=> (i # x /\ w.ring[i].online = d) \/ (i = x /\ on /\ d = c)
      BY <1>12, <1>15, <3>2
    <3>4. /\ i # x => ring[i].online = w.ring[i].online
          /\ i = x /\ on => ring[i].online = c
          /\ i = x /\ ~ on => ring[i].online = None
      BY <1>8, <1>9
    <3>5. IsInjective(clist[d])
      BY <1>2, <1>12, <1>15
    <3> QED BY <1>5, <3>3, <3>4, <3>5
  <2>2. \E i : i \in Slots
    BY <1>4
  <2> QED BY <1>7, <2>1, <2>2 DEF ClistsOK
<1>21. Hashed(v)
  <2>1. \A i \in Slots : w.ring[i].hashv # Unhashed => w.ring[i].hashv = hashOf[w.ring[i].name]
    BY <1>3 DEF Hashed
  <2>2. ASSUME NEW i \in Slots, ring[i].hashv # Unhashed PROVE ring[i].hashv = hashOf[ring[i].name]
    BY <1>8, <1>9, <2>1, <2>2 DEF h
  <2> QED BY <1>7, <2>2 DEF Hashed
<1>22. \E m \in 0 .. HistoryLength : FilledTo(v, m)
  <2>1. PICK m \in 0 .. HistoryLength : FilledTo(w, m)
    BY <1>3
  <2>2. \A i \in Slots : i \in 0 .. HistoryLength - 1
    BY DEF Slots
  <2>3. \A i \in Slots : ring[i].hashv # Unhashed <=> i < m \/ i = x
    BY <1>5, <1>8, <1>9, <2>1, <2>2 DEF FilledTo
  <2>4. CASE m = HistoryLength \/ x + 1 = HistoryLength
    <3>1. HistoryLength \in 0 .. HistoryLength
      BY <1>4
    <3>2. \A i \in Slots : i < m \/ i = x
      BY <1>4, <2>1, <2>2, <2>4 DEF FilledTo, x
    <3>3. \A i \in Slots : i < HistoryLength
      BY <1>4, <2>2
    <3> QED BY <1>7, <2>3, <3>1, <3>2, <3>3 DEF FilledTo
  <2>5. CASE m # HistoryLength /\ x + 1 # HistoryLength
    <3>1. m = x
      BY <2>1, <2>5 DEF FilledTo, x
    <3>2. next_slot(x) = x + 1 /\ x + 1 \in 0 .. HistoryLength
      BY <1>4, <2>2, <2>5 DEF next_slot
    <3>3. \A i \in Slots : i < x + 1 <=> i < m \/ i = x
      BY <1>4, <2>2, <3>1
    <3> QED BY <1>7, <2>3, <3>2, <3>3 DEF FilledTo
  <2> QED BY <2>4, <2>5
<1>23. RingOK(v)
  BY <1>17, <1>19, <1>20, <1>21, <1>22 DEF RingOK
<1>24. v.ring[x] = new /\ \A i \in Slots : i # x => v.ring[i] = w.ring[i]
  BY <1>7, <1>9
<1> QED BY <1>7, <1>23, <1>24 DEF v, x, new, h

\* An entry or a record after client c is gone.
Left(e, c) == IF e.online = c THEN [e EXCEPT !.online = None] ELSE e

\* off_history takes the client out of every entry.
LEMMA Offs ==
  ASSUME NEW w, RingOK(w), NEW c \in Clients
  PROVE  LET v == off_history(w, c)
         IN  /\ RingOK(v) /\ v.next = w.next
             /\ \A i \in Slots : v.ring[i] = Left(w.ring[i], c)
<1> DEFINE v == off_history(w, c)
           ring == [i \in Slots |-> IF i \in Range(w.clist[c])
                                    THEN [w.ring[i] EXCEPT !.online = None] ELSE w.ring[i]]
           clist == [w.clist EXCEPT ![c] = << >>]
<1>1. /\ w \in RingRecs /\ ChainsOK(w) /\ ClistsOK(w) /\ Hashed(w)
      /\ \E m \in 0 .. HistoryLength : FilledTo(w, m)
  BY DEF RingOK
<1>2. /\ w.ring \in [Slots -> Entries \cup {Blank}] /\ w.chain \in [Buckets -> Seq(Slots)]
      /\ w.clist \in [Clients -> Seq(Slots)] /\ w.next \in Slots
      /\ w = [ring |-> w.ring, chain |-> w.chain, clist |-> w.clist, next |-> w.next]
  BY <1>1, RingFields
<1>3. None \notin Clients
  BY CommonAssumption
<1>4. v = [ring |-> ring, chain |-> w.chain, clist |-> clist, next |-> w.next]
  <2>1. v = [w EXCEPT !.ring = ring, !.clist = clist]
    BY DEF off_history
  <2> HIDE DEF ring, clist, v
  <2> QED BY <1>2, <2>1
<1>5. ASSUME NEW i \in Slots
      PROVE  /\ ring[i] = IF w.ring[i].online = c THEN [w.ring[i] EXCEPT !.online = None] ELSE w.ring[i]
             /\ ring[i].hashv = w.ring[i].hashv /\ ring[i].name = w.ring[i].name
             /\ ring[i].online = IF w.ring[i].online = c THEN None ELSE w.ring[i].online
             /\ ring[i] \in Entries \cup {Blank}
  <2>1. i \in Range(w.clist[c]) <=> w.ring[i].online = c
    BY <1>1 DEF ClistsOK
  <2>2. ring[i] = IF w.ring[i].online = c THEN [w.ring[i] EXCEPT !.online = None] ELSE w.ring[i]
    BY <2>1
  <2>3. CASE w.ring[i].online = c
    <3> PICK e : e = w.ring[i] OBVIOUS
    <3>1. e \in Entries
      BY <1>1, <1>3, <2>3, EntryFields, WhowasAssumption DEF Buckets
    <3> PICK f : f = [e EXCEPT !.online = None] OBVIOUS
    <3>2. f \in Entries /\ f.hashv = e.hashv /\ f.name = e.name /\ f.online = None
      BY <3>1 DEF Entries
    <3>3. ring[i] = f
      BY <2>2, <2>3
    <3> HIDE DEF ring
    <3> QED BY <2>2, <2>3, <3>2, <3>3
  <2>4. CASE w.ring[i].online # c
    <3>1. ring[i] = w.ring[i]
      BY <2>2, <2>4
    <3> HIDE DEF ring
    <3> QED BY <1>2, <2>4, <3>1
  <2> QED BY <2>3, <2>4
<1>6. ring \in [Slots -> Entries \cup {Blank}]
  <2>1. ring = [i \in Slots |-> ring[i]]
    OBVIOUS
  <2> HIDE DEF ring
  <2> QED BY <1>5, <2>1
<1>7. /\ clist \in [Clients -> Seq(Slots)] /\ clist[c] = << >>
      /\ \A d \in Clients : d # c => clist[d] = w.clist[d]
  BY <1>2
<1> HIDE DEF ring, clist
<1>8. v.ring = ring /\ v.chain = w.chain /\ v.clist = clist /\ v.next = w.next /\ v \in RingRecs
  <2> HIDE DEF v
  <2> QED BY <1>2, <1>4, <1>6, <1>7 DEF RingRecs
<1> HIDE DEF v
<1>9. ChainsOK(v)
  <2>1. \A i : Age(v, i) = Age(w, i)
    BY <1>8 DEF Age
  <2>2. \A b \in Buckets : \A i \in Slots : i \in Range(w.chain[b]) <=> ring[i].hashv = b
    BY <1>1, <1>5 DEF ChainsOK
  <2>3. \A b \in Buckets : \A k, l \in 1 .. Len(w.chain[b]) :
          k < l => Age(v, w.chain[b][k]) < Age(v, w.chain[b][l])
    BY <1>1, <2>1 DEF ChainsOK
  <2> QED BY <1>8, <2>2, <2>3 DEF ChainsOK
<1>10. ClistsOK(v)
  <2>1. Range(<< >>) = {} /\ IsInjective(<< >>)
    BY DEF Range, IsInjective
  <2>2. \A d \in Clients : IsInjective(w.clist[d])
                           /\ \A i \in Slots : i \in Range(w.clist[d]) <=> w.ring[i].online = d
    BY <1>1 DEF ClistsOK
  <2>3. ASSUME NEW d \in Clients, NEW i \in Slots
        PROVE  i \in Range(clist[d]) <=> ring[i].online = d
    <3>1. CASE d = c
      <4>1. i \notin Range(clist[d])
        BY <1>7, <2>1, <3>1
      <4>2. ring[i].online # c
        BY <1>3, <1>5
      <4> QED BY <3>1, <4>1, <4>2
    <3>2. CASE d # c
      <4>1. ring[i].online = d <=> w.ring[i].online = d
        BY <1>3, <1>5, <3>2
      <4> QED BY <1>7, <2>2, <3>2, <4>1
    <3> QED BY <3>1, <3>2
  <2>4. \A d \in Clients : IsInjective(clist[d])
    BY <1>7, <2>1, <2>2
  <2> QED BY <1>8, <2>3, <2>4 DEF ClistsOK
<1>11. Hashed(v)
  BY <1>1, <1>5, <1>8 DEF Hashed
<1>12. \E m \in 0 .. HistoryLength : FilledTo(v, m)
  BY <1>1, <1>5, <1>8, ZenonT(30) DEF FilledTo
<1>13. RingOK(v)
  BY <1>8, <1>9, <1>10, <1>11, <1>12 DEF RingOK
<1> QED BY <1>5, <1>8, <1>13 DEF v, Left

----------------------------------------------------------------------------
(* The ring as the history of the last nicks given up.                     *)

SlotOf(w, i) == IF i <= w.next THEN w.next - i ELSE w.next - i + HistoryLength
Rec(e)  == [name |-> e.name, logoff |-> e.logoff, online |-> e.online]
Hist(w) == [i \in 1 .. Cardinality({j \in Slots : w.ring[j].hashv # Unhashed}) |->
              Rec(w.ring[SlotOf(w, i)])]

\* Slots and ages correspond.
LEMMA SlotsByAge ==
  ASSUME NEW w \in RingRecs
  PROVE  /\ \A i \in 1 .. HistoryLength : SlotOf(w, i) \in Slots /\ Age(w, SlotOf(w, i)) = i
         /\ \A j \in Slots : Age(w, j) \in 1 .. HistoryLength /\ SlotOf(w, Age(w, j)) = j
<1>1. w.next \in Slots /\ HistoryLength \in Nat \ {0}
  BY RingFields
<1> PICK x \in Slots : x = w.next
  BY <1>1
<1> DEFINE slot(i) == IF i <= x THEN x - i ELSE x - i + HistoryLength
           age(i) == IF i < x THEN x - i ELSE x - i + HistoryLength
<1>2. \A i \in 1 .. HistoryLength : slot(i) \in Slots /\ age(slot(i)) = i
  BY <1>1 DEF Slots
<1>3. \A j \in Slots : age(j) \in 1 .. HistoryLength /\ slot(age(j)) = j
  BY <1>1 DEF Slots
<1>4. \A i : SlotOf(w, i) = slot(i) /\ Age(w, i) = age(i)
  BY DEF SlotOf, Age
<1> HIDE DEF slot, age
<1> QED BY <1>2, <1>3, <1>4

\* The used slots are the m youngest.
LEMMA HistFilled ==
  ASSUME NEW w \in RingRecs, NEW m \in 0 .. HistoryLength, FilledTo(w, m)
  PROVE  /\ Hist(w) = [i \in 1 .. m |-> Rec(w.ring[SlotOf(w, i)])]
         /\ \A j \in Slots : j < m <=> Age(w, j) <= m
<1>1. w.next \in Slots /\ HistoryLength \in Nat \ {0}
  BY RingFields
<1>2. {j \in Slots : w.ring[j].hashv # Unhashed} = 0 .. m - 1
  BY <1>1 DEF FilledTo, Slots
<1>3. Cardinality(0 .. m - 1) = m
  BY <1>1, FS_Interval
<1>4. m = w.next \/ m = HistoryLength
  BY DEF FilledTo
<1>5. \A j \in Slots : j < m <=> Age(w, j) <= m
  BY <1>1, <1>4 DEF Slots, Age
<1> QED BY <1>2, <1>3, <1>5 DEF Hist

\* What the ring holds, in order, is a list of records.
LEMMA HistType ==
  ASSUME NEW w, RingOK(w)
  PROVE  Hist(w) \in Seq(Abstract!Records) /\ Len(Hist(w)) <= HistoryLength
<1>1. PICK m \in 0 .. HistoryLength : FilledTo(w, m)
  BY DEF RingOK
<1>2. w \in RingRecs /\ HistoryLength \in Nat \ {0}
  BY WhowasAssumption DEF RingOK
<1>3. ASSUME NEW i \in 1 .. m PROVE Rec(w.ring[SlotOf(w, i)]) \in Abstract!Records
  <2>1. SlotOf(w, i) \in Slots /\ Age(w, SlotOf(w, i)) = i
    BY <1>2, SlotsByAge
  <2>2. SlotOf(w, i) < m
    BY <1>1, <1>2, <2>1, HistFilled
  <2> PICK e : e = w.ring[SlotOf(w, i)] OBVIOUS
  <2>3. e \in Entries
    BY <1>1, <1>2, <2>1, <2>2, EntryFields DEF FilledTo
  <2> QED BY <2>3 DEF Entries, Rec, Abstract!Records
<1>4. Hist(w) = [i \in 1 .. m |-> Rec(w.ring[SlotOf(w, i)])]
  BY <1>1, <1>2, HistFilled
<1>5. m \in Nat /\ m <= HistoryLength
  BY <1>2
<1>6. Hist(w) \in [1 .. m -> Abstract!Records]
  BY <1>3, <1>4
<1>7. Hist(w) \in Seq(Abstract!Records)
  BY <1>5, <1>6, SeqDef
<1> QED BY <1>5, <1>6, <1>7

\* A record more, at the head; the oldest is lost when the ring was full.
LEMMA Remembers ==
  ASSUME NEW w, RingOK(w), NEW v, RingOK(v), v.next = next_slot(w.next), NEW e \in Entries,
         v.ring[w.next] = e, \A i \in Slots : i # w.next => v.ring[i] = w.ring[i]
  PROVE  LET all == <<Rec(e)>> \o Hist(w)
         IN  Hist(v) = SubSeq(all, 1, IF Len(all) > HistoryLength THEN HistoryLength ELSE Len(all))
<1> DEFINE all == <<Rec(e)>> \o Hist(w)
           top == IF Len(all) > HistoryLength THEN HistoryLength ELSE Len(all)
           x == w.next
<1>1. PICK m \in 0 .. HistoryLength : FilledTo(w, m)
  BY DEF RingOK
<1>2. PICK k \in 0 .. HistoryLength : FilledTo(v, k)
  BY DEF RingOK
<1>3. /\ w \in RingRecs /\ v \in RingRecs /\ HistoryLength \in Nat \ {0}
      /\ x \in Slots /\ x \in Int /\ \A i \in Slots : i \in 0 .. HistoryLength - 1
  BY RingFields DEF RingOK, Slots
<1>4. e.hashv # Unhashed
  BY WhowasAssumption DEF Entries, Buckets
<1>5. \A i \in Slots : i < k <=> i < m \/ i = x
  BY <1>1, <1>2, <1>3, <1>4 DEF FilledTo
<1>6. k = IF m = HistoryLength THEN m ELSE m + 1
  <2>1. CASE m = HistoryLength
    <3>1. HistoryLength - 1 \in Slots /\ HistoryLength - 1 < m
      BY <1>3, <2>1 DEF Slots
    <3>2. HistoryLength - 1 < k
      BY <1>5, <3>1
    <3> QED BY <1>3, <2>1, <3>2
  <2>2. CASE m # HistoryLength
    <3>1. m = x
      BY <1>1, <2>2 DEF FilledTo
    <3>2. x < k
      BY <1>3, <1>5
    <3>3. CASE x + 1 \in Slots
      <4>1. ~ (x + 1 < k)
        BY <1>3, <1>5, <3>1, <3>3
      <4> QED BY <1>3, <2>2, <3>1, <3>2, <4>1
    <3>4. CASE x + 1 \notin Slots
      <4>1. x + 1 = HistoryLength
        BY <1>3, <3>4 DEF Slots
      <4> QED BY <1>3, <2>2, <3>1, <3>2, <4>1
    <3> QED BY <3>3, <3>4
  <2> QED BY <2>1, <2>2
<1>7. /\ Hist(w) = [i \in 1 .. m |-> Rec(w.ring[SlotOf(w, i)])]
      /\ Hist(v) = [i \in 1 .. k |-> Rec(v.ring[SlotOf(v, i)])]
  BY <1>1, <1>2, <1>3, HistFilled
<1>8. /\ Hist(w) \in Seq(Abstract!Records) /\ Hist(v) \in Seq(Abstract!Records)
      /\ Len(Hist(w)) = m /\ Len(Hist(v)) = k
  <2>1. Hist(w) \in Seq(Abstract!Records) /\ Hist(v) \in Seq(Abstract!Records)
    BY HistType
  <2>2. DOMAIN Hist(w) = 1 .. m /\ DOMAIN Hist(v) = 1 .. k /\ m \in Nat /\ k \in Nat
    BY <1>3, <1>7
  <2> QED BY <2>1, <2>2
<1>9. Rec(e) \in Abstract!Records
  BY DEF Rec, Abstract!Records, Entries
<1>10. /\ all \in Seq(Abstract!Records) /\ Len(all) = m + 1 /\ all[1] = Rec(e)
       /\ \A i \in 2 .. Len(all) : all[i] = Hist(w)[i - 1]
  BY <1>8, <1>9, PushSpec
<1> HIDE DEF all
<1>11. top = k /\ 1 <= k /\ k <= Len(all)
  BY <1>3, <1>6, <1>10
<1> HIDE DEF top
<1>12. SubSeq(all, 1, k) \in Seq(Abstract!Records) /\ Len(SubSeq(all, 1, k)) = k
       /\ \A i \in 1 .. k : SubSeq(all, 1, k)[i] = all[i]
  BY <1>3, <1>10, <1>11
<1>13. ASSUME NEW i \in 1 .. k PROVE Hist(v)[i] = all[i]
  <2>1. Hist(v)[i] = Rec(v.ring[SlotOf(v, i)])
    BY <1>7
  <2>2. /\ Age(v, x) = 1 /\ Age(w, x) = HistoryLength
        /\ \A j \in Slots : j # x => Age(v, j) = Age(w, j) + 1
    BY <1>3, Ages
  <2>3. i \in 1 .. HistoryLength /\ SlotOf(v, i) \in Slots /\ Age(v, SlotOf(v, i)) = i
    BY <1>3, SlotsByAge
  <2>4. CASE i = 1
    <3>1. SlotOf(v, i) = x
      BY <1>3, <2>2, <2>4, SlotsByAge
    <3> QED BY <1>10, <2>1, <2>4, <3>1
  <2>5. CASE i # 1
    <3>1. SlotOf(v, i) # x
      BY <2>2, <2>3, <2>5
    <3>2. Age(w, SlotOf(v, i)) = i - 1 /\ Age(w, SlotOf(v, i)) \in 1 .. HistoryLength
      BY <1>3, <2>2, <2>3, <3>1, SlotsByAge
    <3>3. SlotOf(w, i - 1) = SlotOf(v, i)
      BY <1>3, <2>3, <3>2, SlotsByAge
    <3>4. i - 1 \in 1 .. m /\ i \in 2 .. Len(all)
      BY <1>3, <1>10, <1>11, <2>5
    <3>5. Hist(w)[i - 1] = Rec(w.ring[SlotOf(v, i)])
      BY <1>7, <3>3, <3>4
    <3> QED BY <1>10, <2>1, <2>3, <3>1, <3>4, <3>5
  <2> QED BY <2>4, <2>5
<1>14. Hist(v) = SubSeq(all, 1, k)
  <2>1. \A i \in 1 .. k : Hist(v)[i] = SubSeq(all, 1, k)[i]
    BY <1>12, <1>13
  <2> QED BY <1>8, <1>12, <2>1, SeqEqual
<1> QED BY <1>11, <1>14 DEF all, top

\* off_history takes the client out of the records.
LEMMA Forgets ==
  ASSUME NEW w, RingOK(w), NEW v, RingOK(v), v.next = w.next, NEW c \in Clients,
         \A i \in Slots : v.ring[i] = Left(w.ring[i], c)
  PROVE  Hist(v) = [i \in DOMAIN Hist(w) |-> Left(Hist(w)[i], c)]
<1>1. PICK m \in 0 .. HistoryLength : FilledTo(w, m)
  BY DEF RingOK
<1>2. /\ w \in RingRecs /\ v \in RingRecs /\ HistoryLength \in Nat \ {0}
  BY RingFields DEF RingOK
<1>3. ASSUME NEW i \in Slots
      PROVE  /\ v.ring[i].hashv = w.ring[i].hashv
             /\ i < m => Rec(v.ring[i]) = Left(Rec(w.ring[i]), c)
  <2> PICK e : e = w.ring[i] OBVIOUS
  <2>1. Rec(e).online = e.online
    BY DEF Rec
  <2>2. e \in Entries \/ e = Blank
    BY <1>2, RingFields
  <2>3. CASE e.online # c
    <3>1. v.ring[i] = e /\ Left(Rec(e), c) = Rec(e)
      BY <2>1, <2>3 DEF Left
    <3> QED BY <3>1
  <2>4. CASE e.online = c
    <3>1. e.hashv # Unhashed /\ e \in Entries
      <4>1. None \notin Clients /\ Unhashed \notin Buckets
        BY CommonAssumption, WhowasAssumption DEF Buckets
      <4> QED BY <1>2, <2>4, <4>1, EntryFields
    <3>2. v.ring[i] = [e EXCEPT !.online = None]
      BY <2>4 DEF Left
    <3> PICK f : f = [e EXCEPT !.online = None] OBVIOUS
    <3>3. f.hashv = e.hashv /\ f.name = e.name /\ f.logoff = e.logoff /\ f.online = None
      BY <3>1 DEF Entries
    <3>4. Rec(f) = [Rec(e) EXCEPT !.online = None]
      BY <3>3 DEF Rec
    <3>5. Left(Rec(e), c) = Rec(f)
      BY <2>1, <2>4, <3>4 DEF Left
    <3> QED BY <3>2, <3>3, <3>5
  <2> QED BY <2>3, <2>4
<1>4. FilledTo(v, m)
  BY <1>1, <1>3 DEF FilledTo
<1>5. /\ Hist(w) = [i \in 1 .. m |-> Rec(w.ring[SlotOf(w, i)])]
      /\ Hist(v) = [i \in 1 .. m |-> Rec(v.ring[SlotOf(v, i)])]
  BY <1>1, <1>2, <1>4, HistFilled
<1>6. ASSUME NEW i \in 1 .. m
      PROVE  Hist(v)[i] = Left(Hist(w)[i], c)
  <2>1. SlotOf(v, i) = SlotOf(w, i)
    BY DEF SlotOf
  <2>2. SlotOf(w, i) \in Slots /\ Age(w, SlotOf(w, i)) = i
    BY <1>2, SlotsByAge
  <2>3. SlotOf(w, i) < m
    BY <1>1, <1>2, <2>2, HistFilled
  <2>4. Hist(w)[i] = Rec(w.ring[SlotOf(w, i)]) /\ Hist(v)[i] = Rec(v.ring[SlotOf(w, i)])
    BY <1>5, <2>1
  <2> QED BY <1>3, <2>2, <2>3, <2>4
<1>7. DOMAIN Hist(w) = 1 .. m
  BY <1>5
<1>8. Hist(v) = [i \in 1 .. m |-> Hist(v)[i]]
  BY <1>5
<1> QED BY <1>6, <1>7, <1>8

----------------------------------------------------------------------------
WhowasInv == /\ nick \in [Clients -> Nicks \cup {None}] /\ now \in Nat /\ RingOK(ww)
             /\ \A i \in Slots : ww.ring[i].online # None => nick[ww.ring[i].online] # None

\* The empty table.
LEMMA WhowasStart == WhowasInit => WhowasInv /\ Hist(ww) = << >>
<1> SUFFICES ASSUME WhowasInit PROVE WhowasInv /\ Hist(ww) = << >>
  OBVIOUS
<1>1. ww = initwhowas /\ nick \in [Clients -> Nicks \cup {None}] /\ now \in Nat
  BY DEF WhowasInit
<1>2. /\ ww.ring = [i \in Slots |-> Blank] /\ ww.chain = [b \in Buckets |-> << >>]
      /\ ww.clist = [c \in Clients |-> << >>] /\ ww.next = 0
  BY <1>1 DEF initwhowas
<1>3. HistoryLength \in Nat \ {0} /\ 0 \in Slots /\ Unhashed \notin Buckets /\ None \notin Clients
  BY WhowasAssumption, CommonAssumption DEF Slots, Buckets
<1>4. << >> \in Seq(Slots) /\ Range(<< >>) = {} /\ IsInjective(<< >>) /\ Len(<< >>) = 0
  BY DEF Range, IsInjective
<1>5. ww \in RingRecs
  BY <1>1, <1>3, <1>4 DEF initwhowas, RingRecs
<1>6. Blank.hashv = Unhashed /\ Blank.online = None
  BY DEF Blank
<1>7. ChainsOK(ww)
  BY <1>2, <1>3, <1>4, <1>6 DEF ChainsOK
<1>8. ClistsOK(ww)
  BY <1>2, <1>3, <1>4, <1>6 DEF ClistsOK
<1>9. Hashed(ww)
  BY <1>2, <1>6 DEF Hashed
<1>10. FilledTo(ww, 0) /\ 0 \in 0 .. HistoryLength
  BY <1>2, <1>3, <1>6 DEF FilledTo, Slots
<1>11. RingOK(ww)
  BY <1>5, <1>7, <1>8, <1>9, <1>10 DEF RingOK
<1>12. Hist(ww) = [i \in 1 .. 0 |-> Rec(ww.ring[SlotOf(ww, i)])]
  BY <1>5, <1>10, HistFilled
<1>13. Hist(ww) = << >>
  <2>1. Hist(ww) \in Seq(Abstract!Records) /\ DOMAIN Hist(ww) = 1 .. 0
    BY <1>11, <1>12, HistType
  <2>2. Len(Hist(ww)) = 0
    BY <2>1
  <2> QED BY <2>1, <2>2, EmptySeq
<1> QED BY <1>1, <1>2, <1>6, <1>11, <1>13 DEF WhowasInv

\* A nick change makes a record of a client who is still there.
LEMMA WhowasChange ==
  ASSUME WhowasInv, NEW c \in Clients, NEW n \in Nicks, ChangeNick(c, n)
  PROVE  /\ WhowasInv'
         /\ Hist(ww)' = LET all == <<[name |-> nick[c], logoff |-> now, online |-> c]>> \o Hist(ww)
                        IN  SubSeq(all, 1, IF Len(all) > HistoryLength THEN HistoryLength ELSE Len(all))
<1>1. /\ nick \in [Clients -> Nicks \cup {None}] /\ now \in Nat /\ RingOK(ww)
      /\ \A i \in Slots : ww.ring[i].online # None => nick[ww.ring[i].online] # None
  BY DEF WhowasInv
<1>2. /\ nick[c] # None /\ nick[c] \in Nicks /\ nick' = [nick EXCEPT ![c] = n] /\ now' = now
      /\ ww' = add_history(ww, c, nick[c], now, TRUE)
  BY <1>1 DEF ChangeNick
<1> PICK w : w = ww OBVIOUS
<1> PICK v : v = add_history(w, c, nick[c], now, TRUE) OBVIOUS
<1> PICK e : e = [hashv |-> hashOf[nick[c]], name |-> nick[c], logoff |-> now, online |-> c] OBVIOUS
<1>3. RingOK(w) /\ ww' = v
  BY <1>1, <1>2
<1>4. /\ RingOK(v) /\ v.next = next_slot(w.next)
      /\ v.ring[w.next] = [hashv |-> hashOf[nick[c]], name |-> nick[c], logoff |-> now,
                           online |-> c]
      /\ \A i \in Slots : i # w.next => v.ring[i] = w.ring[i]
  <2>1. ASSUME NEW on \in BOOLEAN, NEW u, u = add_history(w, c, nick[c], now, on)
        PROVE  /\ RingOK(u) /\ u.next = next_slot(w.next)
               /\ u.ring[w.next] = [hashv |-> hashOf[nick[c]], name |-> nick[c], logoff |-> now,
                                    online |-> IF on THEN c ELSE None]
               /\ \A i \in Slots : i # w.next => u.ring[i] = w.ring[i]
    BY <1>1, <1>2, <1>3, <2>1, Adds
  <2> QED BY <2>1
<1>5. v.ring[w.next] = e /\ e \in Entries /\ e.online = c
  BY <1>1, <1>2, <1>4 DEF Entries, Buckets
<1>6. Hist(v) = LET all == <<Rec(e)>> \o Hist(w)
                IN  SubSeq(all, 1, IF Len(all) > HistoryLength THEN HistoryLength ELSE Len(all))
  BY <1>3, <1>4, <1>5, Remembers
<1>7. Rec(e) = [name |-> nick[c], logoff |-> now, online |-> c]
  BY DEF Rec
<1>8. nick' \in [Clients -> Nicks \cup {None}] /\ nick'[c] # None
      /\ \A d \in Clients : nick[d] # None => nick'[d] # None
  BY <1>1, <1>2, CommonAssumption
<1>9. ASSUME NEW i \in Slots, v.ring[i].online # None PROVE nick'[v.ring[i].online] # None
  <2>1. CASE i = w.next
    BY <1>5, <1>8, <2>1
  <2>2. CASE i # w.next
    <3>1. v.ring[i] = w.ring[i] /\ w.ring[i].online \in Clients \cup {None} 
      BY <1>3, <1>4, <2>2, EntryFields DEF RingOK
    <3> QED BY <1>1, <1>8, <1>9, <3>1
  <2> QED BY <2>1, <2>2
<1>10. WhowasInv'
  BY <1>1, <1>2, <1>3, <1>4, <1>8, <1>9 DEF WhowasInv
<1> QED BY <1>3, <1>6, <1>7, <1>10

\* An exit makes a record of nobody, and the client leaves the others.
LEMMA WhowasExit ==
  ASSUME WhowasInv, NEW c \in Clients, remove_client_from_list(c)
  PROVE  /\ WhowasInv'
         /\ Hist(ww)' =
              LET all == <<[name |-> nick[c], logoff |-> now, online |-> None]>> \o Hist(ww)
                  p == SubSeq(all, 1, IF Len(all) > HistoryLength THEN HistoryLength ELSE Len(all))
              IN  [i \in DOMAIN p |-> Left(p[i], c)]
<1>1. /\ nick \in [Clients -> Nicks \cup {None}] /\ now \in Nat /\ RingOK(ww)
      /\ \A i \in Slots : ww.ring[i].online # None => nick[ww.ring[i].online] # None
  BY DEF WhowasInv
<1>2. /\ nick[c] # None /\ nick[c] \in Nicks /\ nick' = [nick EXCEPT ![c] = None] /\ now' = now
      /\ ww' = off_history(add_history(ww, c, nick[c], now, FALSE), c)
  BY <1>1 DEF remove_client_from_list
<1> PICK on \in BOOLEAN : on = FALSE OBVIOUS
<1> PICK w : w = ww OBVIOUS
<1> PICK v : v = add_history(w, c, nick[c], now, on) OBVIOUS
<1> PICK u : u = off_history(v, c) OBVIOUS
<1> PICK e : e = [hashv |-> hashOf[nick[c]], name |-> nick[c], logoff |-> now, online |-> None] OBVIOUS
<1>3. RingOK(w) /\ ww' = u
  BY <1>1, <1>2
<1>4. /\ RingOK(v) /\ v.next = next_slot(w.next)
      /\ v.ring[w.next] = [hashv |-> hashOf[nick[c]], name |-> nick[c], logoff |-> now,
                           online |-> IF on THEN c ELSE None]
      /\ \A i \in Slots : i # w.next => v.ring[i] = w.ring[i]
  BY <1>1, <1>2, <1>3, Adds
<1>5. v.ring[w.next] = e /\ e \in Entries /\ e.online = None
  BY <1>1, <1>2, <1>4 DEF Entries, Buckets
<1> DEFINE p == LET all == <<Rec(e)>> \o Hist(w)
                IN  SubSeq(all, 1, IF Len(all) > HistoryLength THEN HistoryLength ELSE Len(all))
<1>6. Hist(v) = p
  BY <1>3, <1>4, <1>5, Remembers
<1>7. Rec(e) = [name |-> nick[c], logoff |-> now, online |-> None]
  BY DEF Rec
<1>8. /\ RingOK(u) /\ u.next = v.next
      /\ \A i \in Slots : u.ring[i] = Left(v.ring[i], c)
  BY <1>4, Offs
<1>9. Hist(u) = [i \in DOMAIN Hist(v) |-> Left(Hist(v)[i], c)]
  BY <1>4, <1>8, Forgets
<1>10. /\ nick' \in [Clients -> Nicks \cup {None}]
       /\ \A d \in Clients : d # c => nick'[d] = nick[d]
  BY <1>1, <1>2
<1>11. ASSUME NEW i \in Slots, u.ring[i].online # None PROVE nick'[u.ring[i].online] # None
  <2> PICK f : f = v.ring[i] OBVIOUS
  <2>1. f \in Entries \cup {Blank} /\ f.online \in Clients \cup {None}
    BY <1>4, EntryFields, RingFields DEF RingOK
  <2>2. f.online # c
    <3> SUFFICES ASSUME f.online = c PROVE FALSE
      OBVIOUS
    <3>1. [f EXCEPT !.online = None].online = None
      BY <2>1 DEF Entries, Blank
    <3> QED BY <1>8, <1>11, <3>1 DEF Left
  <2>3. u.ring[i] = f
    BY <1>8, <2>2 DEF Left
  <2>4. i # w.next
    BY <1>5, <1>11, <2>3
  <2>5. w.ring[i] = f
    BY <1>4, <2>4
  <2> QED BY <1>1, <1>10, <1>11, <2>1, <2>2, <2>3, <2>5
<1>12. WhowasInv'
  BY <1>1, <1>2, <1>3, <1>8, <1>10, <1>11 DEF WhowasInv
<1>13. Hist(u) = [i \in DOMAIN p |-> Left(p[i], c)]
  <2> HIDE DEF p
  <2> QED BY <1>6, <1>9
<1> QED BY <1>3, <1>7, <1>12, <1>13

\* Every step keeps the table in order.
LEMMA WhowasStep == WhowasInv /\ [WhowasNext]_whowasVars => WhowasInv'
<1> SUFFICES ASSUME WhowasInv, [WhowasNext]_whowasVars PROVE WhowasInv'
  OBVIOUS
<1>1. ASSUME NEW c \in Clients, NEW n \in Nicks, Connect(c, n) PROVE WhowasInv'
  <2>1. /\ nick \in [Clients -> Nicks \cup {None}] /\ now \in Nat /\ RingOK(ww)
        /\ \A i \in Slots : ww.ring[i].online # None => nick[ww.ring[i].online] # None
    BY DEF WhowasInv
  <2>2. nick' = [nick EXCEPT ![c] = n] /\ now' = now /\ ww' = ww
    BY <1>1 DEF Connect
  <2>3. nick' \in [Clients -> Nicks \cup {None}] /\ \A d \in Clients : nick[d] # None => nick'[d] # None
    BY <2>1, <2>2, CommonAssumption
  <2>4. \A i \in Slots : ww.ring[i].online \in Clients \cup {None}
    BY <2>1, EntryFields DEF RingOK
  <2> QED BY <2>1, <2>2, <2>3, <2>4 DEF WhowasInv
<1>2. ASSUME WhowasTick PROVE WhowasInv'
  BY <1>2 DEF WhowasTick, WhowasInv
<1>3. CASE UNCHANGED whowasVars
  BY <1>3 DEF whowasVars, WhowasInv
<1> QED BY <1>1, <1>2, <1>3, WhowasChange, WhowasExit DEF WhowasNext

\* get_history finds the newest record of the nick.
LEMMA ChaseFinds ==
  ASSUME WhowasInv, NEW n \in Nicks, NEW limit \in 0 .. MaxClock
  PROVE  get_history(ww, n, limit) = Abstract!LastHolder(n, limit)
<1> DEFINE h == hashOf[n]
           hits == Hits(ww, n, limit)
           T == Abstract!Matches(n, limit)
<1>1. /\ RingOK(ww) /\ ww \in RingRecs /\ ChainsOK(ww) /\ Hashed(ww) /\ now \in Nat
      /\ limit \in Int /\ HistoryLength \in Nat \ {0} /\ h \in Buckets /\ h # Unhashed
  BY CommonAssumption, WhowasAssumption DEF WhowasInv, RingOK, Buckets
<1>2. PICK m \in 0 .. HistoryLength : FilledTo(ww, m)
  BY <1>1 DEF RingOK
<1>3. History = Hist(ww)
  BY DEF History, Hist, Used, Slot, SlotOf, Rec
<1>4. /\ History = [i \in 1 .. m |-> Rec(ww.ring[SlotOf(ww, i)])]
      /\ \A j \in Slots : j < m <=> Age(ww, j) <= m
  BY <1>1, <1>2, <1>3, HistFilled
<1> PICK s \in Seq(Slots) : s = ww.chain[h]
  BY <1>1, RingFields
<1>5. Len(s) \in Nat /\ DOMAIN s = 1 .. Len(s) /\ \A k \in 1 .. Len(s) : s[k] \in Slots
  OBVIOUS
<1>6. \A k, l \in 1 .. Len(s) : k < l => Age(ww, s[k]) < Age(ww, s[l])
  BY <1>1 DEF ChainsOK
<1>7. hits = {k \in 1 .. Len(s) : ww.ring[s[k]].name = n /\ ww.ring[s[k]].logoff >= now - limit}
  BY <1>5 DEF Hits
<1>8. T = {i \in 1 .. m : /\ ww.ring[SlotOf(ww, i)].name = n
                          /\ ww.ring[SlotOf(ww, i)].logoff >= now - limit}
  BY <1>4 DEF Abstract!Matches, Rec
<1>9. \A j \in Slots : Age(ww, j) \in 1 .. HistoryLength /\ SlotOf(ww, Age(ww, j)) = j
  BY <1>1, SlotsByAge
<1>10. \A i \in 1 .. HistoryLength : SlotOf(ww, i) \in Slots /\ Age(ww, SlotOf(ww, i)) = i
  BY <1>1, SlotsByAge
<1>11. ASSUME NEW k \in hits PROVE Age(ww, s[k]) \in T
  <2>1. k \in 1 .. Len(s) /\ s[k] \in Slots /\ ww.ring[s[k]].name = n /\ ww.ring[s[k]].logoff >= now - limit
    BY <1>5, <1>7
  <2>2. s[k] \in Range(ww.chain[h])
    BY <1>5, <2>1 DEF Range
  <2>3. ww.ring[s[k]].hashv # Unhashed
    BY <1>1, <2>1, <2>2 DEF ChainsOK
  <2>4. s[k] < m
    BY <1>2, <2>1, <2>3 DEF FilledTo
  <2>5. Age(ww, s[k]) \in 1 .. m
    BY <1>1, <1>4, <1>9, <2>1, <2>4
  <2> QED BY <1>8, <1>9, <2>1, <2>5, SMTT(30)
<1>12. ASSUME NEW i \in T PROVE \E k \in hits : s[k] = SlotOf(ww, i)
  <2>1. /\ i \in 1 .. m /\ i \in 1 .. HistoryLength /\ ww.ring[SlotOf(ww, i)].name = n
        /\ ww.ring[SlotOf(ww, i)].logoff >= now - limit
    BY <1>1, <1>8
  <2>2. SlotOf(ww, i) \in Slots /\ SlotOf(ww, i) < m
    BY <1>4, <1>10, <2>1
  <2>3. ww.ring[SlotOf(ww, i)].hashv = h
    BY <1>1, <1>2, <2>1, <2>2 DEF FilledTo, Hashed
  <2>4. SlotOf(ww, i) \in Range(s)
    BY <1>1, <2>2, <2>3 DEF ChainsOK
  <2>5. PICK k \in 1 .. Len(s) : s[k] = SlotOf(ww, i)
    BY <1>5, <2>4 DEF Range
  <2> QED BY <1>7, <2>1, <2>5
<1>13. CASE hits = {}
  <2>1. T = {}
    BY <1>12, <1>13
  <2> QED BY <1>13, <2>1 DEF get_history, Abstract!LastHolder
<1>14. CASE hits # {}
  <2>1. hits \in SUBSET Nat
    BY <1>5, <1>7
  <2>2. \E k \in hits : \A j \in hits : k <= j
    <3> HIDE DEF hits
    <3> QED BY <1>14, <2>1, Least
  <2> DEFINE k0 == CHOOSE k \in hits : \A j \in hits : k <= j
             i0 == CHOOSE i \in T : \A j \in T : i <= j
  <2>3. k0 \in hits /\ \A j \in hits : k0 <= j
    <3> HIDE DEF hits
    <3> QED BY <2>2
  <2>4. get_history(ww, n, limit) = ww.ring[s[k0]].online
    BY <1>14 DEF get_history
  <2> HIDE DEF k0
  <2> PICK a : a = Age(ww, s[k0]) BY SMTT(30)
  <2>5. a \in T /\ k0 \in 1 .. Len(s) /\ s[k0] \in Slots
    BY <1>5, <1>7, <1>11, <2>3
  <2>6. ASSUME NEW i \in T PROVE a <= i
    <3>1. PICK l \in hits : s[l] = SlotOf(ww, i)
      BY <1>12
    <3>2. k0 <= l /\ l \in 1 .. Len(s) /\ Age(ww, s[l]) = i /\ i \in Int
      <4>1. i \in 1 .. HistoryLength
        BY <1>1, <1>8, SMTT(30)
      <4>2. l \in 1 .. Len(s) /\ Age(ww, s[l]) = i
        BY <1>7, <1>10, <3>1, <4>1
      <4> HIDE DEF hits
      <4> QED BY <2>3, <4>1, <4>2
    <3>3. a \in Int
      BY <1>9, <2>5
    <3>4. CASE k0 = l
      BY <3>2, <3>3, <3>4
    <3>5. CASE k0 # l
      <4>1. k0 < l
        BY <2>5, <3>2, <3>5
      <4> QED BY <1>6, <2>5, <3>2, <3>3, <4>1
    <3> QED BY <3>4, <3>5
  <2>7. \A i \in T : i \in Int
    BY <1>8
  <2> HIDE DEF T
  <2>8. i0 \in T /\ i0 <= a
    BY <2>5, <2>6
  <2>9. i0 = a
    BY <2>5, <2>6, <2>7, <2>8
  <2>10. T # {}
    BY <2>5
  <2>11. Abstract!LastHolder(n, limit) = History[i0].online
    BY <2>10 DEF Abstract!LastHolder, T
  <2>12. a \in 1 .. m /\ SlotOf(ww, a) = s[k0]
    BY <1>8, <1>9, <2>5 DEF T
  <2>13. History[a] = Rec(ww.ring[s[k0]])
    BY <1>4, <2>12
  <2>14. Rec(ww.ring[s[k0]]).online = ww.ring[s[k0]].online
    BY DEF Rec
  <2> QED BY <2>4, <2>9, <2>11, <2>13, <2>14
<1> QED BY <1>13, <1>14

\* A table in order answers WHOWAS and the chase right.
LEMMA WhowasInvRight == WhowasInv => WhowasRight
<1> SUFFICES ASSUME WhowasInv PROVE WhowasRight
  OBVIOUS
<1>1. RingOK(ww) /\ ww \in RingRecs /\ ChainsOK(ww) /\ ClistsOK(ww)
  BY DEF WhowasInv, RingOK
<1>2. WhowasTypeOK
  BY <1>1, RingFields DEF WhowasTypeOK, WhowasInv
<1>3. WhowasLists
  BY <1>1, <1>2 DEF WhowasLists, ChainsOK, ClistsOK, WhowasInv
<1> QED BY <1>3, ChaseFinds DEF WhowasRight, ChaseRight

\* For every size of the ring: whatever nick changes and exits happen in whatever
\* order, add_history and off_history leave no entry in a chain or a client's list
\* that it does not belong to, and get_history finds the newest client that gave
\* up the nick, if it is still there (whowas.c).
THEOREM WhowasAlwaysRight == WhowasSpec => []WhowasRight
<1> QED BY WhowasStart, WhowasStep, WhowasInvRight, PTL DEF WhowasSpec

\* Every step of the ring is one of the list of records, or none.
LEMMA HistoryStep == WhowasInv /\ [WhowasNext]_whowasVars => [Abstract!HistNext]_(Abstract!histVars)
<1> SUFFICES ASSUME WhowasInv, [WhowasNext]_whowasVars
             PROVE  [Abstract!HistNext]_(Abstract!histVars)
  OBVIOUS
<1>1. History = Hist(ww) /\ History' = Hist(ww)'
  BY DEF History, Hist, Used, Slot, SlotOf, Rec
<1>2. ASSUME NEW c \in Clients, NEW n \in Nicks, Connect(c, n) PROVE Abstract!Arrive(c, n)
  <2>1. nick[c] = None /\ nick' = [nick EXCEPT ![c] = n] /\ now' = now /\ ww' = ww
    BY <1>2 DEF Connect
  <2>2. Hist(ww)' = Hist(ww)
    BY <2>1
  <2> QED BY <1>1, <2>1, <2>2 DEF Abstract!Arrive
<1>3. ASSUME NEW c \in Clients, NEW n \in Nicks, ChangeNick(c, n) PROVE Abstract!Change(c, n)
  <2>1. nick[c] # None /\ nick' = [nick EXCEPT ![c] = n] /\ now' = now
    BY <1>3 DEF ChangeNick
  <2>2. History' = Abstract!Remember(History, nick[c], c)
    BY <1>1, <1>3, WhowasChange DEF Abstract!Remember
  <2> QED BY <2>1, <2>2 DEF Abstract!Change
<1>4. ASSUME NEW c \in Clients, remove_client_from_list(c) PROVE Abstract!Leave(c)
  <2>1. nick[c] # None /\ nick' = [nick EXCEPT ![c] = None] /\ now' = now
    BY <1>4 DEF remove_client_from_list
  <2>2. History' = Abstract!Forget(Abstract!Remember(History, nick[c], None), c)
    BY <1>1, <1>4, WhowasExit, ZenonT(40) DEF Abstract!Remember, Abstract!Forget, Left
  <2> QED BY <2>1, <2>2 DEF Abstract!Leave
<1>5. ASSUME WhowasTick PROVE Abstract!Later
  <2>1. now' = now + 1 /\ nick' = nick /\ ww' = ww
    BY <1>5 DEF WhowasTick
  <2>2. Hist(ww)' = Hist(ww)
    BY <2>1
  <2> QED BY <1>1, <2>1, <2>2 DEF Abstract!Later
<1>6. CASE UNCHANGED whowasVars
  <2>1. now' = now /\ nick' = nick /\ ww' = ww
    BY <1>6 DEF whowasVars
  <2>2. Hist(ww)' = Hist(ww)
    BY <2>1
  <2> QED BY <1>1, <2>1, <2>2 DEF Abstract!histVars
<1> QED BY <1>2, <1>3, <1>4, <1>5, <1>6 DEF WhowasNext, Abstract!HistNext

\* The ring of whowas.c, with its hash chains and its lists of the clients'
\* entries, implements the plain list of the last HistoryLength records that
\* NickHistory specifies.
THEOREM RingImplementsHistory == WhowasSpec => ImplementsHistory
<1>1. WhowasInit => Abstract!HistInit
  <2>1. History = Hist(ww)
    BY DEF History, Hist, Used, Slot, SlotOf, Rec
  <2> QED BY <2>1, WhowasStart DEF WhowasInit, Abstract!HistInit
<1> QED BY <1>1, WhowasStart, WhowasStep, HistoryStep, PTL
        DEF WhowasSpec, ImplementsHistory, Abstract!HistSpec

----------------------------------------------------------------------------
(* WATCH.                                                                  *)

WatchTypeOK ==
  /\ wnick \in [Clients -> Nicks \cup {None}] /\ person \subseteq Clients
  /\ header \in [Nicks -> Seq(Clients)] /\ watch \in [Clients -> Seq(Nicks)]
  /\ watches \in [Clients -> Nat] /\ told \in [Clients -> [Nicks -> BOOLEAN]]

\* A person has a nick, and nobody else has it.
NicksOwned == /\ \A c \in person : wnick[c] # None
              /\ \A c, d \in Clients : wnick[c] = wnick[d] /\ wnick[c] # None => c = d

\* WatchAccurate.
TruthTold == \A c \in Clients, n \in Nicks :
               n \in Range(watch[c]) /\ n \notin forced => (told[c][n] <=> Owns(n) # {})

WatchInv == WatchTypeOK /\ NicksOwned /\ WatchMirror /\ TruthTold

\* What add_to_watch_hash_table leaves: c watches n, and nothing else changed.
LEMMA WatchAdded ==
  ASSUME WatchInv, NEW c \in person, NEW n \in Nicks, add_to_watch_hash_table(n, c)
  PROVE  /\ header' \in [Nicks -> Seq(Clients)] /\ watch' \in [Clients -> Seq(Nicks)]
         /\ watches' \in [Clients -> Nat]
         /\ \A d \in Clients, m \in Nicks :
              /\ d \in Range(header'[m]) <=> d \in Range(header[m]) \/ (d = c /\ m = n)
              /\ m \in Range(watch'[d]) <=> m \in Range(watch[d]) \/ (d = c /\ m = n)
         /\ \A d \in Clients : watches'[d] = Len(watch'[d]) /\ IsInjective(watch'[d])
         /\ \A m \in Nicks : IsInjective(header'[m])
<1>1. /\ header \in [Nicks -> Seq(Clients)] /\ watch \in [Clients -> Seq(Nicks)]
      /\ watches \in [Clients -> Nat] /\ c \in Clients
      /\ c \in Range(header[n]) <=> n \in Range(watch[c])
      /\ \A d \in Clients : watches[d] = Len(watch[d]) /\ IsInjective(watch[d])
      /\ \A m \in Nicks : IsInjective(header[m])
  BY DEF WatchInv, WatchTypeOK, WatchMirror
<1>2. CASE c \in Range(header[n])
  <2>1. header' = header /\ watch' = watch /\ watches' = watches
    BY <1>2 DEF add_to_watch_hash_table
  <2> QED BY <1>1, <1>2, <2>1
<1>3. CASE c \notin Range(header[n])
  <2> DEFINE h == <<c>> \o header[n]
             w == <<n>> \o watch[c]
  <2>1. /\ header' = [header EXCEPT ![n] = h] /\ watch' = [watch EXCEPT ![c] = w]
        /\ watches' = [watches EXCEPT ![c] = @ + 1]
    BY <1>3 DEF add_to_watch_hash_table
  <2>2. /\ h \in Seq(Clients) /\ Range(h) = Range(header[n]) \cup {c} /\ IsInjective(h)
    BY <1>1, <1>3, PushSpec
  <2>3. /\ w \in Seq(Nicks) /\ Len(w) = Len(watch[c]) + 1 /\ Range(w) = Range(watch[c]) \cup {n}
        /\ IsInjective(w)
    BY <1>1, <1>3, PushSpec
  <2>4. Len(w) \in Nat
    BY <2>3
  <2> HIDE DEF h, w
  <2> QED BY <1>1, <2>1, <2>2, <2>3, <2>4
<1> QED BY <1>2, <1>3

\* What del_from_watch_hash_table leaves.
LEMMA WatchDeleted ==
  ASSUME WatchInv, NEW c \in person, NEW n \in Nicks, del_from_watch_hash_table(n, c)
  PROVE  /\ header' \in [Nicks -> Seq(Clients)] /\ watch' \in [Clients -> Seq(Nicks)]
         /\ watches' \in [Clients -> Nat]
         /\ \A d \in Clients, m \in Nicks :
              /\ d \in Range(header'[m]) <=> d \in Range(header[m]) /\ ~ (d = c /\ m = n)
              /\ m \in Range(watch'[d]) <=> m \in Range(watch[d]) /\ ~ (d = c /\ m = n)
         /\ \A d \in Clients : watches'[d] = Len(watch'[d]) /\ IsInjective(watch'[d])
         /\ \A m \in Nicks : IsInjective(header'[m])
<1>1. /\ header \in [Nicks -> Seq(Clients)] /\ watch \in [Clients -> Seq(Nicks)]
      /\ watches \in [Clients -> Nat] /\ c \in Clients
      /\ c \in Range(header[n]) <=> n \in Range(watch[c])
      /\ \A d \in Clients : watches[d] = Len(watch[d]) /\ IsInjective(watch[d])
      /\ \A m \in Nicks : IsInjective(header[m])
  BY DEF WatchInv, WatchTypeOK, WatchMirror
<1>2. CASE c \notin Range(header[n])
  <2>1. header' = header /\ watch' = watch /\ watches' = watches
    BY <1>2 DEF del_from_watch_hash_table
  <2> QED BY <1>1, <1>2, <2>1
<1>3. CASE c \in Range(header[n])
  <2> DEFINE h == RemoveFirst(header[n], c)
             w == RemoveFirst(watch[c], n)
  <2>1. /\ header' = [header EXCEPT ![n] = h] /\ watch' = [watch EXCEPT ![c] = w]
        /\ watches' = [watches EXCEPT ![c] = @ - 1]
    BY <1>3 DEF del_from_watch_hash_table
  <2>2. /\ h \in Seq(Clients) /\ Range(h) = Range(header[n]) \ {c} /\ IsInjective(h)
    BY <1>1, <1>3, RemoveFirstSpec
  <2>3. /\ w \in Seq(Nicks) /\ Len(w) = Len(watch[c]) - 1 /\ Range(w) = Range(watch[c]) \ {n}
        /\ IsInjective(w)
    BY <1>1, <1>3, RemoveFirstSpec
  <2>4. Len(w) \in Nat
    BY <2>3
  <2> HIDE DEF h, w
  <2> QED BY <1>1, <2>1, <2>2, <2>3, <2>4
<1> QED BY <1>2, <1>3

\* What hash_del_watch_list leaves: nobody's header has c any more.
LEMMA WatchListGone ==
  ASSUME WatchInv, NEW c \in person, hash_del_watch_list(c)
  PROVE  /\ header' \in [Nicks -> Seq(Clients)] /\ watch' \in [Clients -> Seq(Nicks)]
         /\ watches' \in [Clients -> Nat]
         /\ \A d \in Clients, m \in Nicks :
              /\ d \in Range(header'[m]) <=> d \in Range(header[m]) /\ d # c
              /\ m \in Range(watch'[d]) <=> m \in Range(watch[d]) /\ d # c
         /\ \A d \in Clients : watches'[d] = Len(watch'[d]) /\ IsInjective(watch'[d])
         /\ \A m \in Nicks : IsInjective(header'[m])
<1>1. /\ header \in [Nicks -> Seq(Clients)] /\ watch \in [Clients -> Seq(Nicks)]
      /\ watches \in [Clients -> Nat] /\ c \in Clients
      /\ \A m \in Nicks : c \in Range(header[m]) <=> m \in Range(watch[c])
      /\ \A d \in Clients : watches[d] = Len(watch[d]) /\ IsInjective(watch[d])
      /\ \A m \in Nicks : IsInjective(header[m])
  BY DEF WatchInv, WatchTypeOK, WatchMirror
<1>2. ASSUME NEW m \in Nicks
      PROVE  /\ header'[m] \in Seq(Clients) /\ IsInjective(header'[m])
             /\ Range(header'[m]) = Range(header[m]) \ {c}
  <2>1. header'[m] = IF m \in Range(watch[c]) THEN RemoveFirst(header[m], c) ELSE header[m]
    BY DEF hash_del_watch_list
  <2>2. LET r == RemoveFirst(header[m], c)
        IN r \in Seq(Clients) /\ IsInjective(r) /\ Range(r) = Range(header[m]) \ {c}
    BY <1>1, RemoveFirstSpec
  <2> QED BY <1>1, <2>1, <2>2
<1>3. header' \in [Nicks -> Seq(Clients)]
  <2>1. DOMAIN header' = Nicks /\ header' = [m \in Nicks |-> header'[m]]
    BY DEF hash_del_watch_list
  <2> QED BY <1>2, <2>1
<1>4. /\ watch' = [watch EXCEPT ![c] = <<>>] /\ watches' = [watches EXCEPT ![c] = 0]
  BY DEF hash_del_watch_list
<1>5. << >> \in Seq(Nicks) /\ Len(<< >>) = 0 /\ Range(<< >>) = {} /\ IsInjective(<< >>)
  BY DEF Range, IsInjective
<1> QED BY <1>1, <1>2, <1>3, <1>4, <1>5

\* Who leaves takes a nick along, and nobody else loses one.
LEMMA WatchForgets ==
  ASSUME NEW t \in [Clients -> [Nicks -> BOOLEAN]], NEW c \in Clients, NEW ns
  PROVE  /\ forget(t, c, ns) \in [Clients -> [Nicks -> BOOLEAN]]
         /\ \A d \in Clients : d # c => forget(t, c, ns)[d] = t[d]
         /\ \A m \in Nicks : m \notin ns => (forget(t, c, ns)[c][m] <=> t[c][m])
BY DEF forget

\* Every step keeps the lists of watchers and of the watched alike.
LEMMA WatchStep ==
  ASSUME WatchInv, [WatchNext]_watchVars
  PROVE  WatchInv'
<1>1. /\ wnick \in [Clients -> Nicks \cup {None}] /\ person \subseteq Clients
      /\ header \in [Nicks -> Seq(Clients)] /\ watch \in [Clients -> Seq(Nicks)]
      /\ watches \in [Clients -> Nat] /\ told \in [Clients -> [Nicks -> BOOLEAN]]
  BY DEF WatchInv, WatchTypeOK
<1>2. /\ \A c \in person : wnick[c] # None
      /\ \A c, d \in Clients : wnick[c] = wnick[d] /\ wnick[c] # None => c = d
  BY DEF WatchInv, NicksOwned
<1>3. /\ \A c \in Clients, n \in Nicks : c \in Range(header[n]) <=> n \in Range(watch[c])
      /\ \A c \in Clients : watches[c] = Len(watch[c]) /\ IsInjective(watch[c])
      /\ \A n \in Nicks : IsInjective(header[n]) /\ Range(header[n]) \subseteq person
  BY DEF WatchInv, WatchMirror
<1>4. \A c \in Clients, n \in Nicks :
        n \in Range(watch[c]) /\ n \notin forced => (told[c][n] <=> Owns(n) # {})
  BY DEF WatchInv, TruthTold
<1>5. \A c \in Clients : Range(watch[c]) \subseteq Nicks
  BY <1>1 DEF Range
<1>6. None \notin Clients /\ None \notin Nicks
  BY CommonAssumption
<1>10. ASSUME NEW c \in Clients, NEW n \in Nicks, m_watch_add(c, n) PROVE WatchInv'
  <2>1. /\ c \in person /\ add_to_watch_hash_table(n, c)
        /\ told' = [told EXCEPT ![c][n] = (Owns(n) # {})]
        /\ wnick' = wnick /\ person' = person /\ forced' = forced
    BY <1>10 DEF m_watch_add, show_watch
  <2>2. /\ header' \in [Nicks -> Seq(Clients)] /\ watch' \in [Clients -> Seq(Nicks)]
        /\ watches' \in [Clients -> Nat]
        /\ \A d \in Clients, m \in Nicks :
             /\ d \in Range(header'[m]) <=> d \in Range(header[m]) \/ (d = c /\ m = n)
             /\ m \in Range(watch'[d]) <=> m \in Range(watch[d]) \/ (d = c /\ m = n)
        /\ \A d \in Clients : watches'[d] = Len(watch'[d]) /\ IsInjective(watch'[d])
        /\ \A m \in Nicks : IsInjective(header'[m])
    BY <2>1, WatchAdded
  <2>3. \A m \in Nicks : Owns(m)' = Owns(m)
    BY <2>1 DEF Owns
  <2>4. WatchTypeOK' /\ NicksOwned'
    BY <1>1, <1>2, <2>1, <2>2 DEF WatchTypeOK, NicksOwned
  <2>5. WatchMirror'
    <3>1. ASSUME NEW d \in Clients, NEW m \in Nicks
          PROVE  d \in Range(header'[m]) <=> m \in Range(watch'[d])
      BY <1>3, <2>2
    <3>2. ASSUME NEW m \in Nicks, NEW d \in Range(header'[m]) PROVE d \in person'
      <4>1. d \in Clients
        BY <2>2 DEF Range
      <4> QED BY <1>3, <2>1, <2>2, <4>1
    <3> QED BY <2>2, <3>1, <3>2 DEF WatchMirror
  <2>6. ASSUME NEW d \in Clients, NEW m \in Nicks, m \in Range(watch'[d]), m \notin forced'
        PROVE  told'[d][m] <=> Owns(m)' # {}
    <3>1. CASE d = c /\ m = n
      BY <1>1, <2>1, <2>3, <3>1
    <3>2. CASE ~ (d = c /\ m = n)
      <4>1. m \in Range(watch[d]) /\ m \notin forced
        BY <2>1, <2>2, <2>6, <3>2
      <4>2. told'[d][m] = told[d][m]
        BY <1>1, <2>1, <3>2
      <4> QED BY <1>4, <2>3, <4>1, <4>2
    <3> QED BY <3>1, <3>2
  <2>7. TruthTold'
    BY <2>6 DEF TruthTold
  <2> QED BY <2>4, <2>5, <2>7 DEF WatchInv
<1>11. ASSUME NEW c \in Clients, NEW n \in Nicks, m_watch_del(c, n) PROVE WatchInv'
  <2>1. /\ c \in person /\ del_from_watch_hash_table(n, c) /\ told' = forget(told, c, {n})
        /\ wnick' = wnick /\ person' = person /\ forced' = forced
    BY <1>11 DEF m_watch_del
  <2>2. /\ header' \in [Nicks -> Seq(Clients)] /\ watch' \in [Clients -> Seq(Nicks)]
        /\ watches' \in [Clients -> Nat]
        /\ \A d \in Clients, m \in Nicks :
             /\ d \in Range(header'[m]) <=> d \in Range(header[m]) /\ ~ (d = c /\ m = n)
             /\ m \in Range(watch'[d]) <=> m \in Range(watch[d]) /\ ~ (d = c /\ m = n)
        /\ \A d \in Clients : watches'[d] = Len(watch'[d]) /\ IsInjective(watch'[d])
        /\ \A m \in Nicks : IsInjective(header'[m])
    BY <2>1, WatchDeleted
  <2>3. \A m \in Nicks : Owns(m)' = Owns(m)
    BY <2>1 DEF Owns
  <2>4. /\ told' \in [Clients -> [Nicks -> BOOLEAN]]
        /\ \A d \in Clients, m \in Nicks : d # c \/ m # n => (told'[d][m] <=> told[d][m])
    <3>1. /\ told' \in [Clients -> [Nicks -> BOOLEAN]]
          /\ \A d \in Clients : d # c => told'[d] = told[d]
          /\ \A m \in Nicks : m \notin {n} => (told'[c][m] <=> told[c][m])
      BY <1>1, <2>1 DEF forget
    <3> QED BY <3>1
  <2>5. WatchTypeOK' /\ NicksOwned'
    BY <1>1, <1>2, <2>1, <2>2, <2>4 DEF WatchTypeOK, NicksOwned
  <2>6. WatchMirror'
    <3>1. ASSUME NEW d \in Clients, NEW m \in Nicks
          PROVE  d \in Range(header'[m]) <=> m \in Range(watch'[d])
      BY <1>3, <2>2
    <3>2. ASSUME NEW m \in Nicks, NEW d \in Range(header'[m]) PROVE d \in person'
      <4>1. d \in Clients
        BY <2>2 DEF Range
      <4> QED BY <1>3, <2>1, <2>2, <4>1
    <3> QED BY <2>2, <3>1, <3>2 DEF WatchMirror
  <2>7. ASSUME NEW d \in Clients, NEW m \in Nicks, m \in Range(watch'[d]), m \notin forced'
        PROVE  told'[d][m] <=> Owns(m)' # {}
    <3>1. (d # c \/ m # n) /\ m \in Range(watch[d]) /\ m \notin forced
      BY <1>5, <2>1, <2>2, <2>7
    <3> QED BY <1>4, <2>3, <2>4, <3>1
  <2>8. TruthTold'
    BY <2>7 DEF TruthTold
  <2> QED BY <2>5, <2>6, <2>8 DEF WatchInv
<1>12. ASSUME NEW c \in Clients, m_watch_clear(c) PROVE WatchInv'
  <2>1. /\ c \in person /\ hash_del_watch_list(c) /\ told' = forget(told, c, Nicks)
        /\ wnick' = wnick /\ person' = person /\ forced' = forced
    BY <1>12 DEF m_watch_clear
  <2>2. /\ header' \in [Nicks -> Seq(Clients)] /\ watch' \in [Clients -> Seq(Nicks)]
        /\ watches' \in [Clients -> Nat]
        /\ \A d \in Clients, m \in Nicks :
             /\ d \in Range(header'[m]) <=> d \in Range(header[m]) /\ d # c
             /\ m \in Range(watch'[d]) <=> m \in Range(watch[d]) /\ d # c
        /\ \A d \in Clients : watches'[d] = Len(watch'[d]) /\ IsInjective(watch'[d])
        /\ \A m \in Nicks : IsInjective(header'[m])
    BY <2>1, WatchListGone
  <2>3. \A m \in Nicks : Owns(m)' = Owns(m)
    BY <2>1 DEF Owns
  <2>4. /\ told' \in [Clients -> [Nicks -> BOOLEAN]]
        /\ \A d \in Clients, m \in Nicks :
             d # c => (told'[d][m] <=> told[d][m])
    <3>1. /\ told' \in [Clients -> [Nicks -> BOOLEAN]]
          /\ \A d \in Clients : d # c => told'[d] = told[d]
      BY <1>1, <2>1 DEF forget
    <3> QED BY <3>1
  <2>5. WatchTypeOK' /\ NicksOwned'
    BY <1>1, <1>2, <2>1, <2>2, <2>4 DEF WatchTypeOK, NicksOwned
  <2>6. WatchMirror'
    <3>1. ASSUME NEW d \in Clients, NEW m \in Nicks
          PROVE  d \in Range(header'[m]) <=> m \in Range(watch'[d])
      BY <1>3, <2>2
    <3>2. ASSUME NEW m \in Nicks, NEW d \in Range(header'[m]) PROVE d \in person'
      <4>1. d \in Clients
        BY <2>2 DEF Range
      <4> QED BY <1>3, <2>1, <2>2, <4>1
    <3> QED BY <2>2, <3>1, <3>2 DEF WatchMirror
  <2>7. ASSUME NEW d \in Clients, NEW m \in Nicks, m \in Range(watch'[d]), m \notin forced'
        PROVE  told'[d][m] <=> Owns(m)' # {}
    <3>1. d # c /\ m \in Range(watch[d]) /\ m \notin forced
      BY <1>5, <2>1, <2>2, <2>7
    <3> QED BY <1>4, <2>3, <2>4, <3>1
  <2>8. TruthTold'
    BY <2>7 DEF TruthTold
  <2> QED BY <2>5, <2>6, <2>8 DEF WatchInv
<1>13. ASSUME NEW c \in Clients, m_watch_list(c) PROVE WatchInv'
  <2>1. /\ c \in person
        /\ told' = [told EXCEPT ![c] = [n \in Nicks |-> IF n \in Range(watch[c]) THEN Owns(n) # {}
                                                  ELSE @[n]]]
        /\ wnick' = wnick /\ person' = person /\ forced' = forced
        /\ header' = header /\ watch' = watch /\ watches' = watches
    BY <1>13 DEF m_watch_list
  <2>3. \A m \in Nicks : Owns(m)' = Owns(m)
    BY <2>1 DEF Owns
  <2>4. /\ told' \in [Clients -> [Nicks -> BOOLEAN]]
        /\ \A d \in Clients, m \in Nicks :
             told'[d][m] = IF d = c /\ m \in Range(watch[c]) THEN Owns(m) # {} ELSE told[d][m]
    BY <1>1, <2>1
  <2>5. WatchTypeOK' /\ NicksOwned'
    BY <1>1, <1>2, <2>1, <2>4 DEF WatchTypeOK, NicksOwned
  <2>6. WatchMirror'
    BY <1>3, <2>1 DEF WatchMirror
  <2>7. ASSUME NEW d \in Clients, NEW m \in Nicks, m \in Range(watch'[d]), m \notin forced'
        PROVE  told'[d][m] <=> Owns(m)' # {}
    <3>1. m \in Range(watch[d]) /\ m \notin forced
      BY <1>5, <2>1, <2>7
    <3> QED BY <1>4, <2>3, <2>4, <3>1
  <2>8. TruthTold'
    BY <2>7 DEF TruthTold
  <2> QED BY <2>5, <2>6, <2>8 DEF WatchInv

<1>20. ASSUME NEW c \in Clients, NEW n \in Nicks, m_nick_unregistered(c, n) PROVE WatchInv'
  <2>1. /\ c \notin person /\ Unowned(n) /\ wnick' = [wnick EXCEPT ![c] = n]
        /\ person' = person /\ forced' = forced /\ told' = told
        /\ header' = header /\ watch' = watch /\ watches' = watches
    BY <1>20 DEF m_nick_unregistered
  <2>2. \A m \in Nicks : Owns(m)' = Owns(m)
    BY <1>1, <2>1 DEF Owns
  <2>3. WatchTypeOK'
    BY <1>1, <2>1 DEF WatchTypeOK
  <2>4. NicksOwned'
    BY <1>1, <1>2, <2>1 DEF NicksOwned, Unowned
  <2>5. WatchMirror'
    BY <1>3, <2>1 DEF WatchMirror
  <2>6. TruthTold'
    BY <1>4, <1>5, <2>1, <2>2 DEF TruthTold
  <2> QED BY <2>3, <2>4, <2>5, <2>6 DEF WatchInv
<1>21. ASSUME NEW c \in Clients, register_person(c) PROVE WatchInv'
  <2>0. PICK n : n = wnick[c]
    OBVIOUS
  <2>1. /\ c \notin person /\ n \in Nicks /\ wnick' = wnick
        /\ person' = person \cup {c} /\ forced' = forced /\ told' = hash_check_watch(told, n, TRUE)
        /\ header' = header /\ watch' = watch /\ watches' = watches
    BY <1>1, <1>21, <2>0 DEF register_person
  <2>2. /\ c \in Owns(n)' /\ \A m \in Nicks : m # n => Owns(m)' = Owns(m)
    BY <1>1, <2>0, <2>1 DEF Owns
  <2>3. /\ told' \in [Clients -> [Nicks -> BOOLEAN]]
        /\ \A d \in Clients : d \in Range(header[n]) => told'[d][n]
        /\ \A d \in Clients, m \in Nicks :
              m # n \/ d \notin Range(header[n]) => (told'[d][m] <=> told[d][m])
    BY <1>1, <2>1 DEF hash_check_watch
  <2>4. WatchTypeOK' /\ NicksOwned'
    BY <1>1, <1>2, <1>6, <2>0, <2>1, <2>3 DEF WatchTypeOK, NicksOwned
  <2>5. WatchMirror'
    BY <1>3, <2>1 DEF WatchMirror
  <2>6. ASSUME NEW d \in Clients, NEW m \in Nicks, m \in Range(watch'[d]), m \notin forced'
        PROVE  told'[d][m] <=> Owns(m)' # {}
    <3>1. m \in Range(watch[d]) /\ m \notin forced /\ d \in Range(header[m])
      BY <1>3, <1>5, <2>1, <2>6
    <3>2. CASE m = n
      BY <2>2, <2>3, <3>1, <3>2
    <3>3. CASE m # n
      BY <1>4, <2>2, <2>3, <3>1, <3>3
    <3> QED BY <3>2, <3>3
  <2>7. TruthTold'
    BY <2>6 DEF TruthTold
  <2> QED BY <2>4, <2>5, <2>7 DEF WatchInv
<1>22. ASSUME NEW c \in Clients, NEW n \in Nicks, m_nick(c, n) PROVE WatchInv'
  <2>0. PICK o, t : o = wnick[c] /\ t = hash_check_watch(told, o, FALSE)
    OBVIOUS
  <2>1. /\ c \in person /\ Unowned(n) /\ wnick' = [wnick EXCEPT ![c] = n]
        /\ person' = person /\ forced' = forced /\ told' = hash_check_watch(t, n, TRUE)
        /\ header' = header /\ watch' = watch /\ watches' = watches
    BY <1>22, <2>0 DEF m_nick
  <2>2. o \in Nicks /\ o # n
    BY <1>1, <1>2, <2>0, <2>1 DEF Unowned
  <2>3. /\ c \in Owns(n)' /\ Owns(o)' = {}
        /\ \A m \in Nicks : m # n /\ m # o => Owns(m)' = Owns(m)
    <3>1. c \in Owns(n)'
      BY <1>1, <2>0, <2>1 DEF Owns
    <3>2. ASSUME NEW d \in Owns(o)' PROVE FALSE
      <4>1. d \in Clients /\ wnick'[d] = o
        BY <1>1, <2>0, <2>1 DEF Owns
      <4> QED BY <1>1, <1>2, <2>0, <2>1, <2>2, <4>1
    <3>3. \A m \in Nicks : m # n /\ m # o => Owns(m)' = Owns(m)
      BY <1>1, <2>0, <2>1 DEF Owns
    <3> QED BY <3>1, <3>2, <3>3
  <2>4. WatchTypeOK' /\ NicksOwned'
    <3>1. t \in [Clients -> [Nicks -> BOOLEAN]]
      BY <1>1, <2>0, <2>2 DEF hash_check_watch
    <3>2. told' \in [Clients -> [Nicks -> BOOLEAN]]
      BY <2>1, <3>1 DEF hash_check_watch
    <3> QED BY <1>1, <1>2, <1>6, <2>1, <3>2 DEF WatchTypeOK, NicksOwned, Unowned
  <2>5. /\ \A d \in Clients : d \in Range(header[n]) => told'[d][n]
        /\ \A d \in Clients : d \in Range(header[o]) => ~ told'[d][o]
        /\ \A d \in Clients, m \in Nicks : m # n /\ m # o => (told'[d][m] <=> told[d][m])
    <3>1. /\ t \in [Clients -> [Nicks -> BOOLEAN]]
          /\ \A d \in Clients : d \in Range(header[o]) => ~ t[d][o]
          /\ \A d \in Clients, m \in Nicks :
               m # o \/ d \notin Range(header[o]) => (t[d][m] <=> told[d][m])
      BY <1>1, <2>0, <2>2 DEF hash_check_watch
    <3>2. /\ \A d \in Clients : d \in Range(header[n]) => told'[d][n]
          /\ \A d \in Clients, m \in Nicks :
               m # n \/ d \notin Range(header[n]) => (told'[d][m] <=> t[d][m])
      BY <2>1, <3>1 DEF hash_check_watch
    <3> QED BY <2>2, <3>1, <3>2
  <2>6. WatchMirror'
    BY <1>3, <2>1 DEF WatchMirror
  <2>7. ASSUME NEW d \in Clients, NEW m \in Nicks, m \in Range(watch'[d]), m \notin forced'
        PROVE  told'[d][m] <=> Owns(m)' # {}
    <3>1. m \in Range(watch[d]) /\ m \notin forced /\ d \in Range(header[m])
      BY <1>3, <1>5, <2>1, <2>7
    <3>2. CASE m = n
      BY <2>3, <2>5, <3>1, <3>2
    <3>3. CASE m = o
      BY <2>2, <2>3, <2>5, <3>1, <3>3
    <3>4. CASE m # n /\ m # o
      BY <1>4, <2>3, <2>5, <3>1, <3>4
    <3> QED BY <3>2, <3>3, <3>4
  <2>8. TruthTold'
    BY <2>7 DEF TruthTold
  <2> QED BY <2>4, <2>6, <2>8 DEF WatchInv
<1>23. ASSUME NEW c \in Clients, NEW n \in Nicks, m_svsnick(c, n) PROVE WatchInv'
  <2>0. PICK o : o = wnick[c]
    OBVIOUS
  <2>1. /\ c \in person /\ Unowned(n) /\ wnick' = [wnick EXCEPT ![c] = n]
        /\ person' = person /\ forced' = forced \cup {o, n} /\ told' = told
        /\ header' = header /\ watch' = watch /\ watches' = watches
    BY <1>23, <2>0 DEF m_svsnick
  <2>2. \A m \in Nicks : m # n /\ m # o => Owns(m)' = Owns(m)
    BY <1>1, <2>0, <2>1 DEF Owns
  <2>3. WatchTypeOK' /\ NicksOwned'
    BY <1>1, <1>2, <1>6, <2>1 DEF WatchTypeOK, NicksOwned, Unowned
  <2>4. WatchMirror'
    BY <1>3, <2>1 DEF WatchMirror
  <2>5. TruthTold'
    BY <1>4, <1>5, <2>1, <2>2 DEF TruthTold
  <2> QED BY <2>3, <2>4, <2>5 DEF WatchInv
<1>24. ASSUME NEW c \in Clients, exit_person(c) PROVE WatchInv'
  <2>0. PICK o, t : o = wnick[c] /\ t = hash_check_watch(told, o, FALSE)
    OBVIOUS
  <2>1. /\ c \in person /\ hash_del_watch_list(c) /\ wnick' = [wnick EXCEPT ![c] = None]
        /\ person' = person \ {c} /\ forced' = forced /\ told' = forget(t, c, Nicks)
    BY <1>24, <2>0 DEF exit_person
  <2>2. /\ header' \in [Nicks -> Seq(Clients)] /\ watch' \in [Clients -> Seq(Nicks)]
        /\ watches' \in [Clients -> Nat]
        /\ \A d \in Clients, m \in Nicks :
             /\ d \in Range(header'[m]) <=> d \in Range(header[m]) /\ d # c
             /\ m \in Range(watch'[d]) <=> m \in Range(watch[d]) /\ d # c
        /\ \A d \in Clients : watches'[d] = Len(watch'[d]) /\ IsInjective(watch'[d])
        /\ \A m \in Nicks : IsInjective(header'[m])
    BY <2>1, WatchListGone
  <2>3. o \in Nicks
    BY <1>1, <1>2, <2>0, <2>1
  <2>4. Owns(o)' = {} /\ \A m \in Nicks : m # o => Owns(m)' = Owns(m)
    BY <1>1, <1>2, <1>6, <2>0, <2>1, <2>3 DEF Owns
  <2>5. /\ told' \in [Clients -> [Nicks -> BOOLEAN]]
        /\ \A d \in Clients : d \in Range(header[o]) /\ d # c => ~ told'[d][o]
        /\ \A d \in Clients, m \in Nicks : d # c /\ m # o => (told'[d][m] <=> told[d][m])
    <3>1. /\ t \in [Clients -> [Nicks -> BOOLEAN]]
          /\ \A d \in Clients : d \in Range(header[o]) => ~ t[d][o]
          /\ \A d \in Clients, m \in Nicks :
               m # o \/ d \notin Range(header[o]) => (t[d][m] <=> told[d][m])
      BY <1>1, <2>0, <2>3 DEF hash_check_watch
    <3>2. /\ told' \in [Clients -> [Nicks -> BOOLEAN]]
          /\ \A d \in Clients, m \in Nicks :
             d # c => (told'[d][m] <=> t[d][m])
      BY <2>1, <3>1, WatchForgets
    <3> QED BY <2>3, <3>1, <3>2
  <2>6. WatchTypeOK' /\ NicksOwned'
    BY <1>1, <1>2, <2>1, <2>2, <2>5 DEF WatchTypeOK, NicksOwned
  <2>7. WatchMirror'
    <3>1. ASSUME NEW d \in Clients, NEW m \in Nicks
          PROVE  d \in Range(header'[m]) <=> m \in Range(watch'[d])
      BY <1>3, <2>2
    <3>2. ASSUME NEW m \in Nicks, NEW d \in Range(header'[m]) PROVE d \in person'
      <4>1. d \in Clients
        BY <2>2 DEF Range
      <4> QED BY <1>3, <2>1, <2>2, <4>1
    <3> QED BY <2>2, <3>1, <3>2 DEF WatchMirror
  <2>8. ASSUME NEW d \in Clients, NEW m \in Nicks, m \in Range(watch'[d]), m \notin forced'
        PROVE  told'[d][m] <=> Owns(m)' # {}
    <3>1. d # c /\ m \in Range(watch[d]) /\ m \notin forced /\ d \in Range(header[m])
      BY <1>3, <1>5, <2>1, <2>2, <2>8
    <3>2. CASE m = o
      BY <2>4, <2>5, <3>1, <3>2
    <3>3. CASE m # o
      BY <1>4, <2>4, <2>5, <3>1, <3>3
    <3> QED BY <3>2, <3>3
  <2>9. TruthTold'
    BY <2>8 DEF TruthTold
  <2> QED BY <2>6, <2>7, <2>9 DEF WatchInv
<1>25. ASSUME NEW c \in Clients, exit_unregistered(c) PROVE WatchInv'
  <2>1. /\ c \notin person /\ wnick' = [wnick EXCEPT ![c] = None]
        /\ person' = person /\ forced' = forced /\ told' = told
        /\ header' = header /\ watch' = watch /\ watches' = watches
    BY <1>25 DEF exit_unregistered
  <2>2. \A m \in Nicks : Owns(m)' = Owns(m)
    BY <1>1, <2>1 DEF Owns
  <2>3. WatchTypeOK' /\ NicksOwned'
    BY <1>1, <1>2, <2>1 DEF WatchTypeOK, NicksOwned
  <2>4. WatchMirror'
    BY <1>3, <2>1 DEF WatchMirror
  <2>5. TruthTold'
    BY <1>4, <1>5, <2>1, <2>2 DEF TruthTold
  <2> QED BY <2>3, <2>4, <2>5 DEF WatchInv
<1>26. CASE UNCHANGED watchVars
  <2>1. /\ wnick' = wnick /\ person' = person /\ forced' = forced /\ told' = told
        /\ header' = header /\ watch' = watch /\ watches' = watches
    BY <1>26 DEF watchVars
  <2>2. WatchTypeOK' /\ NicksOwned'
    BY <1>1, <1>2, <2>1 DEF WatchTypeOK, NicksOwned
  <2>3. WatchMirror'
    BY <1>3, <2>1 DEF WatchMirror
  <2>4. TruthTold'
    BY <1>4, <2>1 DEF TruthTold, Owns
  <2> QED BY <2>2, <2>3, <2>4 DEF WatchInv
<1> QED BY <1>10, <1>11, <1>12, <1>13, <1>20, <1>21, <1>22, <1>23, <1>24, <1>25, <1>26
        DEF WatchNext

\* Nobody watches anybody.
LEMMA WatchStart ==
  ASSUME WatchInit
  PROVE  WatchInv
<1>1. << >> \in Seq(Nicks) /\ << >> \in Seq(Clients)
      /\ Len(<< >>) = 0 /\ Range(<< >>) = {} /\ IsInjective(<< >>)
  BY DEF Range, IsInjective
<1>2. WatchTypeOK /\ NicksOwned
  BY <1>1 DEF WatchInit, WatchTypeOK, NicksOwned
<1>3. WatchMirror
  BY <1>1 DEF WatchInit, WatchMirror
<1>4. TruthTold
  BY <1>1 DEF WatchInit, TruthTold
<1> QED BY <1>2, <1>3, <1>4 DEF WatchInv

\* However WATCH lists are changed, nicks taken and given up and clients exit, a
\* client is in the header of exactly the nicks in its own list, each once, as
\* hash_del_watch_list and rehash_watch need it, and every watcher has been told
\* the truth about the nicks it watches (hash.c).
THEOREM WatchAlwaysRight == WatchSpec => []WatchRight
<1>1. WatchInit => WatchInv
  BY WatchStart
<1>2. WatchInv /\ [WatchNext]_watchVars => WatchInv'
  BY WatchStep
<1>3. ASSUME WatchInv PROVE WatchRight
  <2>1. ASSUME NEW c \in Clients, NEW n \in Range(watch[c]) \ forced
        PROVE  told[c][n] = (Owns(n) # {})
    <3>1. n \in Nicks /\ told[c][n] \in BOOLEAN
      BY <1>3 DEF WatchInv, WatchTypeOK, Range
    <3>2. told[c][n] <=> Owns(n) # {}
      BY <1>3, <3>1 DEF WatchInv, TruthTold
    <3> QED BY <3>1, <3>2
  <2> QED BY <1>3, <2>1 DEF WatchInv, WatchRight, WatchAccurate
<1> QED BY <1>1, <1>2, <1>3, PTL DEF WatchSpec

----------------------------------------------------------------------------
(* DCCALLOW.                                                               *)

DccLinks == [to : Clients, me : BOOLEAN]

\* Who is in whose list: c has allowed d exactly when d has the link back, and
\* then both are there.
Paired ==
  \A c, d \in Clients :
    /\ Me(d) \in Range(dccallow[c]) <=> Remote(c) \in Range(dccallow[d])
    /\ Me(d) \in Range(dccallow[c]) => c \in present /\ d \in present

DccInv == /\ present \subseteq Clients /\ dccallow \in [Clients -> Seq(DccLinks)]
          /\ \A c \in Clients : IsInjective(dccallow[c])
          /\ Paired

\* Links are of two kinds.
LEMMA LinkKinds ==
  /\ \A d \in Clients : Me(d) \in DccLinks /\ Remote(d) \in DccLinks
  /\ \A d, e \in Clients : Me(d) # Remote(e)
  /\ \A d, e \in Clients : Me(d) = Me(e) \/ Remote(d) = Remote(e) => d = e
  /\ \A l \in DccLinks : l = Me(l.to) \/ l = Remote(l.to)
<1>1. ASSUME NEW l \in DccLinks PROVE l = Me(l.to) \/ l = Remote(l.to)
  <2>1. l.me = TRUE \/ l.me = FALSE
    BY DEF DccLinks
  <2>2. l = [to |-> l.to, me |-> l.me]
    BY DEF DccLinks
  <2> QED BY <2>1, <2>2 DEF Me, Remote
<1>2. ASSUME NEW d \in Clients, NEW e \in Clients PROVE Me(d) # Remote(e)
  <2>1. Me(d).me = TRUE /\ Remote(e).me = FALSE
    BY DEF Me, Remote
  <2> QED BY <2>1
<1>3. ASSUME NEW d \in Clients, NEW e \in Clients, Me(d) = Me(e) \/ Remote(d) = Remote(e) PROVE d = e
  <2>1. Me(d).to = d /\ Me(e).to = e /\ Remote(d).to = d /\ Remote(e).to = e
    BY DEF Me, Remote
  <2> QED BY <1>3, <2>1
<1>4. \A d \in Clients : Me(d) \in DccLinks /\ Remote(d) \in DccLinks
  BY DEF Me, Remote, DccLinks
<1> QED BY <1>1, <1>2, <1>3, <1>4

\* Nobody has allowed anybody.
LEMMA DccStart == DccInit => DccInv
<1>1. << >> \in Seq(DccLinks) /\ Range(<< >>) = {} /\ IsInjective(<< >>)
  BY DEF Range, IsInjective
<1> QED BY <1>1 DEF DccInit, DccInv, Paired

\* add_dccallow puts one link in two lists.
LEMMA DccAdds ==
  ASSUME DccInv, NEW c \in present, NEW d \in present, c # d, add_dccallow(c, d),
         present' = present
  PROVE  DccInv'
<1>1. /\ present \subseteq Clients /\ dccallow \in [Clients -> Seq(DccLinks)]
      /\ \A e \in Clients : IsInjective(dccallow[e])
  BY DEF DccInv
<1>2. \A a, b \in Clients :
        /\ Me(b) \in Range(dccallow[a]) <=> Remote(a) \in Range(dccallow[b])
        /\ Me(b) \in Range(dccallow[a]) => a \in present /\ b \in present
  BY DEF DccInv, Paired
<1> DEFINE p == <<Me(d)>> \o dccallow[c]
           q == <<Remote(c)>> \o dccallow[d]
<1>3. /\ c \in Clients /\ d \in Clients
      /\ Me(d) \notin Range(dccallow[c]) /\ dccallow' = [dccallow EXCEPT ![c] = p, ![d] = q]
  BY <1>1 DEF add_dccallow
<1>4. Remote(c) \notin Range(dccallow[d])
  BY <1>2, <1>3
<1>5. p \in Seq(DccLinks) /\ Range(p) = Range(dccallow[c]) \cup {Me(d)} /\ IsInjective(p)
  BY <1>1, <1>3, LinkKinds, PushSpec
<1>6. q \in Seq(DccLinks) /\ Range(q) = Range(dccallow[d]) \cup {Remote(c)} /\ IsInjective(q)
  BY <1>1, <1>3, <1>4, LinkKinds, PushSpec
<1> HIDE DEF p, q
<1>7. dccallow'[c] = p /\ dccallow'[d] = q /\ \A e \in Clients : e # c /\ e # d => dccallow'[e] = dccallow[e]
  BY <1>1, <1>3
<1>8. dccallow' \in [Clients -> Seq(DccLinks)] /\ \A e \in Clients : IsInjective(dccallow'[e])
  BY <1>1, <1>3, <1>5, <1>6
<1>9. ASSUME NEW a \in Clients, NEW b \in Clients
      PROVE  /\ Me(b) \in Range(dccallow'[a]) <=> Me(b) \in Range(dccallow[a]) \/ (a = c /\ b = d)
             /\ Remote(b) \in Range(dccallow'[a]) <=> Remote(b) \in Range(dccallow[a]) \/ (a = d /\ b = c)
  <2>1. Me(b) # Remote(c) /\ Remote(b) # Me(d) /\ (Me(b) = Me(d) => b = d) /\ (Remote(b) = Remote(c) => b = c)
    BY <1>3, LinkKinds
  <2>2. CASE a = c
    BY <1>3, <1>5, <1>7, <2>1, <2>2
  <2>3. CASE a = d
    BY <1>3, <1>6, <1>7, <2>1, <2>3
  <2>4. CASE a # c /\ a # d
    BY <1>7, <2>4
  <2> QED BY <2>2, <2>3, <2>4
<1>10. Paired'
  BY <1>2, <1>3, <1>9 DEF Paired
<1> QED BY <1>1, <1>8, <1>10 DEF DccInv

\* del_dccallow takes it out of both.
LEMMA DccDeletes ==
  ASSUME DccInv, NEW c \in present, NEW d \in present, c # d, del_dccallow(c, d),
         present' = present
  PROVE  DccInv'
<1>1. /\ present \subseteq Clients /\ dccallow \in [Clients -> Seq(DccLinks)]
      /\ \A e \in Clients : IsInjective(dccallow[e])
  BY DEF DccInv
<1>2. \A a, b \in Clients :
        /\ Me(b) \in Range(dccallow[a]) <=> Remote(a) \in Range(dccallow[b])
        /\ Me(b) \in Range(dccallow[a]) => a \in present /\ b \in present
  BY DEF DccInv, Paired
<1> DEFINE p == RemoveFirst(dccallow[c], Me(d))
           q == RemoveFirst(dccallow[d], Remote(c))
<1>3. c \in Clients /\ d \in Clients /\ dccallow' = [dccallow EXCEPT ![c] = p, ![d] = q]
  BY <1>1 DEF del_dccallow
<1>5. p \in Seq(DccLinks) /\ Range(p) = Range(dccallow[c]) \ {Me(d)} /\ IsInjective(p)
  BY <1>1, <1>3, RemoveFirstSpec
<1>6. q \in Seq(DccLinks) /\ Range(q) = Range(dccallow[d]) \ {Remote(c)} /\ IsInjective(q)
  BY <1>1, <1>3, RemoveFirstSpec
<1> HIDE DEF p, q
<1>7. dccallow'[c] = p /\ dccallow'[d] = q /\ \A e \in Clients : e # c /\ e # d => dccallow'[e] = dccallow[e]
  BY <1>1, <1>3
<1>8. dccallow' \in [Clients -> Seq(DccLinks)] /\ \A e \in Clients : IsInjective(dccallow'[e])
  BY <1>1, <1>3, <1>5, <1>6
<1>9. ASSUME NEW a \in Clients, NEW b \in Clients
      PROVE  /\ Me(b) \in Range(dccallow'[a]) <=> Me(b) \in Range(dccallow[a]) /\ ~ (a = c /\ b = d)
             /\ Remote(b) \in Range(dccallow'[a]) <=> Remote(b) \in Range(dccallow[a]) /\ ~ (a = d /\ b = c)
  <2>1. Me(b) # Remote(c) /\ Remote(b) # Me(d) /\ (Me(b) = Me(d) => b = d) /\ (Remote(b) = Remote(c) => b = c)
    BY <1>3, LinkKinds
  <2>2. CASE a = c
    BY <1>3, <1>5, <1>7, <2>1, <2>2
  <2>3. CASE a = d
    BY <1>3, <1>6, <1>7, <2>1, <2>3
  <2>4. CASE a # c /\ a # d
    BY <1>7, <2>4
  <2> QED BY <2>2, <2>3, <2>4
<1>10. Paired'
  BY <1>2, <1>3, <1>9 DEF Paired
<1> QED BY <1>1, <1>8, <1>10 DEF DccInv

\* remove_dcc_references leaves no link to the client that exits.
LEMMA DccLeaves ==
  ASSUME DccInv, NEW c \in Clients, DccExit(c)
  PROVE  DccInv'
<1>1. /\ present \subseteq Clients /\ dccallow \in [Clients -> Seq(DccLinks)]
      /\ \A e \in Clients : IsInjective(dccallow[e])
  BY DEF DccInv
<1>2. \A a, b \in Clients :
        /\ Me(b) \in Range(dccallow[a]) <=> Remote(a) \in Range(dccallow[b])
        /\ Me(b) \in Range(dccallow[a]) => a \in present /\ b \in present
  BY DEF DccInv, Paired
<1> DEFINE K(d) == {l \in Range(dccallow[d]) :
                      ~ (l.to = c /\ [to |-> d, me |-> ~ l.me] \in Range(dccallow[c]))}
<1>3. /\ present' = present \ {c}
      /\ dccallow' = [d \in Clients |-> IF d = c THEN << >> ELSE Keep(dccallow[d], K(d))]
  BY DEF DccExit, remove_dcc_references
<1>4. ASSUME NEW d \in Clients, d # c, NEW e \in Clients
      PROVE  /\ Me(e) \in K(d) <=> Me(e) \in Range(dccallow[d]) /\ e # c
             /\ Remote(e) \in K(d) <=> Remote(e) \in Range(dccallow[d]) /\ e # c
  <2>1. /\ Me(e).to = e /\ Remote(e).to = e
        /\ [to |-> d, me |-> ~ Me(e).me] = Remote(d) /\ [to |-> d, me |-> ~ Remote(e).me] = Me(d)
    BY DEF Me, Remote
  <2> QED BY <1>2, <2>1
<1> HIDE DEF K
<1>5. ASSUME NEW d \in Clients, d # c
      PROVE  /\ dccallow'[d] \in Seq(DccLinks) /\ Range(dccallow'[d]) = Range(dccallow[d]) \cap K(d)
             /\ IsInjective(dccallow'[d])
  <2>1. dccallow'[d] = Keep(dccallow[d], K(d))
    BY <1>3, <1>5
  <2> DEFINE s == dccallow[d]
             r == Keep(s, K(d))
  <2>2. s \in Seq(DccLinks) /\ IsInjective(s)
    BY <1>1
  <2> HIDE DEF s
  <2>3. r \in Seq(DccLinks) /\ Range(r) = Range(s) \cap K(d) /\ \E at : Thins(r, s, at)
    BY <2>2, KeepSpec
  <2> HIDE DEF r
  <2>4. IsInjective(r)
    BY <2>2, <2>3, ThinnerList
  <2> QED BY <2>1, <2>3, <2>4 DEF r, s
<1>6. dccallow'[c] = << >> /\ << >> \in Seq(DccLinks) /\ Range(<< >>) = {} /\ IsInjective(<< >>)
  BY <1>3 DEF Range, IsInjective
<1>7. dccallow' \in [Clients -> Seq(DccLinks)] /\ \A e \in Clients : IsInjective(dccallow'[e])
  <2>1. dccallow' = [d \in Clients |-> dccallow'[d]]
    BY <1>3
  <2>2. \A d \in Clients : dccallow'[d] \in Seq(DccLinks) /\ IsInjective(dccallow'[d])
    BY <1>5, <1>6
  <2> QED BY <2>1, <2>2
<1>8. ASSUME NEW a \in Clients, NEW b \in Clients
      PROVE  /\ Me(b) \in Range(dccallow'[a]) <=> Me(b) \in Range(dccallow[a]) /\ a # c /\ b # c
             /\ Remote(b) \in Range(dccallow'[a]) <=> Remote(b) \in Range(dccallow[a]) /\ a # c /\ b # c
  <2>1. CASE a = c
    BY <1>6, <2>1
  <2>2. CASE a # c
    BY <1>4, <1>5, <2>2
  <2> QED BY <2>1, <2>2
<1>9. Paired'
  BY <1>2, <1>3, <1>8 DEF Paired
<1> QED BY <1>1, <1>3, <1>7, <1>9 DEF DccInv

\* Every step keeps the links in pairs.
LEMMA DccStep ==
  ASSUME DccInv, [DccNext]_dccVars
  PROVE  DccInv'
<1>1. ASSUME NEW c \in Clients, NEW d \in Clients, m_dccallow(c, d) PROVE DccInv'
  <2>1. c \in present /\ d \in present /\ c # d /\ present' = present
        /\ (add_dccallow(c, d) \/ del_dccallow(c, d))
    BY <1>1 DEF m_dccallow
  <2> QED BY <2>1, DccAdds, DccDeletes
<1>2. ASSUME NEW c \in Clients, DccArrive(c) \/ DccOper(c) \/ DccDeop(c) PROVE DccInv'
  <2>1. present \subseteq present' /\ present' \subseteq Clients /\ dccallow' = dccallow
    BY <1>2 DEF DccArrive, DccOper, DccDeop, DccInv
  <2> QED BY <2>1 DEF DccInv, Paired
<1>3. ASSUME UNCHANGED dccVars PROVE DccInv'
  BY <1>3 DEF dccVars, DccInv, Paired
<1> QED BY <1>1, <1>2, <1>3, DccLeaves DEF DccNext

\* DCCALLOW +, - and exits in any order: the two links of a permission come and go
\* together, and neither names a client that is gone (add_dccallow, del_dccallow
\* and remove_dcc_references).
THEOREM DccAlwaysMirrors == DccSpec => []DccMirror
<1>1. ASSUME DccInv PROVE DccMirror
  <2> SUFFICES ASSUME NEW c \in Clients, NEW i \in DOMAIN dccallow[c]
               PROVE  /\ dccallow[c][i].to \in present
                      /\ [to |-> c, me |-> ~ dccallow[c][i].me] \in Range(dccallow[dccallow[c][i].to])
    BY <1>1 DEF DccInv, DccMirror
  <2>0. PICK l, d : l = dccallow[c][i] /\ d = l.to
    OBVIOUS
  <2>1. l \in DccLinks /\ l \in Range(dccallow[c])
    BY <1>1, <2>0 DEF DccInv, Range
  <2>2. d \in Clients
    BY <2>0, <2>1 DEF DccLinks
  <2>3. [to |-> c, me |-> ~ Me(d).me] = Remote(c) /\ [to |-> c, me |-> ~ Remote(d).me] = Me(c)
    BY DEF Me, Remote
  <2>4. CASE l = Me(d)
    <3>1. [to |-> c, me |-> ~ l.me] = Remote(c)
      BY <2>3, <2>4, Zenon
    <3> QED BY <1>1, <2>0, <2>1, <2>2, <2>4, <3>1 DEF DccInv, Paired
  <2>5. CASE l = Remote(d)
    <3>1. [to |-> c, me |-> ~ l.me] = Me(c)
      BY <2>3, <2>5, Zenon
    <3> QED BY <1>1, <2>0, <2>1, <2>2, <2>5, <3>1 DEF DccInv, Paired
  <2> QED BY <2>0, <2>1, <2>4, <2>5, LinkKinds
<1>2. DccInit => DccInv
  BY DccStart
<1>3. DccInv /\ [DccNext]_dccVars => DccInv'
  BY DccStep
<1> QED BY <1>1, <1>2, <1>3, PTL DEF DccSpec

----------------------------------------------------------------------------
(* Hooks of modules.                                                       *)

CallRecs == [type : HookTypes, mod : Mods, lp : HookIds \cup {NoHook}, due : SUBSET HookIds,
             called : SUBSET HookIds]

\* A call f on the list l that is not astray: it is at a hook of the list, has
\* called the due ones up to it, and everything behind it is due and was not called.
CallRight(f, l) ==
  f.lp # NoHook =>
    /\ f.lp \in Range(l) /\ f.due \subseteq Range(l)
    /\ \A i, j \in 1 .. Len(l) : l[j] = f.lp =>
         /\ i <= j /\ l[i] \in f.due => l[i] \in f.called
         /\ i > j => l[i] \in f.due /\ l[i] \notin f.called

HooksTypeOK ==
  /\ module_list \in Seq(Mods) /\ hook \in [HookIds -> HookRecs \cup {NoHook}]
  /\ all_hooks \in Seq(HookIds) /\ hooklist \in [HookTypes -> Seq(HookIds)]
  /\ calls \in Seq(CallRecs) /\ (doing.step = "init" => doing.mod \in Mods)

\* The lists have the hooks that exist, once, and these belong to modules that
\* are loaded; the one that is being unloaded has none left.
ListsRight ==
  /\ IsInjective(module_list) /\ IsInjective(all_hooks)
  /\ \A h \in HookIds : h \in Range(all_hooks) <=> hook[h] # NoHook
  /\ \A t \in HookTypes : IsInjective(hooklist[t])
  /\ \A t \in HookTypes, h \in HookIds :
       h \in Range(hooklist[t]) <=> hook[h] # NoHook /\ hook[h].type = t
  /\ \A h \in HookIds : hook[h] # NoHook =>
       /\ hook[h].owner \in Range(module_list)
       /\ doing.step = "unload" => hook[h].owner # doing.mod

CallsInv == HooksTypeOK /\ ListsRight
            /\ \A k \in 1 .. Len(calls) : CallRight(calls[k], hooklist[calls[k].type])

\* The function that a call runs is of the hook it is at, and never of the module
\* that is being unloaded.
RunsRight(f) ==
  /\ f.lp # NoHook => f.mod = hook[f.lp].owner
  /\ doing.step = "unload" => f.mod # doing.mod

HooksInv == CallsInv /\ \A k \in 1 .. Len(calls) : RunsRight(calls[k])

\* A null pointer is no hook.
LEMMA NoHookApart == NoHook \notin HookIds
  BY HooksAssumption

----------------------------------------------------------------------------
(* What becomes of a call.                                                 *)

\* A hook is added at the head of the list the call is in.
LEMMA CallPush ==
  ASSUME NEW l \in Seq(HookIds), NEW f \in CallRecs, CallRight(f, l),
         NEW h \in HookIds, h \notin Range(l)
  PROVE  CallRight(f, <<h>> \o l)
<1> DEFINE r == <<h>> \o l
<1>1. /\ r \in Seq(HookIds) /\ Len(r) = Len(l) + 1 /\ r[1] = h /\ Len(l) \in Nat
      /\ \A i \in 2 .. Len(r) : r[i] = l[i - 1]
      /\ Range(r) = Range(l) \cup {h}
  BY PushSpec
<1> HIDE DEF r
<1>a. SUFFICES ASSUME f.lp # NoHook PROVE CallRight(f, r)
  BY DEF CallRight, r
<1>2. f.lp \in Range(l) /\ f.due \subseteq Range(l) /\ f.lp # h /\ h \notin f.due
  BY <1>a DEF CallRight
<1>3. ASSUME NEW i \in 1 .. Len(r), NEW j \in 1 .. Len(r), r[j] = f.lp
      PROVE  /\ i <= j /\ r[i] \in f.due => r[i] \in f.called
             /\ i > j => r[i] \in f.due /\ r[i] \notin f.called
  <2>1. j \in 2 .. Len(r) /\ j - 1 \in 1 .. Len(l) /\ l[j - 1] = f.lp
    BY <1>1, <1>2, <1>3
  <2>2. CASE i = 1
    BY <1>1, <1>2, <2>1, <2>2
  <2>3. CASE i # 1
    <3>1. i \in 2 .. Len(r) /\ i - 1 \in 1 .. Len(l) /\ r[i] = l[i - 1]
          /\ (i <= j <=> i - 1 <= j - 1) /\ (i > j <=> i - 1 > j - 1)
      BY <1>1, <2>1, <2>3
    <3> QED BY <1>a, <2>1, <3>1 DEF CallRight
  <2> QED BY <2>2, <2>3
<1> QED BY <1>1, <1>2, <1>3 DEF CallRight

\* A hook is deleted: the call goes astray if it is at it.
LEMMA CallRemove ==
  ASSUME NEW l \in Seq(HookIds), IsInjective(l), NEW f \in CallRecs, CallRight(f, l),
         NEW h \in HookIds
  PROVE  /\ unlinked(f, h) \in CallRecs /\ unlinked(f, h).type = f.type
         /\ CallRight(unlinked(f, h), RemoveFirst(l, h))
<1> DEFINE r == RemoveFirst(l, h)
           g == unlinked(f, h)
<1>1. /\ g \in CallRecs /\ g.type = f.type /\ g.due = f.due \ {h} /\ g.called = f.called \ {h}
      /\ g.lp = IF f.lp = h THEN NoHook ELSE f.lp
  BY DEF CallRecs, unlinked
<1>a. SUFFICES ASSUME g.lp # NoHook PROVE CallRight(g, r)
  BY <1>1 DEF CallRight
<1>2. g.lp = f.lp /\ f.lp # h /\ f.lp # NoHook /\ f.lp \in Range(l) /\ f.due \subseteq Range(l)
  BY <1>1, <1>a DEF CallRight
<1>3. r \in Seq(HookIds) /\ Range(r) = Range(l) \ {h} /\ \E at : Thins(r, l, at)
  BY RemoveFirstSpec
<1>4. PICK at : Thins(r, l, at)
  BY <1>3
<1> HIDE DEF r, g
<1>6. ASSUME NEW i \in 1 .. Len(r), NEW j \in 1 .. Len(r), r[j] = g.lp
      PROVE  /\ i <= j /\ r[i] \in g.due => r[i] \in g.called
             /\ i > j => r[i] \in g.due /\ r[i] \notin g.called
  <2>1. at[i] \in 1 .. Len(l) /\ at[j] \in 1 .. Len(l) /\ r[i] = l[at[i]] /\ l[at[j]] = f.lp
    BY <1>4, <1>2, <1>6 DEF Thins
  <2>2. (i < j => at[i] < at[j]) /\ (j < i => at[j] < at[i]) /\ (i = j => at[i] = at[j])
    BY <1>4 DEF Thins
  <2>3. /\ i <= j => at[i] <= at[j]
        /\ i > j => at[i] > at[j]
    <3>1. Len(r) \in Nat /\ Len(l) \in Nat
      BY <1>3
    <3> QED BY <2>1, <2>2, <3>1
  <2>4. r[i] # h
    <3>1. r[i] \in Range(r)
      BY <1>3 DEF Range
    <3> QED BY <1>3, <3>1
  <2>5. /\ at[i] <= at[j] /\ l[at[i]] \in f.due => l[at[i]] \in f.called
        /\ at[i] > at[j] => l[at[i]] \in f.due /\ l[at[i]] \notin f.called
    BY <1>2, <2>1 DEF CallRight
  <2> QED BY <1>1, <1>2, <2>1, <2>3, <2>4, <2>5
<1>7. g.lp \in Range(r) /\ g.due \subseteq Range(r)
  BY <1>1, <1>2, <1>3
<1> QED BY <1>6, <1>7 DEF CallRight

\* call_hooks goes on to the next hook of the list.
LEMMA CallNext ==
  ASSUME NEW l \in Seq(HookIds), IsInjective(l), NEW f \in CallRecs, CallRight(f, l),
         f.lp # NoHook, NEW i \in 1 .. Len(l) - 1, l[i] = f.lp, NEW e, e = l[i + 1],
         NEW g, g.lp = e, g.due = f.due, g.called = f.called \cup {e}
  PROVE  CallRight(g, l)
<1>1. f.lp \in Range(l) /\ f.due \subseteq Range(l)
  BY DEF CallRight
<1>2. Len(l) \in Nat /\ i \in 1 .. Len(l) /\ i + 1 \in 1 .. Len(l) /\ e \in HookIds /\ e \in Range(l)
  BY DEF Range
<1>3. e \in f.due /\ e \notin f.called
  BY <1>2 DEF CallRight
<1>6. ASSUME NEW a \in 1 .. Len(l), NEW b \in 1 .. Len(l), l[b] = g.lp
      PROVE  /\ a <= b /\ l[a] \in g.due => l[a] \in g.called
             /\ a > b => l[a] \in g.due /\ l[a] \notin g.called
  <2>1. b = i + 1
    BY <1>2, <1>6 DEF IsInjective
  <2>2. /\ a <= i /\ l[a] \in f.due => l[a] \in f.called
        /\ a > i => l[a] \in f.due /\ l[a] \notin f.called
    BY <1>2 DEF CallRight
  <2>3. a > b => l[a] # e
    BY <1>2, <2>1 DEF IsInjective
  <2>4. a <= b => a <= i \/ l[a] = e
    BY <1>2, <2>1
  <2>5. a > b => a > i
    BY <1>2, <2>1
  <2> QED BY <2>2, <2>3, <2>4, <2>5
<1> QED BY <1>1, <1>2, <1>6 DEF CallRight

\* call_hooks begins.
LEMMA CallBegins ==
  ASSUME NEW l \in Seq(HookIds), IsInjective(l), l # << >>, NEW t \in HookTypes, NEW m \in Mods,
         NEW f, f = [type |-> t, mod |-> m, lp |-> Head(l), due |-> Range(l), called |-> {Head(l)}]
  PROVE  f \in CallRecs /\ f.type = t /\ CallRight(f, l)
<1>1. Len(l) \in Nat /\ 1 \in 1 .. Len(l) /\ Head(l) = l[1] /\ l[1] \in HookIds /\ DOMAIN l = 1 .. Len(l)
  OBVIOUS
<1>2. Range(l) \subseteq HookIds /\ \A i \in 1 .. Len(l) : l[i] \in Range(l)
  BY <1>1 DEF Range
<1>4. f.type = t /\ f.lp = l[1] /\ f.due = Range(l) /\ f.called = {l[1]} /\ f \in CallRecs
  BY <1>1, <1>2 DEF CallRecs
<1>5. ASSUME NEW i \in 1 .. Len(l), NEW j \in 1 .. Len(l), l[j] = f.lp
      PROVE  /\ i <= j /\ l[i] \in f.due => l[i] \in f.called
             /\ i > j => l[i] \in f.due /\ l[i] \notin f.called
  <2>1. j = 1
    BY <1>1, <1>4, <1>5 DEF IsInjective
  <2>2. i > j => l[i] # l[1]
    BY <1>1, <2>1 DEF IsInjective
  <2>3. i <= j => i = 1
    BY <1>1, <2>1
  <2> QED BY <1>2, <1>4, <2>2, <2>3
<1>6. f.lp \in Range(l)
  BY <1>1, <1>2, <1>4
<1>7. CallRight(f, l)
  BY <1>4, <1>5, <1>6 DEF CallRight
<1> QED BY <1>4, <1>7

----------------------------------------------------------------------------
\* The hooks in the lists have owners.
LEMMA HookOwners ==
  ASSUME hook \in [HookIds -> HookRecs \cup {NoHook}], hooklist \in [HookTypes -> Seq(HookIds)],
         ListsRight
  PROVE  \A t \in HookTypes : \A h \in Range(hooklist[t]) : hook[h].owner \in Mods
<1>1. ASSUME NEW t \in HookTypes, NEW h \in Range(hooklist[t]) PROVE hook[h].owner \in Mods
  <2>1. h \in HookIds
    BY DEF Range
  <2>2. hook[h] # NoHook
    BY <2>1 DEF ListsRight
  <2>3. hook[h] \in HookRecs
    BY <2>1, <2>2
  <2> QED BY <2>3 DEF HookRecs
<1> QED BY <1>1

\* The calls around the innermost one.
LEMMA FrontLast ==
  ASSUME NEW cs \in Seq(CallRecs), cs # << >>
  PROVE  /\ Last(cs) \in CallRecs /\ Last(cs) = cs[Len(cs)] /\ Len(cs) \in 1 .. Len(cs)
         /\ Front(cs) \in Seq(CallRecs) /\ Len(Front(cs)) = Len(cs) - 1 /\ Len(Front(cs)) \in Nat
         /\ \A k \in 1 .. Len(Front(cs)) : Front(cs)[k] = cs[k] /\ k \in 1 .. Len(cs)
<1> DEFINE q == Front(cs)
<1>0. Len(cs) \in Nat \ {0} /\ Last(cs) = cs[Len(cs)] /\ Len(cs) \in 1 .. Len(cs) /\ Last(cs) \in CallRecs
  BY DEF Last
<1>1. q = SubSeq(cs, 1, Len(cs) - 1)
  BY SMTT(30) DEF Front
<1>2. PICK n \in Nat : Len(cs) = n + 1
  <2>1. Len(cs) - 1 \in Nat /\ Len(cs) = (Len(cs) - 1) + 1
    BY <1>0
  <2> QED BY <2>1
<1>3. Len(cs) - 1 = n
  BY <1>2
<1>4. /\ SubSeq(cs, 1, n) \in Seq(CallRecs) /\ Len(SubSeq(cs, 1, n)) = n
      /\ \A k \in 1 .. n : SubSeq(cs, 1, n)[k] = cs[k]
  BY <1>2
<1> QED BY <1>0, <1>1, <1>2, <1>3, <1>4

\* Begin in a state with right lists.
LEMMA BeginsRight ==
  ASSUME NEW lists \in [HookTypes -> Seq(HookIds)], \A t \in HookTypes : IsInjective(lists[t]),
         NEW cs \in Seq(CallRecs), \A k \in 1 .. Len(cs) : CallRight(cs[k], lists[cs[k].type]),
         NEW t \in HookTypes, \A h \in Range(lists[t]) : hook[h].owner \in Mods
  PROVE  /\ Begin(cs, lists, t) \in Seq(CallRecs)
         /\ \A k \in 1 .. Len(Begin(cs, lists, t)) :
              CallRight(Begin(cs, lists, t)[k], lists[Begin(cs, lists, t)[k].type])
<1>1. CASE lists[t] = << >>
  BY <1>1 DEF Begin
<1>2. CASE lists[t] # << >>
  <2> DEFINE l == lists[t]
             m == hook[Head(l)].owner
             f == [type |-> t, mod |-> m, lp |-> Head(l), due |-> Range(l), called |-> {Head(l)}]
             r == Append(cs, f)
  <2>1. f \in CallRecs /\ f.type = t /\ CallRight(f, l)
    <3>1. l \in Seq(HookIds) /\ IsInjective(l) /\ l # << >>
      BY <1>2
    <3>2. Head(l) \in Range(l)
      <4>1. l # << >> /\ l \in Seq(HookIds)
        BY <3>1
      <4> HIDE DEF l
      <4>2. 1 \in DOMAIN l /\ Head(l) = l[1]
        BY <4>1
      <4> QED BY <4>2 DEF Range
    <3>3. m \in Mods
      BY <3>2
    <3>4. PICK g : g = f
      OBVIOUS
    <3> HIDE DEF l, m
    <3> QED BY <3>1, <3>3, <3>4, CallBegins
  <2>2. Begin(cs, lists, t) = r
    BY <1>2 DEF Begin
  <2> HIDE DEF f
  <2>3. /\ r \in Seq(CallRecs) /\ Len(r) = Len(cs) + 1 /\ r[Len(cs) + 1] = f /\ Len(cs) \in Nat
        /\ \A k \in 1 .. Len(cs) : r[k] = cs[k]
    BY <2>1
  <2> HIDE DEF r
  <2>4. ASSUME NEW k \in 1 .. Len(r) PROVE CallRight(r[k], lists[r[k].type])
    <3>1. CASE k \in 1 .. Len(cs)
      BY <2>3, <3>1
    <3>2. CASE k = Len(cs) + 1
      BY <2>1, <2>3, <3>2
    <3> QED BY <2>3, <3>1, <3>2
  <2> QED BY <2>2, <2>3, <2>4
<1> QED BY <1>1, <1>2

\* drop_all_hooks takes the hooks of m out of every list.
LEMMA DropsAll ==
  ASSUME CallsInv, NEW m \in Mods, drop_all_hooks(m)
  PROVE  /\ hook' \in [HookIds -> HookRecs \cup {NoHook}]
         /\ all_hooks' \in Seq(HookIds) /\ hooklist' \in [HookTypes -> Seq(HookIds)]
         /\ IsInjective(all_hooks') /\ \A t \in HookTypes : IsInjective(hooklist'[t])
         /\ \A h \in HookIds : h \in Range(all_hooks') <=> hook'[h] # NoHook
         /\ \A t \in HookTypes, h \in HookIds :
              h \in Range(hooklist'[t]) <=> hook'[h] # NoHook /\ hook'[h].type = t
         /\ \A h \in HookIds : hook'[h] # NoHook =>
              hook'[h] = hook[h] /\ hook[h].owner # m
<1> DEFINE D == Dropped(m)
           K == HookIds \ D
<1>1. /\ hook \in [HookIds -> HookRecs \cup {NoHook}]
      /\ all_hooks \in Seq(HookIds) /\ hooklist \in [HookTypes -> Seq(HookIds)]
  BY DEF CallsInv, HooksTypeOK
<1>2. /\ IsInjective(all_hooks) /\ \A h \in HookIds : h \in Range(all_hooks) <=> hook[h] # NoHook
      /\ \A t \in HookTypes : IsInjective(hooklist[t])
      /\ \A t \in HookTypes, h \in HookIds :
           h \in Range(hooklist[t]) <=> hook[h] # NoHook /\ hook[h].type = t
  BY DEF CallsInv, ListsRight
<1>3. /\ hooklist' = [t \in HookTypes |-> Keep(hooklist[t], K)]
      /\ all_hooks' = Keep(all_hooks, K)
      /\ hook' = [h \in HookIds |-> IF h \in D THEN NoHook ELSE hook[h]]
  BY DEF drop_all_hooks
<1>4. \A h \in HookIds : h \in D <=> hook[h] # NoHook /\ hook[h].owner = m
  BY DEF Dropped
<1> HIDE DEF D
<1>5. ASSUME NEW l \in Seq(HookIds), IsInjective(l)
      PROVE  Keep(l, K) \in Seq(HookIds) /\ IsInjective(Keep(l, K)) /\ Range(Keep(l, K)) = Range(l) \ D
  <2>1. /\ Keep(l, K) \in Seq(HookIds) /\ Range(Keep(l, K)) = Range(l) \cap K
        /\ \E at : Thins(Keep(l, K), l, at)
    BY KeepSpec
  <2>2. IsInjective(Keep(l, K))
    BY <1>5, <2>1, ThinnerList
  <2>3. Range(l) \subseteq HookIds
    BY DEF Range
  <2> QED BY <2>1, <2>2, <2>3
<1>6. /\ all_hooks' \in Seq(HookIds) /\ IsInjective(all_hooks') /\ Range(all_hooks') = Range(all_hooks) \ D
  BY <1>1, <1>2, <1>3, <1>5
<1>7. ASSUME NEW t \in HookTypes
      PROVE  /\ hooklist'[t] \in Seq(HookIds) /\ IsInjective(hooklist'[t])
             /\ Range(hooklist'[t]) = Range(hooklist[t]) \ D
  BY <1>1, <1>2, <1>3, <1>5
<1>8. hooklist' \in [HookTypes -> Seq(HookIds)]
  <2>1. hooklist' = [t \in HookTypes |-> hooklist'[t]]
    BY <1>3
  <2> QED BY <1>7, <2>1
<1>9. hook' \in [HookIds -> HookRecs \cup {NoHook}]
  BY <1>1, <1>3
<1>10. ASSUME NEW h \in HookIds
       PROVE  /\ h \in Range(all_hooks') <=> hook'[h] # NoHook
              /\ \A t \in HookTypes : h \in Range(hooklist'[t]) <=> hook'[h] # NoHook /\ hook'[h].type = t
              /\ hook'[h] # NoHook => hook'[h] = hook[h] /\ hook[h].owner # m
  <2>1. hook'[h] = IF h \in D THEN NoHook ELSE hook[h]
    BY <1>3
  <2> QED BY <1>2, <1>4, <1>6, <1>7, <2>1
<1> QED BY <1>6, <1>7, <1>8, <1>9, <1>10

\* Every step keeps the lists of hooks right, and the calls in them.
LEMMA CallsStep ==
  ASSUME HooksInv, [HooksNext]_hookVars
  PROVE  CallsInv'
<1>1. /\ module_list \in Seq(Mods) /\ hook \in [HookIds -> HookRecs \cup {NoHook}]
      /\ all_hooks \in Seq(HookIds) /\ hooklist \in [HookTypes -> Seq(HookIds)]
      /\ calls \in Seq(CallRecs) /\ (doing.step = "init" => doing.mod \in Mods)
  BY DEF HooksInv, CallsInv, HooksTypeOK
<1>2. ListsRight
  BY DEF HooksInv, CallsInv
<1>3. \A k \in 1 .. Len(calls) : CallRight(calls[k], hooklist[calls[k].type])
  BY DEF HooksInv, CallsInv
<1>4. \A t \in HookTypes : IsInjective(hooklist[t])
  BY <1>2 DEF ListsRight
<1>5. NoHook \notin HookRecs
  BY HooksAssumption
<1>7. \A t \in HookTypes : \A h \in Range(hooklist[t]) : hook[h].owner \in Mods
  BY <1>1, <1>2, HookOwners
<1>6. << >> \in Seq(CallRecs) /\ \A k \in 1 .. Len(<< >>) : FALSE
  OBVIOUS
<1>10. ASSUME NEW t \in {"access", "signoff"}, call_hooks(t) PROVE CallsInv'
  <2>1. /\ calls' = Begin(calls, hooklist, t) /\ t \in HookTypes
        /\ module_list' = module_list /\ hook' = hook /\ all_hooks' = all_hooks
        /\ hooklist' = hooklist /\ doing' = doing
    BY <1>10 DEF call_hooks, HookTypes
  <2>2. /\ calls' \in Seq(CallRecs)
        /\ \A k \in 1 .. Len(calls') : CallRight(calls'[k], hooklist[calls'[k].type])
    BY <1>1, <1>3, <1>4, <1>7, <2>1, BeginsRight
  <2>3. HooksTypeOK' /\ ListsRight'
    BY <1>1, <1>2, <2>1, <2>2 DEF HooksTypeOK, ListsRight
  <2> QED BY <2>1, <2>2, <2>3 DEF CallsInv
<1>11. ASSUME NEW flush \in BOOLEAN, hook_returns(flush) PROVE CallsInv'
  <2>0. PICK f, l : f = Last(calls) /\ l = hooklist[f.type]
    OBVIOUS
  <2>1. PICK i : i = CHOOSE k \in DOMAIN l : l[k] = f.lp
    OBVIOUS
  <2>2. /\ calls # << >> /\ f.lp # NoHook
        /\ calls' = IF flush \/ i = Len(l) THEN Front(calls)
                 ELSE Append(Front(calls), [f EXCEPT !.mod = hook[l[i + 1]].owner, !.lp = l[i + 1],
                                                     !.called = @ \cup {l[i + 1]}])
        /\ module_list' = module_list /\ hook' = hook /\ all_hooks' = all_hooks
        /\ hooklist' = hooklist /\ doing' = doing
    BY <1>11, <2>0, <2>1 DEF hook_returns
  <2>3. /\ f \in CallRecs /\ Len(calls) \in Nat \ {0} /\ f = calls[Len(calls)]
        /\ Len(calls) \in 1 .. Len(calls)
    BY <1>1, <2>0, <2>2 DEF Last
  <2>4. /\ f.type \in HookTypes /\ l \in Seq(HookIds) /\ IsInjective(l) /\ CallRight(f, l)
    <3>1. f.type \in HookTypes
      BY <2>3 DEF CallRecs
    <3> QED BY <1>1, <1>3, <1>4, <2>0, <2>3, <3>1
  <2>5. i \in 1 .. Len(l) /\ l[i] = f.lp /\ Len(l) \in Nat
    <3>1. \E j \in DOMAIN l : l[j] = f.lp
      BY <2>2, <2>4 DEF CallRight, Range
    <3> QED BY <2>1, <2>4, <3>1
  <2> DEFINE q == Front(calls)
  <2>6. /\ q \in Seq(CallRecs) /\ Len(q) = Len(calls) - 1 /\ Len(q) \in Nat
        /\ \A k \in 1 .. Len(q) : q[k] = calls[k] /\ k \in 1 .. Len(calls)
    BY <1>1, <2>2, FrontLast
  <2> HIDE DEF q
  <2>7. \A k \in 1 .. Len(q) : CallRight(q[k], hooklist[q[k].type])
    BY <1>3, <2>6
  <2>8. /\ calls' \in Seq(CallRecs)
        /\ \A k \in 1 .. Len(calls') : CallRight(calls'[k], hooklist[calls'[k].type])
    <3>1. CASE flush \/ i = Len(l)
      BY <2>2, <2>6, <2>7, <3>1 DEF q
    <3>2. CASE ~ (flush \/ i = Len(l))
      <4>0. PICK e, m : e = l[i + 1] /\ m = hook[e].owner
        OBVIOUS
      <4>d. PICK g : g = [f EXCEPT !.mod = m, !.lp = e, !.called = @ \cup {e}]
        OBVIOUS
      <4>1. i \in 1 .. Len(l) - 1
        BY <2>5, <3>2
      <4>a. e \in HookIds /\ m \in Mods
        <5>1. e \in Range(l)
          BY <2>4, <2>5, <4>0, <4>1 DEF Range
        <5>2. e \in HookIds
          BY <2>4, <2>5, <4>0, <4>1
        <5> QED BY <1>7, <2>0, <2>4, <4>0, <5>1, <5>2
      <4>b. f.lp # NoHook /\ f \in CallRecs
        BY <2>2, <2>3
      <4>c. /\ g \in CallRecs /\ g.type = f.type /\ g.lp = e
            /\ g.due = f.due /\ g.called = f.called \cup {e}
        BY <4>a, <4>b, <4>d, NoHookApart DEF CallRecs
      <4>2. g \in CallRecs /\ CallRight(g, l) /\ g.type = f.type
        BY <2>4, <2>5, <4>0, <4>1, <4>b, <4>c, CallNext
      <4>3. g.type = f.type
        BY <4>2
      <4>4. calls' = Append(q, g)
        BY <2>2, <3>2, <4>0, <4>d DEF q
      <4>5. /\ calls' \in Seq(CallRecs) /\ Len(calls') = Len(q) + 1 /\ calls'[Len(q) + 1] = g
            /\ \A k \in 1 .. Len(q) : calls'[k] = q[k]
        BY <2>6, <4>2, <4>4
      <4>6. ASSUME NEW k \in 1 .. Len(calls') PROVE CallRight(calls'[k], hooklist[calls'[k].type])
        <5>1. CASE k \in 1 .. Len(q)
          BY <2>7, <4>5, <5>1
        <5>2. CASE k = Len(q) + 1
          BY <2>0, <4>2, <4>3, <4>5, <5>2
        <5> QED BY <2>6, <4>5, <5>1, <5>2
      <4> QED BY <4>5, <4>6
    <3> QED BY <3>1, <3>2
  <2>9. HooksTypeOK' /\ ListsRight'
    BY <1>1, <1>2, <2>2, <2>8 DEF HooksTypeOK, ListsRight
  <2> QED BY <2>2, <2>8, <2>9 DEF CallsInv
<1>12. ASSUME NEW m \in Mods, NEW h \in HookIds, NEW t \in HookTypes, bircmodule_add_hook(m, h, t)
       PROVE  CallsInv'
  <2> DEFINE a == <<h>> \o all_hooks
             l == <<h>> \o hooklist[t]
             e == [owner |-> m, type |-> t]
  <2>1. /\ Running(m) /\ m \in Range(module_list) /\ hook[h] = NoHook
        /\ hook' = [hook EXCEPT ![h] = e] /\ all_hooks' = a
        /\ hooklist' = [hooklist EXCEPT ![t] = l]
        /\ module_list' = module_list /\ calls' = calls /\ doing' = doing
    BY <1>12 DEF bircmodule_add_hook
  <2>2. e \in HookRecs /\ e # NoHook /\ e.owner = m /\ e.type = t
    BY <1>5 DEF HookRecs
  <2>3. /\ \A g \in HookIds : g \in Range(all_hooks) <=> hook[g] # NoHook
        /\ IsInjective(all_hooks)
        /\ \A u \in HookTypes, g \in HookIds :
             g \in Range(hooklist[u]) <=> hook[g] # NoHook /\ hook[g].type = u
        /\ \A g \in HookIds : hook[g] # NoHook =>
             /\ hook[g].owner \in Range(module_list)
             /\ doing.step = "unload" => hook[g].owner # doing.mod
    BY <1>2 DEF ListsRight
  <2>4. a \in Seq(HookIds) /\ IsInjective(a) /\ Range(a) = Range(all_hooks) \cup {h}
    BY <1>1, <2>1, <2>3, PushSpec
  <2>5. l \in Seq(HookIds) /\ IsInjective(l) /\ Range(l) = Range(hooklist[t]) \cup {h}
    BY <1>1, <1>4, <2>1, <2>3, PushSpec
  <2>6. ASSUME doing.step = "unload" PROVE m # doing.mod
    <3>1. CASE calls = << >>
      <4>1. doing.step = "init"
        BY <2>1, <3>1 DEF Running
      <4> QED BY <2>6, <4>1
    <3>2. CASE calls # << >>
      <4>1. Last(calls).mod = m
        BY <2>1, <3>2 DEF Running
      <4>2. Last(calls) = calls[Len(calls)] /\ Len(calls) \in 1 .. Len(calls)
        BY <1>1, <3>2 DEF Last
      <4> QED BY <2>6, <4>1, <4>2 DEF HooksInv, RunsRight
    <3> QED BY <3>1, <3>2
  <2> HIDE DEF a, l, e
  <2>7. HooksTypeOK'
    BY <1>1, <2>1, <2>2, <2>4, <2>5 DEF HooksTypeOK
  <2>8. /\ hook'[h] = e /\ \A g \in HookIds : g # h => hook'[g] = hook[g]
        /\ hooklist'[t] = l /\ \A u \in HookTypes : u # t => hooklist'[u] = hooklist[u]
    BY <1>1, <2>1
  <2>9. ListsRight'
    <3>1. \A g \in HookIds : g \in Range(all_hooks') <=> hook'[g] # NoHook
      BY <2>1, <2>2, <2>3, <2>4, <2>8
    <3>2. \A u \in HookTypes : IsInjective(hooklist'[u])
      BY <1>4, <2>5, <2>8
    <3>3. ASSUME NEW u \in HookTypes, NEW g \in HookIds
          PROVE  g \in Range(hooklist'[u]) <=> hook'[g] # NoHook /\ hook'[g].type = u
      <4>1. CASE g = h
        BY <2>1, <2>2, <2>3, <2>5, <2>8, <4>1
      <4>2. CASE g # h
        BY <2>3, <2>5, <2>8, <4>2
      <4> QED BY <4>1, <4>2
    <3>4. ASSUME NEW g \in HookIds, hook'[g] # NoHook
          PROVE  /\ hook'[g].owner \in Range(module_list')
                 /\ doing'.step = "unload" => hook'[g].owner # doing'.mod
      <4>1. CASE g = h
        BY <2>1, <2>2, <2>6, <2>8, <4>1
      <4>2. CASE g # h
        BY <2>1, <2>3, <2>8, <3>4, <4>2
      <4> QED BY <4>1, <4>2
    <3>5. IsInjective(module_list') /\ IsInjective(all_hooks')
      BY <1>2, <2>1, <2>4 DEF ListsRight
    <3> QED BY <3>1, <3>2, <3>3, <3>4, <3>5 DEF ListsRight
  <2>10. ASSUME NEW k \in 1 .. Len(calls) PROVE CallRight(calls[k], hooklist'[calls[k].type])
    <3>0. calls[k] \in CallRecs
      BY <1>1
    <3>1. calls[k] \in CallRecs /\ calls[k].type \in HookTypes
      BY <3>0 DEF CallRecs
    <3>2. CASE calls[k].type = t
      <4>1. CallRight(calls[k], hooklist[t]) /\ h \notin Range(hooklist[t]) /\ hooklist[t] \in Seq(HookIds)
        BY <1>1, <1>3, <2>1, <2>3, <3>2
      <4> QED BY <2>8, <3>1, <3>2, <4>1, CallPush DEF l
    <3>3. CASE calls[k].type # t
      BY <1>3, <2>8, <3>1, <3>3
    <3> QED BY <3>2, <3>3
  <2> QED BY <2>1, <2>7, <2>9, <2>10 DEF CallsInv
<1>13. ASSUME NEW m \in Mods, NEW h \in HookIds, bircmodule_del_hook(m, h) PROVE CallsInv'
  <2> DEFINE a == RemoveFirst(all_hooks, h)
             l == RemoveFirst(hooklist[hook[h].type], h)
             cut(f) == unlinked(f, h)
  <2>1. /\ hook[h] # NoHook
        /\ hooklist' = [hooklist EXCEPT ![hook[h].type] = l] /\ all_hooks' = a
        /\ hook' = [hook EXCEPT ![h] = NoHook]
        /\ calls' = [k \in DOMAIN calls |-> cut(calls[k])]
        /\ module_list' = module_list /\ doing' = doing
    BY <1>13 DEF bircmodule_del_hook
  <2>2. hook[h] \in HookRecs /\ hook[h].type \in HookTypes
    <3>1. hook[h] \in HookRecs
      BY <1>1, <2>1
    <3> QED BY <3>1 DEF HookRecs
  <2>3. /\ \A g \in HookIds : g \in Range(all_hooks) <=> hook[g] # NoHook
        /\ IsInjective(all_hooks)
        /\ \A u \in HookTypes, g \in HookIds :
             g \in Range(hooklist[u]) <=> hook[g] # NoHook /\ hook[g].type = u
        /\ \A g \in HookIds : hook[g] # NoHook =>
             /\ hook[g].owner \in Range(module_list)
             /\ doing.step = "unload" => hook[g].owner # doing.mod
    BY <1>2 DEF ListsRight
  <2>4. a \in Seq(HookIds) /\ IsInjective(a) /\ Range(a) = Range(all_hooks) \ {h}
    BY <1>1, <2>3, RemoveFirstSpec
  <2>5. ASSUME NEW u \in HookTypes
        PROVE  /\ hooklist'[u] = RemoveFirst(hooklist[u], h)
               /\ hooklist'[u] \in Seq(HookIds) /\ IsInjective(hooklist'[u])
               /\ Range(hooklist'[u]) = Range(hooklist[u]) \ {h}
    <3>1. hooklist'[u] = RemoveFirst(hooklist[u], h)
      <4>1. CASE u = hook[h].type
        BY <1>1, <2>1, <4>1
      <4>2. CASE u # hook[h].type
        <5>1. h \notin Range(hooklist[u])
          BY <2>3, <4>2
        <5>2. ~ \E k \in 1 .. Len(hooklist[u]) : hooklist[u][k] = h
          BY <1>1, <5>1 DEF Range
        <5> QED BY <1>1, <2>1, <4>2, <5>2 DEF RemoveFirst
      <4> QED BY <4>1, <4>2
    <3> DEFINE s == hooklist[u]
    <3>2. s \in Seq(HookIds) /\ IsInjective(s)
      BY <1>1, <1>4
    <3> HIDE DEF s
    <3>3. LET r == RemoveFirst(s, h)
          IN r \in Seq(HookIds) /\ IsInjective(r) /\ Range(r) = Range(s) \ {h}
      BY <3>2, RemoveFirstSpec
    <3> QED BY <3>1, <3>3 DEF s
  <2> HIDE DEF a, l
  <2>6. ASSUME NEW k \in 1 .. Len(calls)
        PROVE  /\ cut(calls[k]) \in CallRecs /\ cut(calls[k]).type = calls[k].type
               /\ CallRight(cut(calls[k]), hooklist'[calls[k].type])
    <3>0. PICK f : f = calls[k]
      OBVIOUS
    <3>1. f \in CallRecs /\ CallRight(f, hooklist[f.type])
      BY <1>1, <1>3, <3>0
    <3>3. f.type \in HookTypes
      BY <3>1 DEF CallRecs
    <3>4. hooklist[f.type] \in Seq(HookIds) /\ IsInjective(hooklist[f.type])
      BY <1>1, <1>4, <3>3
    <3>5. cut(f) \in CallRecs /\ CallRight(cut(f), RemoveFirst(hooklist[f.type], h))
      BY <3>1, <3>4, CallRemove
    <3>6. cut(f).type = f.type
      BY <3>1, <3>4, CallRemove
    <3> HIDE DEF cut
    <3> QED BY <2>5, <3>0, <3>3, <3>5, <3>6
  <2>7. /\ calls' \in Seq(CallRecs)
        /\ \A k \in 1 .. Len(calls') : CallRight(calls'[k], hooklist'[calls'[k].type])
    <3> HIDE DEF cut
    <3>1. DOMAIN calls = 1 .. Len(calls) /\ Len(calls) \in Nat
      BY <1>1
    <3>2. calls' = [k \in 1 .. Len(calls) |-> cut(calls[k])]
      BY <2>1, <3>1
    <3>3. calls' \in [1 .. Len(calls) -> CallRecs]
      BY <2>6, <3>2
    <3>4. calls' \in Seq(CallRecs) /\ Len(calls') = Len(calls)
      BY <3>1, <3>3, SeqDef
    <3> QED BY <2>6, <3>2, <3>4
  <2>8. HooksTypeOK'
    <3>1. hooklist' = [u \in HookTypes |-> hooklist'[u]]
      BY <1>1, <2>1
    <3>2. hooklist' \in [HookTypes -> Seq(HookIds)]
      BY <2>5, <3>1
    <3> QED BY <1>1, <2>1, <2>4, <2>7, <3>2 DEF HooksTypeOK
  <2>9. ListsRight'
    <3>1. hook'[h] = NoHook /\ \A g \in HookIds : g # h => hook'[g] = hook[g]
      BY <1>1, <2>1
    <3>a. all_hooks' = a /\ module_list' = module_list /\ doing' = doing
      BY <2>1
    <3>2. \A g \in HookIds : g \in Range(all_hooks') <=> hook'[g] # NoHook
      <4>1. SUFFICES ASSUME NEW g \in HookIds PROVE g \in Range(a) <=> hook'[g] # NoHook
        BY <3>a, Zenon
      <4>2. g \in Range(all_hooks) <=> hook[g] # NoHook
        BY <2>3, Zenon
      <4>3. g \in Range(a) <=> g \in Range(all_hooks) /\ g # h
        BY <2>4, Zenon
      <4>4. CASE g = h
        BY <3>1, <4>3, <4>4, Zenon
      <4>5. CASE g # h
        BY <3>1, <4>2, <4>3, <4>5, Zenon
      <4> QED BY <4>4, <4>5
    <3>3. ASSUME NEW u \in HookTypes, NEW g \in HookIds
          PROVE  g \in Range(hooklist'[u]) <=> hook'[g] # NoHook /\ hook'[g].type = u
      <4>1. g \in Range(hooklist[u]) <=> hook[g] # NoHook /\ hook[g].type = u
        BY <2>3, Zenon
      <4>2. g \in Range(hooklist'[u]) <=> g \in Range(hooklist[u]) /\ g # h
        BY <2>5, Zenon
      <4>3. CASE g = h
        BY <3>1, <4>2, <4>3, Zenon
      <4>4. CASE g # h
        BY <3>1, <4>1, <4>2, <4>4, Zenon
      <4> QED BY <4>3, <4>4
    <3>4. ASSUME NEW g \in HookIds, hook'[g] # NoHook
          PROVE  /\ hook'[g].owner \in Range(module_list')
                 /\ doing'.step = "unload" => hook'[g].owner # doing'.mod
      <4>1. g # h /\ hook'[g] = hook[g] /\ hook[g] # NoHook
        BY <3>1, <3>4, Zenon
      <4>2. /\ hook[g].owner \in Range(module_list)
            /\ doing.step = "unload" => hook[g].owner # doing.mod
        BY <2>3, <4>1, Zenon
      <4> QED BY <3>a, <4>1, <4>2, Zenon
    <3>5. IsInjective(module_list') /\ IsInjective(all_hooks')
      BY <1>2, <2>1, <2>4 DEF ListsRight
    <3> QED BY <2>5, <3>2, <3>3, <3>4, <3>5 DEF ListsRight
  <2> QED BY <2>7, <2>8, <2>9 DEF CallsInv
<1>14. ASSUME NEW m \in Mods, load_module(m) PROVE CallsInv'
  <2> DEFINE l == <<m>> \o module_list
  <2>1. /\ m \notin Range(module_list) /\ module_list' = l /\ calls = << >>
        /\ doing' = [step |-> "init", mod |-> m]
        /\ hook' = hook /\ all_hooks' = all_hooks /\ hooklist' = hooklist /\ calls' = calls
    BY <1>14 DEF load_module
  <2>2. l \in Seq(Mods) /\ IsInjective(l) /\ Range(l) = Range(module_list) \cup {m}
    <3>1. IsInjective(module_list)
      BY <1>2 DEF ListsRight
    <3> QED BY <1>1, <2>1, <3>1, PushSpec
  <2> HIDE DEF l
  <2>3. doing'.step # "unload"
    BY <2>1
  <2>4. HooksTypeOK'
    BY <1>1, <2>1, <2>2 DEF HooksTypeOK
  <2>5. ListsRight'
    <3>1. ASSUME NEW g \in HookIds, hook'[g] # NoHook PROVE hook'[g].owner \in Range(module_list')
      BY <1>2, <2>1, <2>2, <3>1 DEF ListsRight
    <3> QED BY <1>2, <2>1, <2>2, <2>3, <3>1 DEF ListsRight
  <2> QED BY <1>6, <2>1, <2>4, <2>5 DEF CallsInv
<1>15. ASSUME NEW m \in Mods, unload_module(m) PROVE CallsInv'
  <2>1. /\ drop_all_hooks(m) /\ calls' = Begin(<< >>, hooklist', "unload")
        /\ doing' = [step |-> "unload", mod |-> m] /\ module_list' = module_list
    BY <1>15 DEF unload_module
  <2>2. /\ hook' \in [HookIds -> HookRecs \cup {NoHook}]
        /\ all_hooks' \in Seq(HookIds) /\ hooklist' \in [HookTypes -> Seq(HookIds)]
        /\ IsInjective(all_hooks') /\ \A t \in HookTypes : IsInjective(hooklist'[t])
        /\ \A h \in HookIds : h \in Range(all_hooks') <=> hook'[h] # NoHook
        /\ \A t \in HookTypes, h \in HookIds :
             h \in Range(hooklist'[t]) <=> hook'[h] # NoHook /\ hook'[h].type = t
        /\ \A h \in HookIds : hook'[h] # NoHook =>
             hook'[h] = hook[h] /\ hook[h].owner # m
    BY <2>1, DropsAll DEF HooksInv
  <2>3. /\ calls' \in Seq(CallRecs)
        /\ \A k \in 1 .. Len(calls') : CallRight(calls'[k], hooklist'[calls'[k].type])
    <3>1. "unload" \in HookTypes
      BY DEF HookTypes
    <3>2. \A h \in Range(hooklist'["unload"]) : hook[h].owner \in Mods
      <4>1. ASSUME NEW h \in Range(hooklist'["unload"]) PROVE hook[h].owner \in Mods
        <5>1. h \in HookIds
          BY <2>2, <3>1 DEF Range
        <5>2. hook'[h] # NoHook /\ hook'[h] = hook[h]
          BY <2>2, <3>1, <5>1
        <5>3. hook[h] \in HookRecs
          BY <1>1, <5>1, <5>2
        <5> QED BY <5>3 DEF HookRecs
      <4> QED BY <4>1
    <3> QED BY <1>6, <2>1, <2>2, <3>1, <3>2, BeginsRight
  <2>4. HooksTypeOK'
    BY <1>1, <2>1, <2>2, <2>3 DEF HooksTypeOK
  <2>5. ListsRight'
    <3>1. ASSUME NEW g \in HookIds, hook'[g] # NoHook
          PROVE  hook'[g].owner \in Range(module_list') /\ hook'[g].owner # doing'.mod
      BY <1>2, <2>1, <2>2, <3>1 DEF ListsRight
    <3>2. IsInjective(module_list')
      BY <1>2, <2>1 DEF ListsRight
    <3> QED BY <2>2, <3>1, <3>2 DEF ListsRight
  <2> QED BY <2>3, <2>4, <2>5 DEF CallsInv
<1>16. ASSUME destroy_module PROVE CallsInv'
  <2> DEFINE l == RemoveFirst(module_list, doing.mod)
  <2>1. /\ doing.step = "unload" /\ calls = << >> /\ module_list' = l /\ doing' = NoModule
        /\ hook' = hook /\ all_hooks' = all_hooks /\ hooklist' = hooklist /\ calls' = calls
    BY <1>16 DEF destroy_module
  <2>2. l \in Seq(Mods) /\ IsInjective(l) /\ Range(l) = Range(module_list) \ {doing.mod}
    <3>1. IsInjective(module_list)
      BY <1>2 DEF ListsRight
    <3> QED BY <1>1, <3>1, RemoveFirstSpec
  <2> HIDE DEF l
  <2>3. doing'.step # "unload"
    BY <2>1 DEF NoModule
  <2>4. HooksTypeOK'
    BY <1>1, <2>1, <2>2 DEF HooksTypeOK, NoModule
  <2>5. ListsRight'
    <3>1. ASSUME NEW g \in HookIds, hook'[g] # NoHook PROVE hook'[g].owner \in Range(module_list')
      BY <1>2, <2>1, <2>2, <3>1 DEF ListsRight
    <3> QED BY <1>2, <2>1, <2>2, <2>3, <3>1 DEF ListsRight
  <2> QED BY <1>6, <2>1, <2>4, <2>5 DEF CallsInv
<1>17. ASSUME module_init PROVE CallsInv'
  <2>0. calls = << >> /\ doing' = NoModule /\ doing'.step # "unload"
    BY <1>17 DEF module_init, NoModule
  <2>1. CASE /\ calls' = Begin(calls, hooklist, "load")
             /\ UNCHANGED <<module_list, hook, all_hooks, hooklist>>
    <3>1. /\ calls' \in Seq(CallRecs)
          /\ \A k \in 1 .. Len(calls') : CallRight(calls'[k], hooklist[calls'[k].type])
      <4>1. "load" \in HookTypes
        BY DEF HookTypes
      <4> QED BY <1>1, <1>3, <1>4, <1>7, <2>1, <4>1, BeginsRight
    <3>2. HooksTypeOK'
      BY <1>1, <2>0, <2>1, <3>1 DEF HooksTypeOK, NoModule
    <3>3. ListsRight'
      BY <1>2, <2>0, <2>1 DEF ListsRight
    <3> QED BY <2>1, <3>1, <3>2, <3>3 DEF CallsInv
  <2>2. CASE /\ drop_all_hooks(doing.mod) /\ module_list' = RemoveFirst(module_list, doing.mod)
             /\ UNCHANGED calls
    <3>1. doing.mod \in Mods
      BY <1>1, <1>17 DEF module_init
    <3>2. PICK m \in Mods : m = doing.mod
      BY <3>1
    <3>3. drop_all_hooks(m)
      BY <2>2, <3>2
    <3>4. /\ hook' \in [HookIds -> HookRecs \cup {NoHook}]
          /\ all_hooks' \in Seq(HookIds) /\ hooklist' \in [HookTypes -> Seq(HookIds)]
          /\ IsInjective(all_hooks') /\ \A t \in HookTypes : IsInjective(hooklist'[t])
          /\ \A h \in HookIds : h \in Range(all_hooks') <=> hook'[h] # NoHook
          /\ \A t \in HookTypes, h \in HookIds :
               h \in Range(hooklist'[t]) <=> hook'[h] # NoHook /\ hook'[h].type = t
          /\ \A h \in HookIds : hook'[h] # NoHook =>
               hook'[h] = hook[h] /\ hook[h].owner # m
      BY <3>3, DropsAll DEF HooksInv
    <3>5. /\ module_list' \in Seq(Mods) /\ IsInjective(module_list')
          /\ Range(module_list') = Range(module_list) \ {m}
      <4>1. IsInjective(module_list)
        BY <1>2 DEF ListsRight
      <4> QED BY <1>1, <2>2, <3>2, <4>1, RemoveFirstSpec
    <3>6. HooksTypeOK'
      BY <1>1, <2>0, <2>2, <3>4, <3>5 DEF HooksTypeOK, NoModule
    <3>7. ListsRight'
      <4>1. ASSUME NEW g \in HookIds, hook'[g] # NoHook PROVE hook'[g].owner \in Range(module_list')
        BY <1>2, <3>4, <3>5, <4>1 DEF ListsRight
      <4> QED BY <2>0, <3>4, <3>5, <4>1 DEF ListsRight
    <3> QED BY <1>6, <2>0, <2>2, <3>6, <3>7 DEF CallsInv
  <2> QED BY <1>17, <2>1, <2>2 DEF module_init
<1>19. ASSUME stray_returns PROVE CallsInv'
  <2>1. /\ calls # << >> /\ Last(calls).lp = NoHook
        /\ module_list' = module_list /\ hook' = hook /\ all_hooks' = all_hooks /\ hooklist' = hooklist
        /\ doing' = doing \/ doing' = Lost
    BY <1>19 DEF stray_returns
  <2>2. PICK f, q : f = Last(calls) /\ q = Front(calls)
    OBVIOUS
  <2>3. /\ f \in CallRecs /\ q \in Seq(CallRecs) /\ Len(q) \in Nat
        /\ \A k \in 1 .. Len(q) : q[k] = calls[k] /\ k \in 1 .. Len(calls)
    BY <1>1, <2>1, <2>2, FrontLast
  <2>4. \A k \in 1 .. Len(q) : CallRight(q[k], hooklist[q[k].type])
    BY <1>3, <2>3
  <2> DEFINE Goal == /\ calls' \in Seq(CallRecs)
                     /\ \A k \in 1 .. Len(calls') : CallRight(calls'[k], hooklist[calls'[k].type])
  <2>5. Goal
    <3>1. CASE calls' = q
      BY <2>3, <2>4, <3>1
    <3>2. CASE calls' = << >>
      BY <1>6, <3>2
    <3>3. ASSUME NEW h \in HookIds, hook[h] # NoHook,
                 calls' = Append(q, [f EXCEPT !.mod = hook[h].owner])
          PROVE  Goal
      <4>1. PICK g : g = [f EXCEPT !.mod = hook[h].owner]
        OBVIOUS
      <4>2. hook[h] \in HookRecs
        BY <1>1, <3>3
      <4>3. hook[h].owner \in Mods
        BY <4>2 DEF HookRecs
      <4>4. g \in CallRecs /\ g.lp = NoHook
        BY <2>1, <2>2, <2>3, <4>1, <4>3 DEF CallRecs
      <4>5. CallRight(g, hooklist[g.type])
        BY <4>4 DEF CallRight
      <4>6. /\ calls' \in Seq(CallRecs) /\ Len(calls') = Len(q) + 1 /\ calls'[Len(q) + 1] = g
            /\ \A k \in 1 .. Len(q) : calls'[k] = q[k]
        BY <2>3, <3>3, <4>1, <4>4
      <4>7. ASSUME NEW k \in 1 .. Len(calls') PROVE CallRight(calls'[k], hooklist[calls'[k].type])
        <5>1. CASE k \in 1 .. Len(q)
          BY <2>4, <4>6, <5>1
        <5>2. CASE k = Len(q) + 1
          BY <4>5, <4>6, <5>2
        <5> QED BY <2>3, <4>6, <5>1, <5>2
      <4> QED BY <4>6, <4>7
    <3> QED BY <1>19, <2>2, <3>1, <3>2, <3>3 DEF stray_returns
  <2>6. HooksTypeOK' /\ ListsRight'
    BY <1>1, <1>2, <2>1, <2>5 DEF HooksTypeOK, ListsRight, Lost
  <2> QED BY <2>1, <2>5, <2>6 DEF CallsInv
<1>18. ASSUME UNCHANGED hookVars PROVE CallsInv'
  <2>1. /\ module_list' = module_list /\ hook' = hook /\ all_hooks' = all_hooks
        /\ hooklist' = hooklist /\ doing' = doing /\ calls' = calls
    BY <1>18 DEF hookVars
  <2>2. HooksTypeOK' /\ ListsRight'
    BY <1>1, <1>2, <2>1 DEF HooksTypeOK, ListsRight
  <2> QED BY <1>3, <2>1, <2>2 DEF CallsInv
<1> QED BY <1>10, <1>11, <1>12, <1>13, <1>14, <1>15, <1>16, <1>17, <1>18, <1>19 DEF HooksNext

\* The call that begins runs the function of the first hook of its list.
LEMMA BeginRuns ==
  ASSUME NEW lists, NEW t \in HookTypes, lists[t] \in Seq(HookIds), NEW cs \in Seq(CallRecs),
         NEW k \in 1 .. Len(Begin(cs, lists, t))
  PROVE  LET f == Begin(cs, lists, t)[k]
         IN  \/ k \in 1 .. Len(cs) /\ f = cs[k]
             \/ f.lp \in Range(lists[t]) /\ f.mod = hook[f.lp].owner
<1>1. CASE lists[t] = << >>
  BY <1>1 DEF Begin
<1>2. CASE lists[t] # << >>
  <2>1. PICK g : g = [type |-> t, mod |-> hook[Head(lists[t])].owner, lp |-> Head(lists[t]),
                      due |-> Range(lists[t]), called |-> {Head(lists[t])}]
    OBVIOUS
  <2>2. Begin(cs, lists, t) = Append(cs, g)
    BY <1>2, <2>1 DEF Begin
  <2>3. 1 \in DOMAIN lists[t] /\ Head(lists[t]) = lists[t][1]
    BY <1>2
  <2>4. g.lp \in Range(lists[t]) /\ g.mod = hook[g.lp].owner
    BY <2>1, <2>3 DEF Range
  <2>5. \/ k \in 1 .. Len(cs) /\ Append(cs, g)[k] = cs[k]
        \/ Append(cs, g)[k] = g
    <3>1. Len(cs) \in Nat /\ k \in 1 .. Len(cs) + 1
      BY <2>2
    <3> QED BY <3>1
  <2> QED BY <2>2, <2>4, <2>5
<1> QED BY <1>1, <1>2

\* Every step keeps the functions that run those of the hooks the calls are at.
LEMMA RunsStep ==
  ASSUME HooksInv, CallsInv', [HooksNext]_hookVars
  PROVE  \A k \in 1 .. Len(calls') : RunsRight(calls[k])'
<1> SUFFICES ASSUME NEW k \in 1 .. Len(calls') PROVE RunsRight(calls[k])'
  OBVIOUS
<1>1. /\ module_list \in Seq(Mods) /\ hook \in [HookIds -> HookRecs \cup {NoHook}]
      /\ hooklist \in [HookTypes -> Seq(HookIds)] /\ calls \in Seq(CallRecs)
  BY DEF HooksInv, CallsInv, HooksTypeOK
<1>2. ListsRight
  BY DEF HooksInv, CallsInv
<1>3. \A j \in 1 .. Len(calls) :
        /\ calls[j].lp # NoHook => calls[j].mod = hook[calls[j].lp].owner
        /\ doing.step = "unload" => calls[j].mod # doing.mod
  BY DEF HooksInv, RunsRight
<1>4. \A t \in HookTypes : \A h \in Range(hooklist[t]) :
        h \in HookIds /\ (doing.step = "unload" => hook[h].owner # doing.mod)
  <2>1. ASSUME NEW t \in HookTypes, NEW h \in Range(hooklist[t])
        PROVE  h \in HookIds /\ (doing.step = "unload" => hook[h].owner # doing.mod)
    <3>1. h \in HookIds
      BY <1>1 DEF Range
    <3> QED BY <1>2, <3>1 DEF ListsRight
  <2> QED BY <2>1
<1>5. PICK g : g = calls'[k]
  OBVIOUS
<1> DEFINE Right == /\ g.lp # NoHook => g.mod = hook'[g.lp].owner
                    /\ doing'.step = "unload" => g.mod # doing'.mod
<1>6. SUFFICES Right
  BY <1>5 DEF RunsRight
<1>10. ASSUME NEW t \in {"access", "signoff"}, call_hooks(t) PROVE Right
  <2>1. calls' = Begin(calls, hooklist, t) /\ t \in HookTypes /\ hook' = hook /\ doing' = doing
    BY <1>10 DEF call_hooks, HookTypes
  <2>2. \/ k \in 1 .. Len(calls) /\ g = calls[k]
        \/ g.lp \in Range(hooklist[t]) /\ g.mod = hook[g.lp].owner
    BY <1>1, <1>5, <2>1, BeginRuns
  <2> QED BY <1>3, <1>4, <2>1, <2>2
<1>11. ASSUME NEW flush \in BOOLEAN, hook_returns(flush) PROVE Right
  <2>0. PICK f, l : f = Last(calls) /\ l = hooklist[f.type]
    OBVIOUS
  <2>1. PICK i : i = CHOOSE j \in DOMAIN l : l[j] = f.lp
    OBVIOUS
  <2>2. /\ calls # << >> /\ f.lp # NoHook /\ hook' = hook /\ doing' = doing
        /\ calls' = IF flush \/ i = Len(l) THEN Front(calls)
                 ELSE Append(Front(calls), [f EXCEPT !.mod = hook[l[i + 1]].owner, !.lp = l[i + 1],
                                                     !.called = @ \cup {l[i + 1]}])
    BY <1>11, <2>0, <2>1 DEF hook_returns
  <2>3. /\ f \in CallRecs /\ f = calls[Len(calls)] /\ Len(calls) \in 1 .. Len(calls)
        /\ Front(calls) \in Seq(CallRecs) /\ Len(Front(calls)) \in Nat
        /\ \A j \in 1 .. Len(Front(calls)) : Front(calls)[j] = calls[j] /\ j \in 1 .. Len(calls)
    BY <1>1, <2>0, <2>2, FrontLast
  <2>4. CASE k \in 1 .. Len(Front(calls)) /\ g = Front(calls)[k]
    BY <1>3, <2>2, <2>3, <2>4
  <2>5. CASE flush \/ i = Len(l)
    BY <1>5, <2>2, <2>4, <2>5
  <2>6. CASE ~ (flush \/ i = Len(l))
    <3>1. PICK e : e = [f EXCEPT !.mod = hook[l[i + 1]].owner, !.lp = l[i + 1],
                                 !.called = @ \cup {l[i + 1]}]
      OBVIOUS
    <3>2. calls' = Append(Front(calls), e)
      BY <2>2, <2>6, <3>1
    <3>3. (k \in 1 .. Len(Front(calls)) /\ g = Front(calls)[k]) \/ g = e
      BY <1>5, <2>3, <3>2
    <3>4. f.type \in HookTypes /\ e.lp = l[i + 1] /\ e.mod = hook[l[i + 1]].owner
      BY <2>3, <3>1 DEF CallRecs
    <3>5. l[i + 1] \in Range(l)
      <4>a. CallRight(f, l)
        BY <2>0, <2>3 DEF HooksInv, CallsInv
      <4>b. f.lp # NoHook
        BY <2>2
      <4>c. l \in Seq(HookIds)
        BY <1>1, <2>0, <3>4
      <4>1. l \in Seq(HookIds) /\ f.lp \in Range(l)
        BY <4>a, <4>b, <4>c DEF CallRight
      <4>2. i \in DOMAIN l
        BY <2>1, <4>1 DEF Range
      <4>3. i + 1 \in DOMAIN l
        BY <2>6, <4>1, <4>2
      <4> QED BY <4>3 DEF Range
    <3> QED BY <1>4, <2>0, <2>2, <2>4, <3>3, <3>4, <3>5
  <2> QED BY <2>5, <2>6
<1>12. ASSUME NEW m \in Mods, NEW h \in HookIds, NEW t \in HookTypes, bircmodule_add_hook(m, h, t)
       PROVE  Right
  <2>1. /\ hook[h] = NoHook /\ hook' = [hook EXCEPT ![h] = [owner |-> m, type |-> t]]
        /\ calls' = calls /\ doing' = doing
    BY <1>12 DEF bircmodule_add_hook
  <2>2. ASSUME g.lp # NoHook PROVE g.lp \in HookIds /\ hook[g.lp] # NoHook
    <3>1. g \in CallRecs /\ CallRight(g, hooklist[g.type])
      BY <1>1, <1>5, <2>1 DEF HooksInv, CallsInv
    <3>2. g.type \in HookTypes /\ g.lp \in HookIds /\ g.lp \in Range(hooklist[g.type])
      BY <2>2, <3>1 DEF CallRecs, CallRight
    <3> QED BY <1>2, <3>2 DEF ListsRight
  <2>3. g.lp # NoHook => hook'[g.lp] = hook[g.lp]
    BY <1>1, <2>1, <2>2
  <2> QED BY <1>3, <1>5, <2>1, <2>3
<1>13. ASSUME NEW m \in Mods, NEW h \in HookIds, bircmodule_del_hook(m, h) PROVE Right
  <2>1. /\ hook' = [hook EXCEPT ![h] = NoHook] /\ doing' = doing
        /\ calls' = [j \in DOMAIN calls |-> unlinked(calls[j], h)]
    BY <1>13 DEF bircmodule_del_hook
  <2>2. k \in 1 .. Len(calls) /\ g = unlinked(calls[k], h)
    <3>1. DOMAIN calls = 1 .. Len(calls) /\ Len(calls) \in Nat
      BY <1>1
    <3>2. calls' \in Seq(CallRecs)
      BY DEF CallsInv, HooksTypeOK
    <3>3. DOMAIN calls' = 1 .. Len(calls')
      BY <3>2
    <3>4. DOMAIN calls' = DOMAIN calls
      BY <2>1
    <3> QED BY <1>5, <2>1, <3>1, <3>3, <3>4
  <2>3. calls[k] \in CallRecs
    BY <1>1, <2>2
  <2>4. /\ g.mod = calls[k].mod /\ g.lp = IF calls[k].lp = h THEN NoHook ELSE calls[k].lp
        /\ calls[k].lp \in HookIds \cup {NoHook}
    BY <2>2, <2>3 DEF CallRecs, unlinked
  <2>5. g.lp # NoHook => hook'[g.lp] = hook[g.lp] /\ g.lp = calls[k].lp
    BY <1>1, <2>1, <2>4
  <2> QED BY <1>3, <2>1, <2>2, <2>4, <2>5
<1>14. ASSUME NEW m \in Mods, load_module(m) PROVE Right
  BY <1>14 DEF load_module
<1>15. ASSUME NEW m \in Mods, unload_module(m) PROVE Right
  <2>1. /\ drop_all_hooks(m) /\ calls' = Begin(<< >>, hooklist', "unload")
        /\ doing' = [step |-> "unload", mod |-> m]
    BY <1>15 DEF unload_module
  <2>2. /\ hooklist' \in [HookTypes -> Seq(HookIds)] /\ "unload" \in HookTypes
        /\ \A t \in HookTypes, h \in HookIds :
             h \in Range(hooklist'[t]) <=> hook'[h] # NoHook /\ hook'[h].type = t
        /\ \A h \in HookIds : hook'[h] # NoHook => hook'[h] = hook[h] /\ hook[h].owner # m
    BY <2>1, DropsAll DEF HooksInv, HookTypes
  <2>3. hooklist'["unload"] \in Seq(HookIds) /\ << >> \in Seq(CallRecs) /\ Len(<< >>) = 0
    BY <2>2
  <2>4. g.lp \in Range(hooklist'["unload"]) /\ g.mod = hook[g.lp].owner
    <3>1. PICK L : L = hooklist'
      OBVIOUS
    <3>2. k \in 1 .. Len(Begin(<< >>, L, "unload")) /\ g = Begin(<< >>, L, "unload")[k]
      BY <1>5, <2>1, <3>1
    <3>3. \/ k \in 1 .. Len(<< >>) /\ g = << >>[k]
          \/ g.lp \in Range(L["unload"]) /\ g.mod = hook[g.lp].owner
      <4>1. L["unload"] \in Seq(HookIds) /\ << >> \in Seq(CallRecs) /\ "unload" \in HookTypes
        BY <2>2, <2>3, <3>1
      <4> QED BY <3>2, <4>1, BeginRuns
    <3> QED BY <2>3, <3>1, <3>3
  <2>5. g.lp \in HookIds
    BY <2>3, <2>4 DEF Range
  <2> QED BY <2>1, <2>2, <2>4, <2>5
<1>16. ASSUME destroy_module PROVE Right
  BY <1>16 DEF destroy_module
<1>17. ASSUME module_init PROVE Right
  <2>0. calls = << >> /\ doing'.step # "unload"
    BY <1>17 DEF module_init, NoModule
  <2>1. CASE calls' = Begin(calls, hooklist, "load") /\ hook' = hook
    <3>1. "load" \in HookTypes
      BY DEF HookTypes
    <3>2. \/ k \in 1 .. Len(calls) /\ g = calls[k]
          \/ g.lp \in Range(hooklist["load"]) /\ g.mod = hook[g.lp].owner
      BY <1>1, <1>5, <2>1, <3>1, BeginRuns
    <3> QED BY <1>3, <2>0, <2>1, <3>2
  <2>2. CASE calls' = calls
    BY <2>0, <2>2
  <2> QED BY <1>17, <2>1, <2>2 DEF module_init
<1>18. ASSUME UNCHANGED hookVars PROVE Right
  BY <1>3, <1>5, <1>18 DEF hookVars
<1>19. ASSUME stray_returns PROVE Right
  <2>1. calls # << >> /\ Last(calls).lp = NoHook /\ hook' = hook
    BY <1>19 DEF stray_returns
  <2>2. /\ Last(calls) \in CallRecs /\ Front(calls) \in Seq(CallRecs) /\ Len(Front(calls)) \in Nat
        /\ \A j \in 1 .. Len(Front(calls)) : Front(calls)[j] = calls[j] /\ j \in 1 .. Len(calls)
    BY <1>1, <2>1, FrontLast
  <2>3. CASE k \in 1 .. Len(Front(calls)) /\ g = Front(calls)[k] /\ doing' = doing
    BY <1>3, <2>1, <2>2, <2>3
  <2>4. CASE calls' = Front(calls) /\ doing' = doing
    BY <1>5, <2>3, <2>4
  <2>5. ASSUME NEW h \in HookIds, hook[h] # NoHook, doing' = doing,
               calls' = Append(Front(calls), [Last(calls) EXCEPT !.mod = hook[h].owner])
        PROVE  Right
    <3>1. PICK e : e = [Last(calls) EXCEPT !.mod = hook[h].owner]
      OBVIOUS
    <3>2. e.lp = NoHook /\ e.mod = hook[h].owner
      BY <2>1, <2>2, <3>1 DEF CallRecs
    <3>3. (k \in 1 .. Len(Front(calls)) /\ g = Front(calls)[k]) \/ g = e
      BY <1>5, <2>2, <2>5, <3>1
    <3>4. doing.step = "unload" => hook[h].owner # doing.mod
      BY <1>2, <2>5 DEF ListsRight
    <3> QED BY <2>3, <2>5, <3>2, <3>3, <3>4
  <2>6. CASE calls' = << >>
    BY <2>6
  <2> QED BY <1>19, <2>4, <2>5, <2>6 DEF stray_returns
<1> QED BY <1>10, <1>11, <1>12, <1>13, <1>14, <1>15, <1>16, <1>17, <1>18, <1>19 DEF HooksNext

\* Every step keeps all of it.
LEMMA HooksStep ==
  ASSUME HooksInv, [HooksNext]_hookVars
  PROVE  HooksInv'
<1>1. CallsInv'
  BY CallsStep
<1>2. \A k \in 1 .. Len(calls') : RunsRight(calls[k])'
  BY <1>1, RunsStep
<1> QED BY <1>1, <1>2 DEF HooksInv

\* No module is loaded.
LEMMA HooksStart == HooksInit => HooksInv
<1> SUFFICES ASSUME HooksInit PROVE HooksInv
  OBVIOUS
<1>1. /\ << >> \in Seq(Mods) /\ << >> \in Seq(HookIds) /\ << >> \in Seq(CallRecs)
      /\ Range(<< >>) = {} /\ IsInjective(<< >>) /\ Len(<< >>) = 0
  BY DEF Range, IsInjective
<1>2. HooksTypeOK
  BY <1>1 DEF HooksInit, HooksTypeOK, NoModule
<1>3. ListsRight
  BY <1>1 DEF HooksInit, ListsRight
<1> QED BY <1>1, <1>2, <1>3 DEF HooksInit, HooksInv, CallsInv

\* Modules loaded and unloaded, hooks added and deleted, also by the functions
\* that call_hooks is calling: the lists of hooks never keep one of a module that
\* is gone, and a call reaches the hooks that were there for all of it, once,
\* unless the hook it is at is deleted, from where it goes astray (modules.c).
THEOREM HooksAlwaysRight == HooksSpec => []HooksRight
<1>1. ASSUME HooksInv PROVE HooksRight
  <2>1. ASSUME NEW h \in HookIds
        PROVE  /\ Cardinality({i \in DOMAIN all_hooks : all_hooks[i] = h}) = IF hook[h] = NoHook THEN 0 ELSE 1
               /\ hook[h] # NoHook => hook[h].owner \in Range(module_list)
    <3>1. all_hooks \in Seq(HookIds) /\ IsInjective(all_hooks)
          /\ (h \in Range(all_hooks) <=> hook[h] # NoHook)
          /\ (hook[h] # NoHook => hook[h].owner \in Range(module_list))
      BY <1>1 DEF HooksInv, CallsInv, HooksTypeOK, ListsRight
    <3> QED BY <3>1, CountedOnce
  <2>2. ASSUME NEW h \in HookIds, NEW t \in HookTypes
        PROVE  Cardinality({i \in DOMAIN hooklist[t] : hooklist[t][i] = h})
                 = IF hook[h] # NoHook /\ hook[h].type = t THEN 1 ELSE 0
    <3>1. hooklist[t] \in Seq(HookIds) /\ IsInjective(hooklist[t])
          /\ (h \in Range(hooklist[t]) <=> hook[h] # NoHook /\ hook[h].type = t)
      BY <1>1 DEF HooksInv, CallsInv, HooksTypeOK, ListsRight
    <3> QED BY <3>1, CountedOnce
  <2>3. ASSUME NEW k \in DOMAIN calls, calls[k].lp # NoHook
        PROVE  LET f == calls[k]
                   l == hooklist[f.type]
               IN /\ f.lp \in Range(l) /\ f.mod = hook[f.lp].owner
                  /\ \A i, j \in DOMAIN l : l[i] \in f.due /\ l[j] = f.lp =>
                       (i <= j <=> l[i] \in f.called)
    <3>0. PICK f, l : f = calls[k] /\ l = hooklist[f.type]
      OBVIOUS
    <3>a. calls \in Seq(CallRecs)
      BY <1>1 DEF HooksInv, CallsInv, HooksTypeOK
    <3>b. k \in 1 .. Len(calls) /\ calls[k] \in CallRecs
      BY <3>a
    <3>c. CallRight(calls[k], hooklist[calls[k].type])
      BY <1>1, <3>b DEF HooksInv, CallsInv
    <3>1. f \in CallRecs /\ CallRight(f, l)
      BY <3>0, <3>b, <3>c
    <3>2. f.type \in HookTypes
      BY <3>1 DEF CallRecs
    <3>3. l \in Seq(HookIds)
      BY <1>1, <3>0, <3>2 DEF HooksInv, CallsInv, HooksTypeOK
    <3>4. ASSUME NEW i \in DOMAIN l, NEW j \in DOMAIN l, l[i] \in f.due, l[j] = f.lp
          PROVE  i <= j <=> l[i] \in f.called
      <4>1. i \in 1 .. Len(l) /\ j \in 1 .. Len(l) /\ (i <= j <=> ~ (i > j))
        BY <3>3
      <4> QED BY <2>3, <3>0, <3>1, <3>4, <4>1 DEF CallRight
    <3>5. f.lp \in Range(l)
      BY <2>3, <3>0, <3>1 DEF CallRight
    <3>6. f.mod = hook[f.lp].owner
      BY <1>1, <2>3, <3>0, <3>b DEF HooksInv, RunsRight
    <3> QED BY <3>0, <3>4, <3>5, <3>6
  <2> QED BY <2>1, <2>2, <2>3 DEF HooksRight
<1>2. HooksInit => HooksInv
  BY HooksStart
<1>3. HooksInv /\ [HooksNext]_hookVars => HooksInv'
  BY HooksStep
<1> QED BY <1>1, <1>2, <1>3, PTL DEF HooksSpec

----------------------------------------------------------------------------
(* PRIVMSG.                                                                *)

----------------------------------------------------------------------------
(* m_message goes through its targets.                                     *)

Handlings == [by : Clients, ctcp : BOOLEAN, left : Seq(Clients \cup Chans)]

HandlingOK ==
  /\ mnow \in Nat /\ there \subseteq Clients /\ handling \in Handlings \cup {None}
  /\ handling # None => handling.by \in there /\ handling.left # << >>

\* The bounds on who comes and goes are bounds on clients.
LEMMA Movers == Leavers \subseteq Clients /\ Opering \subseteq Clients
BY MessageAssumption

\* m_message goes on with what is left of its targets, on behalf of a client who is there.
LEMMA HandlingStep ==
  ASSUME HandlingOK, [MessageNext]_messageVars
  PROVE  HandlingOK'
<1>1. /\ mnow \in Nat /\ there \subseteq Clients /\ handling \in Handlings \cup {None}
      /\ handling # None => handling.by \in there /\ handling.left # << >>
  BY DEF HandlingOK
<1>2. ASSUME NEW c \in Speakers, NEW ctcp \in BOOLEAN, NEW to \in Lists, m_message(c, ctcp, to)
      PROVE  HandlingOK'
  <2>1. /\ c \in there /\ handling' = [by |-> c, ctcp |-> ctcp /\ c \notin ULined, left |-> to]
        /\ there' = there /\ mnow' = mnow
    BY <1>2 DEF m_message
  <2>2. to \in Seq(Clients \cup Chans) /\ to # << >>
    BY MessageAssumption
  <2>3. handling' \in Handlings /\ handling'.by = c /\ handling'.left = to
    BY <1>1, <2>1, <2>2 DEF Handlings
  <2> QED BY <1>1, <2>1, <2>2, <2>3 DEF HandlingOK
<1>3. ASSUME NEW t, Handles(t), Stop \/ Continue PROVE HandlingOK'
  <2>1. handling \in Handlings /\ handling.by \in there /\ there' = there /\ mnow' = mnow
        /\ handling.left # << >>
    BY <1>1, <1>3 DEF Handles
  <2>2. CASE handling' = None
    BY <1>1, <2>1, <2>2 DEF HandlingOK
  <2>3. CASE handling' # None
    <3>1. handling' = [handling EXCEPT !.left = Tail(@)] /\ Tail(handling.left) # << >>
      BY <1>3, <2>3 DEF Stop, Continue
    <3>2. handling.left \in Seq(Clients \cup Chans) /\ handling.by \in Clients /\ handling.ctcp \in BOOLEAN
      BY <2>1 DEF Handlings
    <3>3. Tail(handling.left) \in Seq(Clients \cup Chans)
      BY <2>1, <3>2
    <3>4. handling' \in Handlings /\ handling'.by = handling.by /\ handling'.left = Tail(handling.left)
      BY <2>1, <3>1, <3>2, <3>3 DEF Handlings
    <3> QED BY <1>1, <2>1, <3>1, <3>4 DEF HandlingOK
  <2> QED BY <2>2, <2>3
<1>4. ASSUME NEW t \in Clients \cup Chans, message_channel(t) PROVE HandlingOK'
  <2>1. Handles(t) /\ (Stop \/ Continue)
    BY <1>4 DEF message_channel
  <2> QED BY <1>3, <2>1
<1>5. ASSUME NEW t \in Clients \cup Chans, message_client(t) PROVE HandlingOK'
  <2>1. Handles(t) /\ (Stop \/ Continue)
    BY <1>5 DEF message_client
  <2> QED BY <1>3, <2>1
<1>6. ASSUME NEW t \in Clients \cup Chans, free_channel(t) PROVE HandlingOK'
  <2>1. handling' = handling /\ there' = there /\ mnow' = mnow
    BY <1>6 DEF free_channel
  <2> QED BY <1>1, <2>1 DEF HandlingOK
<1>7. ASSUME NEW c \in Clients, FludExit(c) \/ FludArrive(c) \/ FludModes(c) PROVE HandlingOK'
  <2>1. handling = None /\ handling' = handling /\ there' \subseteq Clients /\ mnow' = mnow
    BY <1>1, <1>7 DEF FludExit, FludArrive, FludModes
  <2> QED BY <1>1, <2>1 DEF HandlingOK
<1>8. ASSUME MessageTick PROVE HandlingOK'
  <2>1. handling' = handling /\ there' = there /\ mnow' = mnow + 1
    BY <1>8 DEF MessageTick
  <2> QED BY <1>1, <2>1 DEF HandlingOK
<1>9. ASSUME UNCHANGED messageVars PROVE HandlingOK'
  <2>1. handling' = handling /\ there' = there /\ mnow' = mnow
    BY <1>9 DEF messageVars
  <2> QED BY <1>1, <2>1 DEF HandlingOK
<1> QED BY <1>2, <1>4, <1>5, <1>6, <1>7, <1>8, <1>9, Movers DEF MessageNext

----------------------------------------------------------------------------
(* The limit on targets.                                                   *)

TargetSlots == [cli : Clients \cup {None}, sent : Nat]
TargetsMet  == [to : Clients, life : Nat, at : Nat]

\* Whom a client addressed has a slot of its own, as recent as the message.
TargetsInv ==
  /\ HandlingOK
  /\ life \in [Clients -> Nat]
  /\ targets \in [Clients -> [1 .. TargetMax -> TargetSlots]]
  /\ reached \in [Clients -> SUBSET TargetsMet]
  /\ \A c \in Clients : \A e \in reached[c] :
       /\ e.at <= mnow
       /\ e.at >= mnow - TargetTime =>
            \E i \in 1 .. TargetMax : targets[c][i].cli = e.to /\ targets[c][i].sent >= e.at

\* The constants of the limits.
LEMMA TargetNumbers ==
  /\ TargetMax \in Nat /\ TargetMin \in 1 .. TargetMax /\ TargetTime \in Nat
  /\ FludTime \in Nat /\ FludNum \in Nat /\ Near \subseteq Clients /\ Chans \cap Clients = {}
BY MessageAssumption

\* check_target_limit takes a slot that no recent target needs.
LEMMA TargetTaken ==
  ASSUME TargetsInv, NEW c \in Clients, NEW d \in Clients, check_target_limit(c, d),
         mnow' = mnow, life' = life, HandlingOK'
  PROVE  TargetsInv'
<1>1. /\ targets \in [Clients -> [1 .. TargetMax -> TargetSlots]]
      /\ reached \in [Clients -> SUBSET TargetsMet] /\ mnow \in Nat
      /\ life \in [Clients -> Nat]
  BY DEF TargetsInv, HandlingOK
<1>2. \A b \in Clients : \A e \in reached[b] :
       /\ e.at <= mnow
       /\ e.at >= mnow - TargetTime =>
            \E i \in 1 .. TargetMax : targets[b][i].cli = e.to /\ targets[b][i].sent >= e.at
  BY DEF TargetsInv
<1>3. CASE c \notin Near \/ unlimited(c, d)
  <2>1. targets' = targets /\ reached' = reached
    BY <1>3 DEF check_target_limit
  <2> QED BY <1>1, <1>2, <2>1 DEF TargetsInv
<1>4. CASE ~ (c \notin Near \/ unlimited(c, d))
  <2>0. PICK i : i = CHOOSE j \in Usable(c, d) : \A k \in Usable(c, d) : j <= k
    OBVIOUS
  <2> DEFINE s == [cli |-> d, sent |-> mnow]
             n == [to |-> d, life |-> life[d], at |-> mnow]
  <2>1. /\ Usable(c, d) # {} /\ targets' = [targets EXCEPT ![c][i] = s]
        /\ reached' = [reached EXCEPT ![c] = @ \cup {n}]
    BY <1>4, <2>0 DEF check_target_limit
  <2>2. Usable(c, d) \subseteq 1 .. TargetMax
    BY TargetNumbers DEF Usable, max_targets
  <2>3. i \in Usable(c, d)
    <3>1. Usable(c, d) \in SUBSET Nat
      BY <2>2, TargetNumbers
    <3>2. \E j \in Usable(c, d) : \A k \in Usable(c, d) : j <= k
      BY <2>1, <3>1, Least
    <3> QED BY <2>0, <3>2
  <2>4. i \in 1 .. TargetMax /\ targets[c][i] \in TargetSlots
        /\ usable(targets[c][i], d)
    BY <1>1, <2>2, <2>3 DEF Usable
  <2>5. s \in TargetSlots /\ s.cli = d /\ s.sent = mnow /\ n \in TargetsMet
        /\ n.to = d /\ n.at = mnow
    BY <1>1 DEF TargetSlots, TargetsMet
  <2> HIDE DEF s, n
  <2>6. /\ targets' \in [Clients -> [1 .. TargetMax -> TargetSlots]]
        /\ reached' \in [Clients -> SUBSET TargetsMet]
    BY <1>1, <2>1, <2>4, <2>5
  <2>7. /\ targets'[c][i] = s /\ \A j \in 1 .. TargetMax : j # i => targets'[c][j] = targets[c][j]
        /\ \A b \in Clients : b # c => targets'[b] = targets[b] /\ reached'[b] = reached[b]
        /\ reached'[c] = reached[c] \cup {n}
    BY <1>1, <2>1, <2>4
  <2>8. ASSUME NEW b \in Clients, NEW e \in reached'[b]
        PROVE  /\ e.at <= mnow
               /\ e.at >= mnow - TargetTime =>
                    \E j \in 1 .. TargetMax : targets'[b][j].cli = e.to /\ targets'[b][j].sent >= e.at
    <3>1. CASE b # c
      BY <1>2, <2>7, <3>1
    <3>2. CASE b = c /\ e.to = d
      <4>1. e.at \in Nat /\ e.at <= mnow
        <5>1. e = n \/ e \in reached[c]
          BY <2>7, <3>2
        <5>2. e \in TargetsMet
          BY <2>6
        <5>3. e.at \in Nat
          BY <5>2 DEF TargetsMet
        <5> QED BY <1>1, <1>2, <2>5, <5>1, <5>3
      <4> QED BY <1>1, <2>4, <2>5, <2>7, <3>2, <4>1
    <3>3. CASE b = c /\ e.to # d
      <4>1. e \in reached[c] /\ e \in TargetsMet
        BY <1>1, <2>5, <2>7, <3>3
      <4>2. e.at \in Nat /\ e.to \in Clients /\ e.to # None
        BY <4>1, CommonAssumption DEF TargetsMet
      <4>3. SUFFICES ASSUME e.at >= mnow - TargetTime
                     PROVE  \E j \in 1 .. TargetMax : targets'[c][j].cli = e.to /\ targets'[c][j].sent >= e.at
        BY <1>2, <3>3, <4>1
      <4>4. PICK j \in 1 .. TargetMax : targets[c][j].cli = e.to /\ targets[c][j].sent >= e.at
        BY <1>2, <4>1, <4>3
      <4>5. j # i
        <5>1. targets[c][j].sent \in Nat
          BY <1>1 DEF TargetSlots
        <5>2. ~ (targets[c][j].sent < mnow - TargetTime)
          BY <1>1, <4>2, <4>3, <4>4, <5>1, TargetNumbers
        <5> QED BY <2>4, <3>3, <4>2, <4>4, <5>2 DEF usable
      <4> QED BY <2>7, <4>4, <4>5
    <3> QED BY <3>1, <3>2, <3>3
  <2> QED BY <2>6, <2>8 DEF TargetsInv
<1> QED BY <1>3, <1>4

\* Every step keeps a slot for every recent target.
LEMMA TargetsStep ==
  ASSUME TargetsInv, [MessageNext]_messageVars
  PROVE  TargetsInv'
<1>0. HandlingOK'
  BY HandlingStep DEF TargetsInv
<1>1. /\ targets \in [Clients -> [1 .. TargetMax -> TargetSlots]]
      /\ reached \in [Clients -> SUBSET TargetsMet]
      /\ mnow \in Nat /\ handling \in Handlings \cup {None} /\ life \in [Clients -> Nat]
  BY DEF TargetsInv, HandlingOK
<1>2. \A b \in Clients : \A e \in reached[b] :
       /\ e.at <= mnow
       /\ e.at >= mnow - TargetTime =>
            \E i \in 1 .. TargetMax : targets[b][i].cli = e.to /\ targets[b][i].sent >= e.at
  BY DEF TargetsInv
<1>3. ASSUME UNCHANGED <<targets, reached, mnow>>, life' \in [Clients -> Nat] PROVE TargetsInv'
  BY <1>0, <1>1, <1>2, <1>3 DEF TargetsInv
<1>4. ASSUME NEW c \in Speakers, NEW ctcp \in BOOLEAN, NEW to \in Lists, m_message(c, ctcp, to)
      PROVE  TargetsInv'
  BY <1>1, <1>3, <1>4 DEF m_message
<1>5. ASSUME NEW t \in Clients \cup Chans, message_channel(t) \/ free_channel(t) PROVE TargetsInv'
  BY <1>1, <1>3, <1>5 DEF message_channel, free_channel, Handles
<1>6. ASSUME NEW t \in Clients \cup Chans, message_client(t) PROVE TargetsInv'
  <2>1. t \in Clients /\ mnow' = mnow /\ handling # None /\ life' = life
    BY <1>6 DEF message_client, Handles
  <2>2. handling.by \in Clients
    BY <1>1, <2>1 DEF Handlings
  <2>3. UNCHANGED <<targets, reached>> \/ check_target_limit(handling.by, t)
    BY <1>6 DEF message_client
  <2>4. CASE UNCHANGED <<targets, reached>>
    BY <1>1, <1>3, <2>1, <2>4
  <2>5. CASE check_target_limit(handling.by, t)
    <3>1. PICK c \in Clients : c = handling.by
      BY <2>2
    <3>2. check_target_limit(c, t)
      BY <2>5, <3>1
    <3> QED BY <1>0, <2>1, <3>2, TargetTaken
  <2> QED BY <2>3, <2>4, <2>5
<1>7. ASSUME NEW c \in Clients, FludArrive(c) PROVE TargetsInv'
  <2>1. UNCHANGED <<targets, reached, mnow>> /\ life' = [life EXCEPT ![c] = @ + 1]
    BY <1>7 DEF FludArrive
  <2>2. life' \in [Clients -> Nat]
    BY <1>1, <2>1
  <2> QED BY <1>3, <2>1, <2>2
<1>11. ASSUME NEW c \in Clients, FludModes(c) PROVE TargetsInv'
  BY <1>1, <1>3, <1>11 DEF FludModes
<1>8. ASSUME NEW c \in Clients, FludExit(c) PROVE TargetsInv'
  <2>1. /\ targets' = [targets EXCEPT ![c] = [i \in 1 .. TargetMax |-> NoSlot]]
        /\ reached' = [reached EXCEPT ![c] = {}] /\ mnow' = mnow /\ life' = life
    BY <1>8 DEF FludExit
  <2>2. NoSlot \in TargetSlots
    BY DEF NoSlot, TargetSlots
  <2>3. /\ targets' \in [Clients -> [1 .. TargetMax -> TargetSlots]]
        /\ reached' \in [Clients -> SUBSET TargetsMet]
    BY <1>1, <2>1, <2>2
  <2>4. reached'[c] = {} /\ \A b \in Clients : b # c => targets'[b] = targets[b] /\ reached'[b] = reached[b]
    BY <1>1, <2>1
  <2> QED BY <1>0, <1>1, <1>2, <2>1, <2>3, <2>4 DEF TargetsInv
<1>9. ASSUME MessageTick PROVE TargetsInv'
  <2>1. /\ mnow' = mnow + 1 /\ targets' = targets /\ life' = life
        /\ reached' = [c \in Clients |-> {e \in reached[c] : e.at >= mnow' - TargetTime}]
    BY <1>9 DEF MessageTick
  <2>2. reached' \in [Clients -> SUBSET TargetsMet]
    BY <1>1, <2>1
  <2>3. ASSUME NEW b \in Clients, NEW e \in reached'[b]
        PROVE  /\ e.at <= mnow'
               /\ \E i \in 1 .. TargetMax : targets[b][i].cli = e.to /\ targets[b][i].sent >= e.at
    <3>1. e \in reached[b] /\ e.at >= mnow' - TargetTime
      BY <2>1
    <3>2. e.at \in Nat
      <4>1. e \in TargetsMet
        BY <1>1, <3>1
      <4> QED BY <4>1 DEF TargetsMet
    <3>3. e.at <= mnow' /\ e.at >= mnow - TargetTime
      BY <1>1, <1>2, <2>1, <3>1, <3>2, TargetNumbers
    <3> QED BY <1>2, <3>1, <3>3
  <2> QED BY <1>0, <1>1, <2>1, <2>2, <2>3 DEF TargetsInv
<1>10. ASSUME UNCHANGED messageVars PROVE TargetsInv'
  BY <1>1, <1>3, <1>10 DEF messageVars
<1> QED BY <1>4, <1>5, <1>6, <1>7, <1>8, <1>9, <1>10, <1>11, Movers DEF MessageNext

\* check_target_limit for every number of slots, every way to space messages
\* and every reuse of structures: under the limit nobody addresses more than
\* MSG_TARGET_MAX people in MSG_TARGET_TIME seconds, not counting those whose
\* structure went to another one of them.
THEOREM TargetsAlwaysBounded == MessageSpec => []TargetsBounded
<1>1. ASSUME MessageInit PROVE TargetsInv
  <2>1. NoSlot \in TargetSlots /\ FludBlock \in Nat
    BY MessageAssumption DEF NoSlot, TargetSlots
  <2>2. HandlingOK
    BY <1>1, <2>1 DEF MessageInit, HandlingOK
  <2> QED BY <1>1, <2>1, <2>2 DEF MessageInit, TargetsInv
<1>2. TargetsInv /\ [MessageNext]_messageVars => TargetsInv'
  BY TargetsStep
<1>3. ASSUME TargetsInv PROVE TargetsBounded
  <2> SUFFICES ASSUME NEW c \in Clients \cap Near
               PROVE  Cardinality(Addressed(c) \ Replaced(c)) <= TargetMax
    BY DEF TargetsBounded
  <2>0. PICK P, S, f : /\ P = Addressed(c) \ Replaced(c) /\ S = {p[1] : p \in P}
                       /\ f = [i \in 1 .. TargetMax |-> targets[c][i].cli]
    OBVIOUS
  <2>1. ASSUME NEW p \in Addressed(c)
        PROVE  /\ p[1] \in Clients /\ p[2] \in Nat /\ p = <<p[1], p[2]>>
               /\ \E i \in 1 .. TargetMax : f[i] = p[1]
    <3>1. PICK e \in reached[c] : e.at >= mnow - TargetTime /\ p = <<e.to, e.life>>
      BY DEF Addressed
    <3>2. e \in TargetsMet
      BY <1>3, <3>1 DEF TargetsInv
    <3>3. e.to \in Clients /\ e.life \in Nat /\ e.at \in Nat
      BY <3>2 DEF TargetsMet
    <3>4. PICK i \in 1 .. TargetMax : targets[c][i].cli = e.to
      BY <1>3, <3>1 DEF TargetsInv
    <3> QED BY <2>0, <3>1, <3>3, <3>4
  <2>2. ASSUME NEW x \in S PROVE \E i \in 1 .. TargetMax : f[i] = x
    <3>1. PICK p \in P : x = p[1]
      BY <2>0
    <3>2. p \in Addressed(c)
      BY <2>0, <3>1
    <3> QED BY <2>1, <3>1, <3>2
  <2>3. Cardinality(S) <= TargetMax /\ IsFiniteSet(S)
    BY <2>2, Slotted, TargetNumbers
  <2>4. ASSUME NEW p \in P, NEW q \in P, p[1] = q[1] PROVE p = q
    <3>1. p \in Addressed(c) /\ q \in Addressed(c) /\ p \notin Replaced(c) /\ q \notin Replaced(c)
      BY <2>0
    <3>2. ~ (q[2] > p[2]) /\ ~ (p[2] > q[2])
      BY <2>4, <3>1 DEF Replaced
    <3>3. p[2] = q[2]
      BY <2>1, <3>1, <3>2
    <3> QED BY <2>1, <2>4, <3>1, <3>3
  <2>5. IsFiniteSet(P) /\ Cardinality(P) <= Cardinality(S)
    <3> DEFINE g == [p \in P |-> p[1]]
    <3>1. g \in Injection(P, S)
      BY <2>0, <2>4 DEF Injection, IsInjective
    <3> HIDE DEF g
    <3> QED BY <2>3, <3>1, FS_Injection
  <2>6. Cardinality(P) \in Nat /\ Cardinality(S) \in Nat /\ TargetMax \in Nat
    BY <2>3, <2>5, FS_CardinalityType, TargetNumbers
  <2> QED BY <2>0, <2>3, <2>5, <2>6
<1> QED BY <1>1, <1>2, <1>3, PTL DEF MessageSpec

----------------------------------------------------------------------------
(* Protection against floods.                                              *)

FludRecs == [fluder : Clients, count : Nat, first_msg : Nat, last_msg : Nat]
PassRecs == [by : Clients, at : Nat]

\* The CTCPs of c, and those of the fluders in l that began after x.
By(c)       == {e \in PassRecs : e.by = c}
Fresh(l, x) == {e \in PassRecs : \E i \in 1 .. Len(l) : l[i].fluder = e.by /\ l[i].first_msg >= x}

\* Each CTCP that got through has its fluder in the list.
Noted(l, e) == \E i \in 1 .. Len(l) : l[i].fluder = e.by /\ l[i].last_msg >= e.at

\* The fluders l of a target and the CTCPs h that reached it until n.
FloodOK(l, h, n) ==
  /\ l \in Seq(FludRecs) /\ h \in Seq(PassRecs)
  /\ \A i, j \in 1 .. Len(l) : l[i].fluder = l[j].fluder => i = j
  /\ \A k \in 1 .. Len(h) : h[k].at <= n /\ h[k].at >= n - FludTime /\ Noted(l, h[k])
  /\ \A i \in 1 .. Len(l) : Cardinality(Occ(h, By(l[i].fluder))) <= l[i].count
  /\ Cardinality(Occ(h, Fresh(l, n - FludTime))) <= FludNum

\* The constants of the flood protection.
LEMMA FludNumbers ==
  /\ FludTime \in Nat /\ FludNum \in Nat /\ FludBlock \in Nat
  /\ Near \subseteq Clients /\ Chans \cap Clients = {}
BY MessageAssumption

\* Nothing is within the limit.
LEMMA NothingFloods == \A n : FloodOK(<< >>, << >>, n)
<1>1. \A P : Occ(<< >>, P) = {}
  BY DEF Occ
<1>2. Cardinality({}) = 0
  BY FS_EmptySet
<1>3. Len(<< >>) = 0 /\ << >> \in Seq(FludRecs) /\ << >> \in Seq(PassRecs)
  OBVIOUS
<1>4. \A P : Cardinality(Occ(<< >>, P)) <= FludNum
  BY <1>1, <1>2, FludNumbers
<1>5. \A i \in 1 .. Len(<< >>) : FALSE
  BY <1>3
<1> QED BY <1>3, <1>4, <1>5 DEF FloodOK

\* Time passes, fluders and CTCPs are forgotten.
LEMMA FloodLess ==
  ASSUME NEW l, NEW h, NEW n \in Nat, FloodOK(l, h, n), NEW m \in Nat, m >= n,
         NEW r \in Seq(FludRecs), NEW at, Thins(r, l, at),
         NEW g \in Seq(PassRecs), NEW bt, Thins(g, h, bt),
         \A k \in 1 .. Len(g) : g[k].at >= m - FludTime /\ Noted(r, g[k])
  PROVE  FloodOK(r, g, m)
<1>1. /\ l \in Seq(FludRecs) /\ h \in Seq(PassRecs)
      /\ \A i, j \in 1 .. Len(l) : l[i].fluder = l[j].fluder => i = j
      /\ \A k \in 1 .. Len(h) : h[k].at <= n
      /\ \A i \in 1 .. Len(l) : Cardinality(Occ(h, By(l[i].fluder))) <= l[i].count
      /\ Cardinality(Occ(h, Fresh(l, n - FludTime))) <= FludNum
  BY DEF FloodOK
<1>2. Len(r) \in Nat /\ Len(l) \in Nat /\ Len(g) \in Nat /\ Len(h) \in Nat
  BY <1>1
<1>3. \A i \in 1 .. Len(r) : at[i] \in 1 .. Len(l) /\ r[i] = l[at[i]]
  BY DEF Thins
<1>4. \A i \in 1 .. Len(g) : bt[i] \in 1 .. Len(h) /\ g[i] = h[bt[i]]
  BY DEF Thins
<1>5. ASSUME NEW i \in 1 .. Len(r), NEW j \in 1 .. Len(r), r[i].fluder = r[j].fluder PROVE i = j
  <2>0. at[i] \in 1 .. Len(l) /\ at[j] \in 1 .. Len(l) /\ l[at[i]].fluder = l[at[j]].fluder
    BY <1>3, <1>5
  <2>1. at[i] = at[j] /\ at[i] \in Nat
    BY <1>1, <1>2, <2>0
  <2>2. (i < j => at[i] < at[j]) /\ (j < i => at[j] < at[i])
    BY DEF Thins
  <2>3. ~ (at[i] < at[j]) /\ ~ (at[j] < at[i])
    BY <2>1
  <2>4. i \in Nat /\ j \in Nat
    BY <1>2
  <2> QED BY <2>2, <2>3, <2>4
<1>6. ASSUME NEW k \in 1 .. Len(g) PROVE g[k].at <= m
  <2>1. g[k].at <= n /\ g[k] \in PassRecs
    BY <1>1, <1>4, SMTT(30)
  <2>2. g[k].at \in Nat
    BY <2>1 DEF PassRecs
  <2> QED BY <2>1, <2>2
<1>7. \A P : Cardinality(Occ(g, P)) <= Cardinality(Occ(h, P)) /\ Cardinality(Occ(g, P)) \in Nat
        /\ Cardinality(Occ(h, P)) \in Nat
  BY <1>1, OccThins, OccFinite
<1>8. ASSUME NEW i \in 1 .. Len(r) PROVE Cardinality(Occ(g, By(r[i].fluder))) <= r[i].count
  <2>1. Cardinality(Occ(h, By(r[i].fluder))) <= r[i].count
    BY <1>1, <1>3
  <2>2. r[i] \in FludRecs
    BY <1>2
  <2>3. r[i].count \in Nat
    BY <2>2 DEF FludRecs
  <2> QED BY <1>7, <2>1, <2>3
<1>9. Cardinality(Occ(g, Fresh(r, m - FludTime))) <= FludNum
  <2>0. PICK P, Q : P = Fresh(r, m - FludTime) /\ Q = Fresh(l, n - FludTime)
    OBVIOUS
  <2>1. ASSUME NEW e \in P PROVE e \in Q
    <3>1. PICK i \in 1 .. Len(r) : r[i].fluder = e.by /\ r[i].first_msg >= m - FludTime
      BY <2>0 DEF Fresh
    <3>2. l[at[i]].fluder = e.by /\ l[at[i]].first_msg >= m - FludTime /\ at[i] \in 1 .. Len(l)
      BY <1>3, <3>1
    <3>3. l[at[i]] \in FludRecs
      BY <1>1, <3>2
    <3>4. l[at[i]].first_msg \in Nat
      BY <3>3 DEF FludRecs
    <3>5. l[at[i]].first_msg >= n - FludTime
      BY <3>2, <3>4, FludNumbers
    <3>6. e \in PassRecs
      BY <2>0 DEF Fresh
    <3> QED BY <2>0, <3>2, <3>5, <3>6 DEF Fresh
  <2>2. Cardinality(Occ(h, P)) <= Cardinality(Occ(h, Q))
    BY <1>1, <2>1, OccSubset
  <2>3. Cardinality(Occ(h, Q)) <= FludNum
    BY <1>1, <2>0
  <2>4. Cardinality(Occ(g, P)) <= FludNum
    BY <1>7, <2>2, <2>3, FludNumbers
  <2> QED BY <2>0, <2>4
<1> QED BY <1>5, <1>6, <1>8, <1>9 DEF FloodOK

\* What r is after a CTCP of c that list l knows already.
Recounted(r, l, c, n) ==
  /\ r \in Seq(FludRecs) /\ Len(r) = Len(l)
  /\ \A i \in 1 .. Len(l) :
       /\ r[i].fluder = l[i].fluder /\ r[i].first_msg = l[i].first_msg
       /\ l[i].fluder = c => r[i].last_msg = n /\ r[i].count = l[i].count + 1
       /\ l[i].fluder # c => r[i] = l[i]

\* ... and that is what check_for_flud makes of l.
LEMMA Recounts ==
  ASSUME NEW l \in Seq(FludRecs), NEW n \in Nat, NEW c
  PROVE  Recounted([i \in DOMAIN l |-> IF l[i].fluder = c
                       THEN [l[i] EXCEPT !.last_msg = n, !.count = @ + 1] ELSE l[i]], l, c, n)
<1>1. Len(l) \in Nat /\ DOMAIN l = 1 .. Len(l) /\ \A i \in 1 .. Len(l) : l[i] \in FludRecs
  OBVIOUS
<1> DEFINE f(e) == [e EXCEPT !.last_msg = n, !.count = @ + 1]
           g(e) == IF e.fluder = c THEN f(e) ELSE e
           r == [i \in DOMAIN l |-> g(l[i])]
<1>2. ASSUME NEW e \in FludRecs
      PROVE  /\ f(e) \in FludRecs /\ f(e).fluder = e.fluder /\ f(e).first_msg = e.first_msg
             /\ f(e).last_msg = n /\ f(e).count = e.count + 1
  <2>1. e.count \in Nat /\ e.count + 1 \in Nat
    BY DEF FludRecs
  <2>2. PICK d : d = [e EXCEPT !.last_msg = n]
    OBVIOUS
  <2>3. d \in FludRecs /\ d.fluder = e.fluder /\ d.first_msg = e.first_msg /\ d.last_msg = n /\ d.count = e.count
    BY <2>2 DEF FludRecs
  <2>4. PICK b : b = [d EXCEPT !.count = e.count + 1]
    OBVIOUS
  <2>5. b \in FludRecs /\ b.fluder = d.fluder /\ b.first_msg = d.first_msg /\ b.last_msg = n /\ b.count = e.count + 1
    BY <2>1, <2>3, <2>4 DEF FludRecs
  <2>6. f(e) = b
    BY <2>2, <2>3, <2>4
  <2> HIDE DEF f
  <2> QED BY <2>3, <2>5, <2>6
<1> HIDE DEF f
<1>3. ASSUME NEW e \in FludRecs
      PROVE  /\ g(e) \in FludRecs /\ g(e).fluder = e.fluder /\ g(e).first_msg = e.first_msg
             /\ e.fluder = c => g(e).last_msg = n /\ g(e).count = e.count + 1
             /\ e.fluder # c => g(e) = e
  BY <1>2
<1> HIDE DEF g
<1>4. \A i \in 1 .. Len(l) : r[i] = g(l[i])
  BY <1>1
<1>5. r \in [1 .. Len(l) -> FludRecs]
  BY <1>1, <1>3
<1>6. r \in Seq(FludRecs) /\ DOMAIN r = 1 .. Len(l)
  BY <1>1, <1>5, SeqDef
<1> HIDE DEF r
<1>7. DOMAIN r = 1 .. Len(r) /\ Len(r) \in Nat
  BY <1>6
<1>8. Len(r) = Len(l)
  BY <1>1, <1>6, <1>7
<1>9. Recounted(r, l, c, n)
  BY <1>1, <1>3, <1>4, <1>6, <1>8 DEF Recounted
<1> QED BY <1>9 DEF r, g, f

\* A fluder's entry counts one CTCP more.
LEMMA FloodCounts ==
  ASSUME NEW l, NEW h, NEW n \in Nat, FloodOK(l, h, n), NEW c \in Clients, c \in Fluders(l),
         NEW r, Recounted(r, l, c, n)
  PROVE  /\ FloodOK(r, h, n) /\ Fluders(r) = Fluders(l)
         /\ \E i \in 1 .. Len(r) : r[i].fluder = c /\ r[i].last_msg = n
                                   /\ Cardinality(Occ(h, By(c))) + 1 <= r[i].count
<1>1. /\ l \in Seq(FludRecs) /\ h \in Seq(PassRecs)
      /\ \A i, j \in 1 .. Len(l) : l[i].fluder = l[j].fluder => i = j
      /\ \A k \in 1 .. Len(h) : h[k].at <= n /\ h[k].at >= n - FludTime /\ Noted(l, h[k])
      /\ \A i \in 1 .. Len(l) : Cardinality(Occ(h, By(l[i].fluder))) <= l[i].count
      /\ Cardinality(Occ(h, Fresh(l, n - FludTime))) <= FludNum
  BY DEF FloodOK
<1>2. Len(l) \in Nat /\ DOMAIN l = 1 .. Len(l) /\ \A i \in 1 .. Len(l) : l[i] \in FludRecs
  BY <1>1
<1>3. \A i \in 1 .. Len(l) :
        /\ r[i].fluder = l[i].fluder /\ r[i].first_msg = l[i].first_msg
        /\ l[i].fluder = c => r[i].last_msg = n /\ r[i].count = l[i].count + 1
        /\ l[i].fluder # c => r[i] = l[i]
  BY DEF Recounted
<1>4. r \in Seq(FludRecs) /\ Len(r) = Len(l)
  BY DEF Recounted
<1>4a. DOMAIN r = 1 .. Len(l)
  BY <1>4
<1>5. Fluders(r) = Fluders(l)
  BY <1>2, <1>3, <1>4a DEF Fluders
<1>6. \A i, j \in 1 .. Len(r) : r[i].fluder = r[j].fluder => i = j
  BY <1>1, <1>3, <1>4
<1>7. ASSUME NEW k \in 1 .. Len(h)
      PROVE  h[k].at <= n /\ h[k].at >= n - FludTime /\ Noted(r, h[k])
  <2>1. h[k].at <= n /\ h[k].at >= n - FludTime
    BY <1>1
  <2>2. PICK i \in 1 .. Len(l) : l[i].fluder = h[k].by /\ l[i].last_msg >= h[k].at
    BY <1>1 DEF Noted
  <2>3. r[i].fluder = h[k].by /\ r[i].last_msg >= h[k].at
    BY <1>3, <2>1, <2>2
  <2> QED BY <1>4, <2>1, <2>3 DEF Noted
<1>8. ASSUME NEW i \in 1 .. Len(r)
      PROVE  /\ Cardinality(Occ(h, By(r[i].fluder))) <= r[i].count
             /\ l[i].fluder = c => Cardinality(Occ(h, By(c))) + 1 <= r[i].count
  <2>1. i \in 1 .. Len(l) /\ Cardinality(Occ(h, By(l[i].fluder))) <= l[i].count
    BY <1>1, <1>4
  <2>2. l[i].count \in Nat
    BY <1>2, <2>1 DEF FludRecs
  <2>3. PICK x : x = Cardinality(Occ(h, By(l[i].fluder)))
    OBVIOUS
  <2>4. x \in Nat
    BY <1>1, <2>3, OccFinite
  <2>5. r[i].fluder = l[i].fluder /\ (r[i].count = l[i].count \/ (r[i].count = l[i].count + 1))
        /\ (l[i].fluder = c => r[i].count = l[i].count + 1)
    BY <1>3, <2>1
  <2>6. x <= r[i].count /\ (l[i].fluder = c => x + 1 <= r[i].count)
    BY <2>1, <2>2, <2>3, <2>4, <2>5
  <2> QED BY <2>3, <2>5, <2>6
<1>9. Cardinality(Occ(h, Fresh(r, n - FludTime))) <= FludNum
  <2>1. \A e : e \in Fresh(r, n - FludTime) <=> e \in Fresh(l, n - FludTime)
    BY <1>3, <1>4 DEF Fresh
  <2>2. Fresh(r, n - FludTime) = Fresh(l, n - FludTime)
    BY <2>1
  <2> QED BY <1>1, <2>2
<1>10. FloodOK(r, h, n)
  BY <1>1, <1>4, <1>6, <1>7, <1>8, <1>9 DEF FloodOK
<1>11. PICK i \in 1 .. Len(l) : l[i].fluder = c
  BY <1>2 DEF Fluders
<1> QED BY <1>3, <1>4, <1>5, <1>8, <1>10, <1>11

\* What r is after a CTCP of a new fluder.
Entered(r, l, c, n) == r = <<[fluder |-> c, count |-> 1, first_msg |-> n, last_msg |-> n]>> \o l

\* It counts one CTCP, and none had got through.
LEMMA FloodEnters ==
  ASSUME NEW l, NEW h, NEW n \in Nat, FloodOK(l, h, n), NEW c \in Clients, c \notin Fluders(l),
         NEW r, Entered(r, l, c, n)
  PROVE  /\ FloodOK(r, h, n) /\ Fluders(r) = Fluders(l) \cup {c}
         /\ \E i \in 1 .. Len(r) : r[i].fluder = c /\ r[i].last_msg = n
                                   /\ Cardinality(Occ(h, By(c))) + 1 <= r[i].count
<1>1. /\ l \in Seq(FludRecs) /\ h \in Seq(PassRecs)
      /\ \A i, j \in 1 .. Len(l) : l[i].fluder = l[j].fluder => i = j
      /\ \A k \in 1 .. Len(h) : h[k].at <= n /\ h[k].at >= n - FludTime /\ Noted(l, h[k])
      /\ \A i \in 1 .. Len(l) : Cardinality(Occ(h, By(l[i].fluder))) <= l[i].count
      /\ Cardinality(Occ(h, Fresh(l, n - FludTime))) <= FludNum
  BY DEF FloodOK
<1>2. PICK e : e = [fluder |-> c, count |-> 1, first_msg |-> n, last_msg |-> n]
  OBVIOUS
<1>3. e \in FludRecs /\ e.fluder = c /\ e.count = 1 /\ e.last_msg = n /\ r = <<e>> \o l
  BY <1>2 DEF FludRecs, Entered
<1>4. /\ r \in Seq(FludRecs) /\ Len(r) = Len(l) + 1 /\ r[1] = e
      /\ \A i \in 1 .. Len(l) : r[i + 1] = l[i]
      /\ \A i \in 2 .. Len(r) : r[i] = l[i - 1]
  BY <1>1, <1>3, PushSpec
<1>5. /\ Len(l) \in Nat /\ DOMAIN l = 1 .. Len(l) /\ DOMAIN r = 1 .. Len(r)
      /\ 1 \in 1 .. Len(r) /\ \A i \in 1 .. Len(r) : i = 1 \/ (i \in 2 .. Len(r) /\ i - 1 \in 1 .. Len(l))
      /\ \A i \in 1 .. Len(l) : i + 1 \in 1 .. Len(r)
  BY <1>1, <1>4
<1>6. \A i \in 1 .. Len(l) : l[i].fluder # c
  BY <1>5 DEF Fluders
<1>7. Fluders(r) = Fluders(l) \cup {c}
  <2>1. \A x \in Fluders(r) : x \in Fluders(l) \cup {c}
    BY <1>3, <1>4, <1>5 DEF Fluders
  <2>2. ASSUME NEW x \in Fluders(l) PROVE x \in Fluders(r)
    <3>1. PICK i \in 1 .. Len(l) : l[i].fluder = x
      BY <1>5 DEF Fluders
    <3>2. r[i + 1].fluder = x /\ i + 1 \in DOMAIN r
      BY <1>4, <1>5, <3>1
    <3> QED BY <3>2 DEF Fluders
  <2>3. c \in Fluders(r)
    BY <1>3, <1>4, <1>5 DEF Fluders
  <2> QED BY <2>1, <2>2, <2>3
<1>8. ASSUME NEW i \in 1 .. Len(r), NEW j \in 1 .. Len(r), r[i].fluder = r[j].fluder PROVE i = j
  <2>1. CASE i = 1 /\ j = 1
    BY <2>1
  <2>2. CASE i = 1 /\ j # 1
    BY <1>3, <1>4, <1>5, <1>6, <1>8, <2>2
  <2>3. CASE i # 1 /\ j = 1
    BY <1>3, <1>4, <1>5, <1>6, <1>8, <2>3
  <2>4. CASE i # 1 /\ j # 1
    <3>1. i - 1 \in 1 .. Len(l) /\ j - 1 \in 1 .. Len(l) /\ l[i - 1].fluder = l[j - 1].fluder
      BY <1>4, <1>5, <1>8, <2>4
    <3>2. i - 1 = j - 1
      BY <1>1, <3>1
    <3> QED BY <3>2, <1>5
  <2> QED BY <2>1, <2>2, <2>3, <2>4
<1>9. ASSUME NEW k \in 1 .. Len(h)
      PROVE  h[k].at <= n /\ h[k].at >= n - FludTime /\ Noted(r, h[k]) /\ h[k].by # c
  <2>1. h[k].at <= n /\ h[k].at >= n - FludTime
    BY <1>1
  <2>2. PICK i \in 1 .. Len(l) : l[i].fluder = h[k].by /\ l[i].last_msg >= h[k].at
    BY <1>1 DEF Noted
  <2>3. r[i + 1] = l[i] /\ i + 1 \in 1 .. Len(r)
    BY <1>4, <1>5
  <2> QED BY <1>6, <2>1, <2>2, <2>3 DEF Noted
<1>10. Cardinality(Occ(h, By(c))) = 0
  <2>1. Occ(h, By(c)) = {}
    BY <1>9 DEF Occ, By
  <2> QED BY <2>1, FS_EmptySet
<1>11. ASSUME NEW i \in 1 .. Len(r) PROVE Cardinality(Occ(h, By(r[i].fluder))) <= r[i].count
  <2>1. CASE i = 1
    BY <1>3, <1>4, <1>10, <2>1
  <2>2. CASE i # 1
    <3>1. i - 1 \in 1 .. Len(l) /\ r[i] = l[i - 1]
      BY <1>4, <1>5, <2>2
    <3> QED BY <1>1, <3>1
  <2> QED BY <2>1, <2>2
<1>12. Cardinality(Occ(h, Fresh(r, n - FludTime))) <= FludNum
  <2>0. PICK P, Q : P = Fresh(r, n - FludTime) /\ Q = Fresh(l, n - FludTime)
    OBVIOUS
  <2>1. ASSUME NEW k \in 1 .. Len(h), h[k] \in P PROVE h[k] \in Q
    <3>1. PICK i \in 1 .. Len(r) : r[i].fluder = h[k].by /\ r[i].first_msg >= n - FludTime
      BY <2>0, <2>1 DEF Fresh
    <3>2. i # 1
      BY <1>3, <1>4, <1>9, <3>1
    <3>3. i - 1 \in 1 .. Len(l) /\ r[i] = l[i - 1] /\ h[k] \in PassRecs
      BY <1>1, <1>4, <1>5, <3>2
    <3> QED BY <2>0, <3>1, <3>3 DEF Fresh
  <2>2. Cardinality(Occ(h, P)) <= Cardinality(Occ(h, Q))
    BY <1>1, <2>1, OccSubset
  <2>3. Cardinality(Occ(h, P)) \in Nat /\ Cardinality(Occ(h, Q)) \in Nat
    BY <1>1, OccFinite
  <2>4. Cardinality(Occ(h, Q)) <= FludNum
    BY <1>1, <2>0
  <2>5. Cardinality(Occ(h, P)) <= FludNum
    BY <2>2, <2>3, <2>4, FludNumbers
  <2> QED BY <2>0, <2>5
<1>13. FloodOK(r, h, n)
  BY <1>1, <1>4, <1>8, <1>9, <1>11, <1>12 DEF FloodOK
<1>14. r[1].fluder = c /\ r[1].last_msg = n /\ Cardinality(Occ(h, By(c))) + 1 <= r[1].count
  BY <1>3, <1>4, <1>10
<1> QED BY <1>5, <1>7, <1>13, <1>14

\* A CTCP passes when the fluders together are within the limit.
LEMMA FloodPasses ==
  ASSUME NEW r, NEW h, NEW n \in Nat, FloodOK(r, h, n), NEW c \in Clients,
         NEW i0 \in 1 .. Len(r), r[i0].fluder = c, r[i0].last_msg = n,
         Cardinality(Occ(h, By(c))) + 1 <= r[i0].count,
         NEW w \in Seq(Nat), Len(w) = Len(r), Total(w) <= FludNum,
         \A i \in 1 .. Len(r) : r[i].first_msg >= n - FludTime => w[i] = r[i].count,
         NEW e, e = [by |-> c, at |-> n]
  PROVE  FloodOK(r, Append(h, e), n)
<1>1. /\ r \in Seq(FludRecs) /\ h \in Seq(PassRecs)
      /\ \A i, j \in 1 .. Len(r) : r[i].fluder = r[j].fluder => i = j
      /\ \A k \in 1 .. Len(h) : h[k].at <= n /\ h[k].at >= n - FludTime /\ Noted(r, h[k])
      /\ \A i \in 1 .. Len(r) : Cardinality(Occ(h, By(r[i].fluder))) <= r[i].count
  BY DEF FloodOK
<1>2. e \in PassRecs /\ e.by = c /\ e.at = n
  BY DEF PassRecs
<1>3. PICK g : g = Append(h, e)
  OBVIOUS
<1>4. /\ g \in Seq(PassRecs) /\ Len(g) = Len(h) + 1 /\ g[Len(h) + 1] = e /\ Len(h) \in Nat
      /\ \A k \in 1 .. Len(h) : g[k] = h[k]
  BY <1>1, <1>2, <1>3
<1>5. ASSUME NEW k \in 1 .. Len(g)
      PROVE  g[k].at <= n /\ g[k].at >= n - FludTime /\ Noted(r, g[k])
  <2>1. k \in 1 .. Len(h) \/ k = Len(h) + 1
    BY <1>4
  <2>2. CASE k \in 1 .. Len(h)
    BY <1>1, <1>4, <2>2
  <2>3. CASE k = Len(h) + 1
    <3>1. n >= n - FludTime /\ n <= n /\ n >= n
      BY FludNumbers
    <3> QED BY <1>2, <1>4, <2>3, <3>1 DEF Noted
  <2> QED BY <2>1, <2>2, <2>3
<1>6. ASSUME NEW i \in 1 .. Len(r) PROVE Cardinality(Occ(g, By(r[i].fluder))) <= r[i].count
  <2>1. CASE i = i0
    <3>1. Cardinality(Occ(g, By(c))) <= Cardinality(Occ(h, By(c))) + 1
      BY <1>1, <1>2, <1>3, OccAppend
    <3>2. Cardinality(Occ(g, By(c))) \in Nat /\ Cardinality(Occ(h, By(c))) \in Nat
      BY <1>1, <1>4, OccFinite
    <3>3. r[i0] \in FludRecs
      BY <1>1
    <3>4. r[i0].count \in Nat
      BY <3>3 DEF FludRecs
    <3> QED BY <2>1, <3>1, <3>2, <3>4
  <2>2. CASE i # i0
    <3>1. e \notin By(r[i].fluder)
      BY <1>1, <1>2, <2>2 DEF By
    <3>2. Occ(g, By(r[i].fluder)) = Occ(h, By(r[i].fluder))
      BY <1>1, <1>2, <1>3, <3>1, OccAppend
    <3> QED BY <1>1, <3>2
  <2> QED BY <2>1, <2>2
<1>7. Cardinality(Occ(g, Fresh(r, n - FludTime))) <= FludNum
  <2>0. PICK D : D = [i \in 1 .. Len(w) |-> IF r[i].first_msg >= n - FludTime
                                            THEN Occ(g, By(r[i].fluder)) ELSE {}]
    OBVIOUS
  <2>1. ASSUME NEW i \in 1 .. Len(w) PROVE IsFiniteSet(D[i]) /\ Cardinality(D[i]) <= w[i]
    <3>1. CASE r[i].first_msg >= n - FludTime
      <4>1. D[i] = Occ(g, By(r[i].fluder)) /\ w[i] = r[i].count
        BY <2>0, <3>1
      <4> QED BY <1>4, <1>6, <4>1, OccFinite
    <3>2. CASE ~ (r[i].first_msg >= n - FludTime)
      <4>1. D[i] = {} /\ w[i] \in Nat
        BY <2>0, <3>2
      <4> QED BY <4>1, FS_EmptySet
    <3> QED BY <3>1, <3>2
  <2> DEFINE U == UNION {D[i] : i \in 1 .. Len(w)}
  <2>2. IsFiniteSet(U) /\ Cardinality(U) <= Total(w) /\ Total(w) \in Nat
    BY <2>1, TotalCovers
  <2>3. ASSUME NEW k \in Occ(g, Fresh(r, n - FludTime)) PROVE k \in U
    <3>1. k \in 1 .. Len(g) /\ g[k] \in PassRecs
      BY <1>4 DEF Occ
    <3>2. PICK i \in 1 .. Len(r) : r[i].fluder = g[k].by /\ r[i].first_msg >= n - FludTime
      BY DEF Occ, Fresh
    <3>3. k \in D[i]
      BY <2>0, <3>1, <3>2 DEF Occ, By
    <3> QED BY <3>2, <3>3
  <2> HIDE DEF U
  <2>4. IsFiniteSet(Occ(g, Fresh(r, n - FludTime))) /\ Cardinality(Occ(g, Fresh(r, n - FludTime))) <= Cardinality(U)
    BY <2>2, <2>3, FS_Subset
  <2>5. Cardinality(Occ(g, Fresh(r, n - FludTime))) \in Nat /\ Cardinality(U) \in Nat
    BY <2>2, <2>4, FS_CardinalityType
  <2> QED BY <2>2, <2>4, <2>5, FludNumbers
<1>8. FloodOK(r, g, n)
  BY <1>1, <1>4, <1>5, <1>6, <1>7 DEF FloodOK
<1> QED BY <1>3, <1>8

----------------------------------------------------------------------------
\* f: a list of targets for every client, no target twice.
FludeeLists(f) == /\ f \in [Clients -> Seq(Floodable)] /\ \A c \in Clients : IsInjective(f[c])

\* remove_fludee_reference takes one link from each list.
LEMMA ReferencesRemoved ==
  ASSUME NEW f, FludeeLists(f), NEW F, NEW t
  PROVE  LET g == remove_fludee_references(f, F, t)
         IN  /\ FludeeLists(g)
             /\ \A c \in Clients : \A s : s \in Range(g[c]) <=> s \in Range(f[c]) /\ ~ (s = t /\ c \in F)
<1> PICK g : g = remove_fludee_references(f, F, t) OBVIOUS
<1>1. f \in [Clients -> Seq(Floodable)] /\ \A c \in Clients : IsInjective(f[c])
  BY DEF FludeeLists
<1>2. g = [c \in Clients |-> IF c \in F THEN RemoveFirst(f[c], t) ELSE f[c]]
  BY DEF remove_fludee_references
<1>3. ASSUME NEW c \in Clients
      PROVE  /\ g[c] \in Seq(Floodable) /\ IsInjective(g[c])
             /\ \A s : s \in Range(g[c]) <=> s \in Range(f[c]) /\ ~ (s = t /\ c \in F)
  <2>1. CASE c \in F
    <3>1. g[c] = RemoveFirst(f[c], t)
      BY <1>2, <2>1
    <3>2. f[c] \in Seq(Floodable) /\ IsInjective(f[c])
      BY <1>1
    <3>3. /\ RemoveFirst(f[c], t) \in Seq(Floodable) /\ IsInjective(RemoveFirst(f[c], t))
          /\ Range(RemoveFirst(f[c], t)) = Range(f[c]) \ {t}
      BY <3>2, RemoveFirstSpec
    <3> QED BY <2>1, <3>1, <3>3
  <2>2. CASE c \notin F
    BY <1>1, <1>2, <2>2
  <2> QED BY <2>1, <2>2
<1>4. FludeeLists(g)
  BY <1>2, <1>3 DEF FludeeLists
<1> QED BY <1>3, <1>4

\* Every fluder of a target has the target as a fludee; both are there.
FludLinks ==
  \A c \in Clients, t \in Floodable :
    /\ c \in Fluders(fluders[t]) <=> t \in Range(fludees[c])
    /\ t \in Range(fludees[c]) => c \in there /\ (t \in Clients => t \in there)

FludInv ==
  /\ HandlingOK /\ FludeeLists(fludees) /\ FludLinks
  /\ fluders \in [Floodable -> Seq(FludRecs)] /\ passed \in [Floodable -> Seq(PassRecs)]
  /\ \A t \in Floodable : FloodOK(fluders[t], passed[t], mnow)

\* What is left of list l when it is thinned to the entries in K.
Kept(r, l, K) ==
  /\ r \in Seq(FludRecs) /\ \E at : Thins(r, l, at)
  /\ \A i \in 1 .. Len(r) : r[i] \in K /\ \E j \in 1 .. Len(l) : l[j] = r[i]
  /\ \A i \in 1 .. Len(l) : l[i] \in K => \E j \in 1 .. Len(r) : r[j] = l[i]

\* ... by a walk through the list.
LEMMA FludersThin ==
  ASSUME NEW l \in Seq(FludRecs), NEW K
  PROVE  Kept(Keep(l, {e \in Range(l) : e \in K}), l, K)
<1> PICK S : S = {e \in Range(l) : e \in K} OBVIOUS
<1> PICK r : r = Keep(l, S) OBVIOUS
<1>1. r \in Seq(FludRecs) /\ Range(r) = Range(l) \cap S /\ \E at : Thins(r, l, at)
  BY KeepSpec
<1>2. DOMAIN r = 1 .. Len(r) /\ DOMAIN l = 1 .. Len(l)
  BY <1>1
<1>3. ASSUME NEW i \in 1 .. Len(r) PROVE r[i] \in K /\ \E j \in 1 .. Len(l) : l[j] = r[i]
  <2>1. r[i] \in Range(r)
    BY <1>2 DEF Range
  <2>2. r[i] \in Range(l) /\ r[i] \in S
    BY <1>1, <2>1
  <2> QED BY <1>2, <2>2 DEF Range
<1>4. ASSUME NEW i \in 1 .. Len(l), l[i] \in K PROVE \E j \in 1 .. Len(r) : r[j] = l[i]
  <2>1. l[i] \in Range(l)
    BY <1>2 DEF Range
  <2>2. l[i] \in Range(r)
    BY <1>1, <1>4, <2>1
  <2> QED BY <1>2, <2>2 DEF Range
<1>5. Kept(r, l, K)
  BY <1>1, <1>3, <1>4 DEF Kept
<1> QED BY <1>5

\* ... and whose entries these are.
LEMMA FludersKept ==
  ASSUME NEW l \in Seq(FludRecs), NEW K, NEW r, Kept(r, l, K)
  PROVE  /\ \A c \in Fluders(r) : \E i \in 1 .. Len(l) : l[i].fluder = c /\ l[i] \in K
         /\ \A i \in 1 .. Len(l) : l[i] \in K => l[i].fluder \in Fluders(r)
         /\ Fluders(r) \subseteq Fluders(l)
<1>1. DOMAIN r = 1 .. Len(r) /\ DOMAIN l = 1 .. Len(l)
  BY DEF Kept
<1>2. ASSUME NEW c \in Fluders(r) PROVE \E i \in 1 .. Len(l) : l[i].fluder = c /\ l[i] \in K
  <2>1. PICK j \in 1 .. Len(r) : r[j].fluder = c
    BY <1>1 DEF Fluders
  <2>2. r[j] \in K /\ \E i \in 1 .. Len(l) : l[i] = r[j]
    BY DEF Kept
  <2> QED BY <2>1, <2>2
<1>3. ASSUME NEW i \in 1 .. Len(l), l[i] \in K PROVE l[i].fluder \in Fluders(r)
  <2>1. PICK j \in 1 .. Len(r) : r[j] = l[i]
    BY <1>3 DEF Kept
  <2> QED BY <1>1, <2>1 DEF Fluders
<1>4. Fluders(r) \subseteq Fluders(l)
  BY <1>1, <1>2 DEF Fluders
<1> QED BY <1>2, <1>3, <1>4

\* check_for_flud's garbage collection keeps what counts.
LEMMA FloodCurrent ==
  ASSUME NEW t, FloodOK(fluders[t], passed[t], mnow), mnow \in Nat
  PROVE  FloodOK(current(t), passed[t], mnow) /\ Fluders(current(t)) \subseteq Fluders(fluders[t])
<1>1. CASE blocking(t)
  BY <1>1 DEF current
<1>2. CASE ~ blocking(t)
  <2>1. PICK l, h, n, K : /\ l = fluders[t] /\ h = passed[t] /\ n = mnow
                          /\ K = {e \in FludRecs : e.last_msg >= n - FludTime}
    OBVIOUS
  <2>2. FloodOK(l, h, n) /\ n \in Nat
    BY <2>1
  <2>3. l \in Seq(FludRecs) /\ h \in Seq(PassRecs)
        /\ \A k \in 1 .. Len(h) : h[k].at >= n - FludTime /\ Noted(l, h[k])
    BY <2>2 DEF FloodOK
  <2>4. PICK r : r = Keep(l, {e \in Range(l) : e \in K})
    OBVIOUS
  <2>5. current(t) = r
    <3>1. Range(l) \subseteq FludRecs
      BY <2>3 DEF Range
    <3>2. {e \in Range(l) : e.last_msg >= n - FludTime} = {e \in Range(l) : e \in K}
      BY <2>1, <3>1
    <3> QED BY <1>2, <2>1, <2>4, <3>2 DEF current
  <2>5a. Kept(r, l, K)
    BY <2>3, <2>4, FludersThin
  <2>6. /\ r \in Seq(FludRecs) /\ \E at : Thins(r, l, at) /\ Fluders(r) \subseteq Fluders(l)
        /\ \A i \in 1 .. Len(l) : l[i] \in K => \E j \in 1 .. Len(r) : r[j] = l[i]
    BY <2>3, <2>5a, FludersKept DEF Kept
  <2>7. ASSUME NEW k \in 1 .. Len(h) PROVE h[k].at >= n - FludTime /\ Noted(r, h[k])
    <3>1. h[k].at >= n - FludTime /\ h[k] \in PassRecs
      BY <2>3
    <3>2. PICK i \in 1 .. Len(l) : l[i].fluder = h[k].by /\ l[i].last_msg >= h[k].at
      BY <2>3 DEF Noted
    <3>3. l[i] \in FludRecs
      BY <2>3
    <3>4. l[i].last_msg \in Nat /\ h[k].at \in Nat
      BY <3>1, <3>3 DEF FludRecs, PassRecs
    <3>5. l[i].last_msg >= n - FludTime
      BY <2>2, <3>1, <3>2, <3>4, FludNumbers
    <3>6. l[i] \in K
      BY <2>1, <3>3, <3>5
    <3>7. PICK j \in 1 .. Len(r) : r[j] = l[i]
      BY <2>6, <3>6
    <3> QED BY <3>1, <3>2, <3>7 DEF Noted
  <2>8. PICK at : Thins(r, l, at)
    BY <2>6
  <2>9. PICK bt : Thins(h, h, bt)
    BY <2>3, ThinsSelf
  <2>10. n >= n
    BY <2>2
  <2>11. FloodOK(r, h, n)
    BY <2>2, <2>3, <2>6, <2>7, <2>8, <2>9, <2>10, FloodLess
  <2> QED BY <2>1, <2>5, <2>6, <2>11
<1> QED BY <1>1, <1>2

\* A CTCP of c to t.
LEMMA FludChecks ==
  ASSUME FludInv, HandlingOK', NEW c \in there, NEW t \in Floodable, t \in Clients => t \in there,
         check_for_flud(c, t), mnow' = mnow, there' = there
  PROVE  FludInv'
<1>1. /\ HandlingOK /\ FludeeLists(fludees)
      /\ fluders \in [Floodable -> Seq(FludRecs)] /\ passed \in [Floodable -> Seq(PassRecs)]
      /\ \A s \in Floodable : FloodOK(fluders[s], passed[s], mnow)
  BY DEF FludInv
<1>2. \A b \in Clients, s \in Floodable :
        /\ b \in Fluders(fluders[s]) <=> s \in Range(fludees[b])
        /\ s \in Range(fludees[b]) => b \in there /\ (s \in Clients => s \in there)
  BY DEF FludInv, FludLinks
<1>3. mnow \in Nat /\ c \in Clients
  BY <1>1 DEF HandlingOK
<1>4. PICK l, h, n : l = current(t) /\ h = passed[t] /\ n = mnow
  OBVIOUS
<1>5. FloodOK(l, h, n) /\ Fluders(l) \subseteq Fluders(fluders[t]) /\ n \in Nat
  BY <1>1, <1>3, <1>4, FloodCurrent
<1>6. PICK r : r = noted(c, t)
  OBVIOUS
<1>7. /\ FloodOK(r, h, n) /\ \A b : b \in Fluders(r) <=> b \in Fluders(l) \/ b = c
      /\ \E i \in 1 .. Len(r) : r[i].fluder = c /\ r[i].last_msg = n
                                   /\ Cardinality(Occ(h, By(c))) + 1 <= r[i].count
  <2>1. CASE c \in Fluders(l)
    <3>1. r = [i \in DOMAIN l |-> IF l[i].fluder = c
                       THEN [l[i] EXCEPT !.last_msg = n, !.count = @ + 1] ELSE l[i]]
      BY <1>4, <1>6, <2>1 DEF noted
    <3>2. l \in Seq(FludRecs)
      BY <1>5 DEF FloodOK
    <3>3. Recounted(r, l, c, n)
      BY <1>5, <3>1, <3>2, Recounts
    <3>4. /\ FloodOK(r, h, n) /\ Fluders(r) = Fluders(l)
          /\ \E i \in 1 .. Len(r) : r[i].fluder = c /\ r[i].last_msg = n
                                   /\ Cardinality(Occ(h, By(c))) + 1 <= r[i].count
      BY <1>3, <1>5, <2>1, <3>3, FloodCounts
    <3> QED BY <2>1, <3>4
  <2>2. CASE c \notin Fluders(l)
    <3>1. Entered(r, l, c, n)
      BY <1>4, <1>6, <2>2 DEF noted, Entered
    <3>2. /\ FloodOK(r, h, n) /\ Fluders(r) = Fluders(l) \cup {c}
          /\ \E i \in 1 .. Len(r) : r[i].fluder = c /\ r[i].last_msg = n
                                   /\ Cardinality(Occ(h, By(c))) + 1 <= r[i].count
      BY <1>3, <1>5, <2>2, <3>1, FloodEnters
    <3> QED BY <3>2
  <2> QED BY <2>1, <2>2
<1>8. /\ fluders' = [fluders EXCEPT ![t] = r]
      /\ passed' = [passed EXCEPT ![t] = IF protected(c, t) THEN h ELSE Append(h, [by |-> c, at |-> n])]
  BY <1>4, <1>6 DEF check_for_flud
<1>9. ASSUME ~ protected(c, t) PROVE FloodOK(r, Append(h, [by |-> c, at |-> n]), n)
  <2>1. PICK w : w = [i \in DOMAIN r |-> weight(r[i])]
    OBVIOUS
  <2>2. r \in Seq(FludRecs)
    BY <1>7 DEF FloodOK
  <2>3. DOMAIN r = 1 .. Len(r) /\ Len(r) \in Nat /\ \A i \in 1 .. Len(r) : r[i] \in FludRecs
    BY <2>2
  <2>4. ASSUME NEW i \in 1 .. Len(r)
        PROVE  w[i] \in Nat /\ (r[i].first_msg >= n - FludTime => w[i] = r[i].count)
    <3>1. r[i].count \in Nat /\ r[i].first_msg \in Nat
      BY <2>3 DEF FludRecs
    <3>2. w[i] = IF r[i].first_msg < n - FludTime THEN 1 ELSE r[i].count
      BY <1>4, <2>1, <2>3 DEF weight
    <3> QED BY <1>5, <3>1, <3>2, FludNumbers
  <2>5. w \in [1 .. Len(r) -> Nat]
    BY <2>1, <2>3, <2>4
  <2>6. w \in Seq(Nat) /\ DOMAIN w = 1 .. Len(r)
    BY <2>3, <2>5, SeqDef
  <2>7. Len(w) = Len(r)
    <3>1. DOMAIN w = 1 .. Len(w) /\ Len(w) \in Nat
      BY <2>6
    <3> QED BY <2>3, <2>6, <3>1
  <2>8. Total(w) <= FludNum
    <3>1. ~ (Total(w) > FludNum)
      BY <1>6, <1>9, <2>1 DEF protected
    <3>2. Total(w) \in Nat
      <4>1. PICK D : D = [i \in 1 .. Len(w) |-> {}]
        OBVIOUS
      <4>2. \A i \in 1 .. Len(w) : IsFiniteSet(D[i]) /\ Cardinality(D[i]) <= w[i]
        BY <2>4, <2>7, <4>1, FS_EmptySet
      <4> QED BY <2>6, <4>2, TotalCovers
    <3> QED BY <3>1, <3>2, FludNumbers
  <2>9. PICK i0 \in 1 .. Len(r) : r[i0].fluder = c /\ r[i0].last_msg = n
                                   /\ Cardinality(Occ(h, By(c))) + 1 <= r[i0].count
    BY <1>7
  <2>10. PICK e : e = [by |-> c, at |-> n]
    OBVIOUS
  <2>11. FloodOK(r, Append(h, e), n)
    BY <1>3, <1>5, <1>7, <2>4, <2>6, <2>7, <2>8, <2>9, <2>10, FloodPasses
  <2> QED BY <2>10, <2>11
<1>10. PICK g : g = IF protected(c, t) THEN h ELSE Append(h, [by |-> c, at |-> n])
  OBVIOUS
<1>11. FloodOK(r, g, n)
  BY <1>7, <1>9, <1>10
<1>12. /\ fluders'[t] = r /\ passed'[t] = g
       /\ \A s \in Floodable : s # t => fluders'[s] = fluders[s] /\ passed'[s] = passed[s]
  BY <1>1, <1>8, <1>10
<1>13. r \in Seq(FludRecs) /\ g \in Seq(PassRecs)
  BY <1>11 DEF FloodOK
<1>14. fluders' \in [Floodable -> Seq(FludRecs)] /\ passed' \in [Floodable -> Seq(PassRecs)]
  BY <1>1, <1>8, <1>10, <1>13
<1>15. \A s \in Floodable : FloodOK(fluders'[s], passed'[s], mnow')
  BY <1>1, <1>4, <1>11, <1>12
<1>16. PICK F : F = Fluders(fluders[t]) \ Fluders(l)
  OBVIOUS
<1>17. PICK f : f = remove_fludee_references(fludees, F, t)
  OBVIOUS
<1>18. /\ FludeeLists(f)
       /\ \A b \in Clients : \A s : s \in Range(f[b]) <=> s \in Range(fludees[b]) /\ ~ (s = t /\ b \in F)
  BY <1>1, <1>17, ReferencesRemoved
<1>19. fludees' = IF c \in Fluders(l) THEN f ELSE [f EXCEPT ![c] = <<t>> \o @]
  BY <1>4, <1>16, <1>17 DEF check_for_flud
<1>20. /\ FludeeLists(fludees')
       /\ \A b \in Clients : \A s : s \in Range(fludees'[b]) <=> s \in Range(f[b]) \/ (s = t /\ b = c)
  <2>1. CASE c \in Fluders(l)
    <3>1. t \in Range(f[c])
      BY <1>2, <1>3, <1>5, <1>16, <1>18, <2>1
    <3> QED BY <1>18, <1>19, <2>1, <3>1
  <2>2. CASE c \notin Fluders(l)
    <3>1. t \notin Range(f[c])
      BY <1>2, <1>3, <1>5, <1>16, <1>18, <2>2
    <3>2. f \in [Clients -> Seq(Floodable)] /\ \A b \in Clients : IsInjective(f[b])
      BY <1>18 DEF FludeeLists
    <3>3. PICK q : q = <<t>> \o f[c]
      OBVIOUS
    <3>4. q \in Seq(Floodable) /\ IsInjective(q) /\ Range(q) = Range(f[c]) \cup {t}
      BY <1>3, <3>1, <3>2, <3>3, PushSpec
    <3>5. fludees' = [f EXCEPT ![c] = q]
      BY <1>19, <2>2, <3>3
    <3>6. fludees'[c] = q /\ \A b \in Clients : b # c => fludees'[b] = f[b]
      BY <1>3, <3>2, <3>5
    <3>7. fludees' \in [Clients -> Seq(Floodable)]
      BY <1>3, <3>2, <3>4, <3>5
    <3>8. FludeeLists(fludees')
      BY <3>2, <3>4, <3>6, <3>7 DEF FludeeLists
    <3>9. \A b \in Clients : \A s : s \in Range(fludees'[b]) <=> s \in Range(f[b]) \/ (s = t /\ b = c)
      BY <3>4, <3>6
    <3> QED BY <3>8, <3>9
  <2> QED BY <2>1, <2>2
<1>21. ASSUME NEW b \in Clients, NEW s \in Floodable
       PROVE  /\ b \in Fluders(fluders'[s]) <=> s \in Range(fludees'[b])
              /\ s \in Range(fludees'[b]) => b \in there' /\ (s \in Clients => s \in there')
  <2>1. s \in Range(fludees'[b]) <=> (s \in Range(fludees[b]) /\ ~ (s = t /\ b \in F)) \/ (s = t /\ b = c)
    BY <1>18, <1>20
  <2>2. CASE s = t
    BY <1>2, <1>5, <1>7, <1>12, <1>16, <2>1, <2>2
  <2>3. CASE s # t
    BY <1>2, <1>12, <2>1, <2>3
  <2> QED BY <2>2, <2>3
<1>22. FludLinks'
  BY <1>21 DEF FludLinks
<1> QED BY <1>14, <1>15, <1>20, <1>22 DEF FludInv

\* A channel is freed.
LEMMA FludFrees ==
  ASSUME FludInv, HandlingOK', NEW t, free_channel(t)
  PROVE  FludInv'
<1>1. /\ HandlingOK /\ FludeeLists(fludees)
      /\ fluders \in [Floodable -> Seq(FludRecs)] /\ passed \in [Floodable -> Seq(PassRecs)]
      /\ \A s \in Floodable : FloodOK(fluders[s], passed[s], mnow)
  BY DEF FludInv
<1>2. \A b \in Clients, s \in Floodable :
        /\ b \in Fluders(fluders[s]) <=> s \in Range(fludees[b])
        /\ s \in Range(fludees[b]) => b \in there /\ (s \in Clients => s \in there)
  BY DEF FludInv, FludLinks
<1>3. /\ t \in Chans /\ fludees' = remove_fludee_references(fludees, Fluders(fluders[t]), t)
      /\ fluders' = [fluders EXCEPT ![t] = <<>>] /\ passed' = [passed EXCEPT ![t] = <<>>]
      /\ there' = there /\ mnow' = mnow
  BY DEF free_channel
<1>4. t \in Floodable
  BY <1>3 DEF Floodable
<1>5. /\ FludeeLists(fludees')
      /\ \A b \in Clients : \A s : s \in Range(fludees'[b]) <=> s \in Range(fludees[b]) /\ ~ (s = t /\ b \in Fluders(fluders[t]))
  <2>1. PICK F, f, g : F = Fluders(fluders[t]) /\ f = fludees /\ g = fludees'
    OBVIOUS
  <2>2. FludeeLists(f) /\ g = remove_fludee_references(f, F, t)
    BY <1>1, <1>3, <2>1
  <2>3. /\ FludeeLists(g)
        /\ \A b \in Clients : \A s : s \in Range(g[b]) <=> s \in Range(f[b]) /\ ~ (s = t /\ b \in F)
    BY <2>2, ReferencesRemoved
  <2> QED BY <2>1, <2>3
<1>6. /\ fluders' \in [Floodable -> Seq(FludRecs)] /\ passed' \in [Floodable -> Seq(PassRecs)]
      /\ fluders'[t] = << >> /\ passed'[t] = << >>
      /\ \A s \in Floodable : s # t => fluders'[s] = fluders[s] /\ passed'[s] = passed[s]
  BY <1>1, <1>3, <1>4
<1>7. FloodOK(<< >>, << >>, mnow)
  BY NothingFloods
<1>8. \A s \in Floodable : FloodOK(fluders'[s], passed'[s], mnow')
  BY <1>1, <1>3, <1>6, <1>7
<1>9. Fluders(<< >>) = {}
  BY DEF Fluders
<1>10. ASSUME NEW b \in Clients, NEW s \in Floodable
       PROVE  /\ b \in Fluders(fluders'[s]) <=> s \in Range(fludees'[b])
              /\ s \in Range(fludees'[b]) => b \in there' /\ (s \in Clients => s \in there')
  BY <1>2, <1>3, <1>5, <1>6, <1>9
<1>11. FludLinks'
  BY <1>10 DEF FludLinks
<1> QED BY <1>5, <1>6, <1>8, <1>11 DEF FludInv

\* A client exits.
LEMMA FludLeaves ==
  ASSUME FludInv, HandlingOK', NEW c \in Clients, FludExit(c)
  PROVE  FludInv'
<1>1. /\ HandlingOK /\ FludeeLists(fludees)
      /\ fluders \in [Floodable -> Seq(FludRecs)] /\ passed \in [Floodable -> Seq(PassRecs)]
      /\ \A s \in Floodable : FloodOK(fluders[s], passed[s], mnow)
  BY DEF FludInv
<1>2. \A b \in Clients, s \in Floodable :
        /\ b \in Fluders(fluders[s]) <=> s \in Range(fludees[b])
        /\ s \in Range(fludees[b]) => b \in there /\ (s \in Clients => s \in there)
  BY DEF FludInv, FludLinks
<1>3. PICK mine, own : /\ mine = IF c \in Near THEN Fluders(fluders[c]) ELSE {}
                       /\ own = IF c \in mine THEN RemoveFirst(fludees[c], c) ELSE fludees[c]
  OBVIOUS
<1>4. /\ there' = there \ {c} /\ mnow' = mnow
      /\ fluders' = [t \in Floodable |->
          IF t = c THEN <<>>
          ELSE IF t \in Range(own)
          THEN Keep(fluders[t], {e \in Range(fluders[t]) : e.fluder # c}) ELSE fluders[t]]
      /\ passed' = [t \in Floodable |-> IF t = c THEN <<>>
                     ELSE Keep(passed[t], {e \in Range(passed[t]) : e.by # c})]
  BY <1>3 DEF FludExit
<1>5. PICK f : f = remove_fludee_references(fludees, mine, c)
  OBVIOUS
<1>6. fludees' = [f EXCEPT ![c] = <<>>]
  BY <1>3, <1>5 DEF FludExit
<1>7. /\ FludeeLists(f)
      /\ \A b \in Clients : \A s : s \in Range(f[b]) <=> s \in Range(fludees[b]) /\ ~ (s = c /\ b \in mine)
  BY <1>1, <1>5, ReferencesRemoved
<1>8. FludeeLists(fludees') /\ fludees'[c] = << >> /\ \A b \in Clients : b # c => fludees'[b] = f[b]
  <2>1. IsInjective(<< >>)
    BY DEF IsInjective
  <2>2. fludees'[c] = << >> /\ \A b \in Clients : b # c => fludees'[b] = f[b]
    BY <1>6, <1>7 DEF FludeeLists
  <2>3. fludees' \in [Clients -> Seq(Floodable)]
    BY <1>6, <1>7 DEF FludeeLists
  <2> QED BY <1>7, <2>1, <2>2, <2>3 DEF FludeeLists
<1>9. \A s \in Floodable : s # c => (s \in Range(own) <=> s \in Range(fludees[c]))
  <2>1. \A s : s # c => (s \in Range(RemoveFirst(fludees[c], c)) <=> s \in Range(fludees[c]))
    <3>1. fludees[c] \in Seq(Floodable) /\ IsInjective(fludees[c])
      BY <1>1 DEF FludeeLists
    <3>2. Range(RemoveFirst(fludees[c], c)) = Range(fludees[c]) \ {c}
      BY <3>1, RemoveFirstSpec
    <3> QED BY <3>2
  <2> QED BY <1>3, <2>1
<1>10. ASSUME NEW t \in Floodable, t # c
       PROVE  /\ FloodOK(fluders'[t], passed'[t], mnow)
              /\ \A b \in Clients : b \in Fluders(fluders'[t]) <=> b \in Fluders(fluders[t]) /\ b # c
  <2>1. PICK l, h, n, K, L : /\ l = fluders[t] /\ h = passed[t] /\ n = mnow
                             /\ K = {e \in FludRecs : e.fluder # c} /\ L = {e \in Range(h) : e.by # c}
    OBVIOUS
  <2>2. FloodOK(l, h, n) /\ n \in Nat
    BY <1>1, <2>1 DEF HandlingOK
  <2>3. l \in Seq(FludRecs) /\ h \in Seq(PassRecs)
        /\ \A k \in 1 .. Len(h) : h[k].at >= n - FludTime /\ Noted(l, h[k])
    BY <2>2 DEF FloodOK
  <2>3a. DOMAIN l = 1 .. Len(l) /\ Len(l) \in Nat /\ \A i \in 1 .. Len(l) : l[i] \in FludRecs
    BY <2>3
  <2>4. PICK r, g : r = fluders'[t] /\ g = passed'[t]
    OBVIOUS
  <2>5. g = Keep(h, L)
    BY <1>4, <1>10, <2>1, <2>4
  <2>6. g \in Seq(PassRecs) /\ Range(g) = Range(h) \cap L /\ \E bt : Thins(g, h, bt)
    BY <2>3, <2>5, KeepSpec
  <2>7. Kept(r, l, K)
    <3>1. CASE t \in Range(own)
      <4>1. Range(l) \subseteq FludRecs
        BY <2>3 DEF Range
      <4>2. {e \in Range(l) : e.fluder # c} = {e \in Range(l) : e \in K}
        BY <2>1, <4>1
      <4>3. r = Keep(l, {e \in Range(l) : e \in K})
        BY <1>4, <1>10, <2>1, <2>4, <3>1, <4>2
      <4> QED BY <2>3, <4>3, FludersThin
    <3>2. CASE t \notin Range(own)
      <4>1. r = l
        BY <1>4, <1>10, <2>1, <2>4, <3>2
      <4>2. c \notin Fluders(l)
        BY <1>2, <1>9, <1>10, <2>1, <3>2
      <4>3. \A i \in 1 .. Len(l) : l[i] \in K
        BY <2>1, <2>3a, <4>2 DEF Fluders
      <4>4. \E at : Thins(l, l, at)
        BY <2>3, ThinsSelf
      <4> QED BY <2>3, <4>1, <4>3, <4>4 DEF Kept
    <3> QED BY <3>1, <3>2
  <2>8. ASSUME NEW k \in 1 .. Len(g) PROVE g[k].at >= n - FludTime /\ Noted(r, g[k])
    <3>1. g[k] \in Range(g)
      BY <2>6 DEF Range
    <3>2. g[k] \in Range(h) /\ g[k] \in L
      BY <2>6, <3>1
    <3>3. g[k].by # c
      BY <2>1, <3>2
    <3>4. PICK m \in 1 .. Len(h) : h[m] = g[k]
      BY <2>3, <3>2 DEF Range
    <3>5. h[m].at >= n - FludTime /\ Noted(l, h[m])
      BY <2>3
    <3>6. PICK i \in 1 .. Len(l) : l[i].fluder = g[k].by /\ l[i].last_msg >= g[k].at
      BY <3>4, <3>5 DEF Noted
    <3>7. l[i] \in K
      BY <2>1, <2>3a, <3>3, <3>6
    <3>8. PICK j \in 1 .. Len(r) : r[j] = l[i]
      BY <2>7, <3>7 DEF Kept
    <3> QED BY <3>4, <3>5, <3>6, <3>8 DEF Noted
  <2>9. PICK at : Thins(r, l, at)
    BY <2>7 DEF Kept
  <2>10. PICK bt : Thins(g, h, bt)
    BY <2>6
  <2>11. r \in Seq(FludRecs) /\ n >= n
    BY <2>2, <2>7 DEF Kept
  <2>12. FloodOK(r, g, n)
    BY <2>2, <2>6, <2>8, <2>9, <2>10, <2>11, FloodLess
  <2>13. ASSUME NEW b \in Clients PROVE b \in Fluders(r) <=> b \in Fluders(l) /\ b # c
    <3>1. ASSUME b \in Fluders(r) PROVE b \in Fluders(l) /\ b # c
      <4>1. PICK i \in 1 .. Len(l) : l[i].fluder = b /\ l[i] \in K
        BY <2>3, <2>7, <3>1, FludersKept
      <4> QED BY <2>1, <2>3a, <4>1 DEF Fluders
    <3>2. ASSUME b \in Fluders(l), b # c PROVE b \in Fluders(r)
      <4>1. PICK i \in 1 .. Len(l) : l[i].fluder = b
        BY <2>3a, <3>2 DEF Fluders
      <4>2. l[i] \in K
        BY <2>1, <2>3a, <3>2, <4>1
      <4> QED BY <2>3, <2>7, <4>1, <4>2, FludersKept
    <3> QED BY <3>1, <3>2
  <2> QED BY <2>1, <2>4, <2>12, <2>13
<1>11. ASSUME NEW t \in Floodable, t = c
       PROVE  FloodOK(fluders'[t], passed'[t], mnow) /\ Fluders(fluders'[t]) = {}
  <2>1. fluders'[t] = << >> /\ passed'[t] = << >>
    BY <1>4, <1>11
  <2>2. Fluders(<< >>) = {}
    BY DEF Fluders
  <2> QED BY <2>1, <2>2, NothingFloods
<1>12. \A t \in Floodable : FloodOK(fluders'[t], passed'[t], mnow')
  BY <1>4, <1>10, <1>11
<1>13. fluders' \in [Floodable -> Seq(FludRecs)] /\ passed' \in [Floodable -> Seq(PassRecs)]
  <2>1. \A t \in Floodable : fluders'[t] \in Seq(FludRecs) /\ passed'[t] \in Seq(PassRecs)
    BY <1>12 DEF FloodOK
  <2> QED BY <1>4, <2>1
<1>14. ASSUME NEW b \in Clients, NEW s \in Floodable
       PROVE  /\ b \in Fluders(fluders'[s]) <=> s \in Range(fludees'[b])
              /\ s \in Range(fludees'[b]) => b \in there' /\ (s \in Clients => s \in there')
  <2>0. Range(<< >>) = {}
    BY DEF Range
  <2>1. CASE b = c
    <3>1. Range(fludees'[b]) = {}
      BY <1>8, <2>0, <2>1
    <3> QED BY <1>10, <1>11, <2>1, <3>1
  <2>2. CASE b # c /\ s = c
    <3>1. c \in Near
      BY <2>2, FludNumbers DEF Floodable
    <3>2. s \notin Range(fludees'[b])
      BY <1>2, <1>3, <1>7, <1>8, <2>2, <3>1
    <3> QED BY <1>11, <2>2, <3>2
  <2>3. CASE b # c /\ s # c
    <3>1. s \in Range(fludees'[b]) <=> s \in Range(fludees[b])
      BY <1>7, <1>8, <2>3
    <3> QED BY <1>2, <1>4, <1>10, <2>3, <3>1
  <2> QED BY <2>1, <2>2, <2>3
<1>15. FludLinks'
  BY <1>14 DEF FludLinks
<1> QED BY <1>8, <1>12, <1>13, <1>15 DEF FludInv

\* A second passes.
LEMMA FludTicks ==
  ASSUME FludInv, HandlingOK', MessageTick
  PROVE  FludInv'
<1>1. /\ HandlingOK /\ FludeeLists(fludees)
      /\ fluders \in [Floodable -> Seq(FludRecs)] /\ passed \in [Floodable -> Seq(PassRecs)]
      /\ \A s \in Floodable : FloodOK(fluders[s], passed[s], mnow)
  BY DEF FludInv
<1>2. /\ mnow' = mnow + 1 /\ mnow \in Nat /\ fluders' = fluders /\ fludees' = fludees /\ there' = there
      /\ passed' = [t \in Floodable |-> Keep(passed[t], {e \in Range(passed[t]) : e.at >= mnow' - FludTime})]
  BY <1>1 DEF MessageTick, HandlingOK
<1>3. FludLinks'
  BY <1>2 DEF FludInv, FludLinks
<1>4. ASSUME NEW t \in Floodable PROVE FloodOK(fluders[t], passed'[t], mnow + 1)
  <2>1. PICK l, h, n, L : /\ l = fluders[t] /\ h = passed[t] /\ n = mnow
                          /\ L = {e \in Range(h) : e.at >= (n + 1) - FludTime}
    OBVIOUS
  <2>2. FloodOK(l, h, n) /\ n \in Nat
    BY <1>1, <1>2, <2>1
  <2>3. l \in Seq(FludRecs) /\ h \in Seq(PassRecs)
        /\ \A k \in 1 .. Len(h) : Noted(l, h[k])
    BY <2>2 DEF FloodOK
  <2>4. PICK g : g = passed'[t]
    OBVIOUS
  <2>5. g = Keep(h, L)
    BY <1>2, <2>1, <2>4
  <2>6. g \in Seq(PassRecs) /\ Range(g) = Range(h) \cap L /\ \E bt : Thins(g, h, bt)
    BY <2>3, <2>5, KeepSpec
  <2>7. ASSUME NEW k \in 1 .. Len(g) PROVE g[k].at >= (n + 1) - FludTime /\ Noted(l, g[k])
    <3>1. g[k] \in Range(g)
      BY <2>6 DEF Range
    <3>2. g[k] \in Range(h) /\ g[k] \in L
      BY <2>6, <3>1
    <3>3. PICK m \in 1 .. Len(h) : h[m] = g[k]
      BY <2>3, <3>2 DEF Range
    <3> QED BY <2>1, <2>3, <3>2, <3>3
  <2>8. PICK at : Thins(l, l, at)
    BY <2>3, ThinsSelf
  <2>9. PICK bt : Thins(g, h, bt)
    BY <2>6
  <2>10. n + 1 \in Nat /\ n + 1 >= n
    BY <2>2
  <2>11. FloodOK(l, g, n + 1)
    BY <2>2, <2>3, <2>6, <2>7, <2>8, <2>9, <2>10, FloodLess
  <2> QED BY <2>1, <2>4, <2>11
<1>5. passed' \in [Floodable -> Seq(PassRecs)]
  <2>1. \A t \in Floodable : passed'[t] \in Seq(PassRecs)
    BY <1>4 DEF FloodOK
  <2> QED BY <1>2, <2>1
<1> QED BY <1>1, <1>2, <1>3, <1>4, <1>5 DEF FludInv

\* Every step keeps the lists of fluders and fludees alike, and floods out.
LEMMA FludStep ==
  ASSUME FludInv, [MessageNext]_messageVars
  PROVE  FludInv'
<1>1. HandlingOK /\ HandlingOK'
  BY HandlingStep DEF FludInv
<1>2. ASSUME UNCHANGED <<fluders, fludees, passed, mnow>>, there \subseteq there' PROVE FludInv'
  <2>1. FludLinks'
    BY <1>2 DEF FludInv, FludLinks
  <2> QED BY <1>1, <1>2, <2>1 DEF FludInv
<1>3. ASSUME NEW c \in Speakers, NEW ctcp \in BOOLEAN, NEW to \in Lists, m_message(c, ctcp, to)
      PROVE  FludInv'
  BY <1>2, <1>3 DEF m_message
<1>4. ASSUME NEW t \in Clients \cup Chans, message_channel(t) PROVE FludInv'
  <2>1. t \in Chans /\ handling # None /\ mnow' = mnow /\ there' = there
    BY <1>4 DEF message_channel, Handles
  <2>2. handling.by \in there
    BY <1>1, <2>1 DEF HandlingOK
  <2>3. unflooded \/ check_for_flud(handling.by, t)
    BY <1>4 DEF message_channel
  <2>4. CASE unflooded
    BY <1>2, <2>1, <2>4 DEF unflooded
  <2>5. CASE check_for_flud(handling.by, t)
    <3>1. PICK c \in there : c = handling.by
      BY <2>2
    <3>2. t \in Floodable /\ t \notin Clients
      BY <2>1, FludNumbers DEF Floodable
    <3>3. check_for_flud(c, t)
      BY <2>5, <3>1
    <3> QED BY <1>1, <2>1, <3>2, <3>3, FludChecks
  <2> QED BY <2>3, <2>4, <2>5
<1>5. ASSUME NEW t \in Clients \cup Chans, message_client(t) PROVE FludInv'
  <2>1. t \in Clients /\ handling # None /\ mnow' = mnow /\ there' = there
    BY <1>5 DEF message_client, Handles
  <2>2. handling.by \in there
    BY <1>1, <2>1 DEF HandlingOK
  <2>3. unflooded \/ (check_for_flud(handling.by, t) /\ t \in Near /\ t \in there)
    BY <1>5 DEF message_client
  <2>4. CASE unflooded
    BY <1>2, <2>1, <2>4 DEF unflooded
  <2>5. CASE check_for_flud(handling.by, t) /\ t \in Near /\ t \in there
    <3>1. PICK c \in there : c = handling.by
      BY <2>2
    <3>2. t \in Floodable
      BY <2>5 DEF Floodable
    <3>3. check_for_flud(c, t)
      BY <2>5, <3>1
    <3> QED BY <1>1, <2>1, <2>5, <3>2, <3>3, FludChecks
  <2> QED BY <2>3, <2>4, <2>5
<1>6. ASSUME NEW t \in Clients \cup Chans, free_channel(t) PROVE FludInv'
  BY <1>1, <1>6, FludFrees
<1>7. ASSUME NEW c \in Clients, FludExit(c) PROVE FludInv'
  BY <1>1, <1>7, FludLeaves
<1>8. ASSUME NEW c \in Clients, FludArrive(c) PROVE FludInv'
  BY <1>2, <1>8 DEF FludArrive
<1>11. ASSUME NEW c \in Clients, FludModes(c) PROVE FludInv'
  BY <1>2, <1>11 DEF FludModes
<1>9. ASSUME MessageTick PROVE FludInv'
  BY <1>1, <1>9, FludTicks
<1>10. ASSUME UNCHANGED messageVars PROVE FludInv'
  BY <1>2, <1>10 DEF messageVars
<1> QED BY <1>3, <1>4, <1>5, <1>6, <1>7, <1>8, <1>9, <1>10, <1>11, Movers DEF MessageNext

\* Nobody has sent anything.
LEMMA FludStart == MessageInit => FludInv
<1> SUFFICES ASSUME MessageInit PROVE FludInv
  OBVIOUS
<1>1. HandlingOK
  BY FludNumbers DEF MessageInit, HandlingOK
<1>2. /\ fluders = [t \in Floodable |-> <<>>] /\ fludees = [c \in Clients |-> <<>>]
      /\ passed = [t \in Floodable |-> <<>>]
  BY DEF MessageInit
<1>3. << >> \in Seq(FludRecs) /\ << >> \in Seq(PassRecs) /\ << >> \in Seq(Floodable)
      /\ IsInjective(<< >>) /\ Range(<< >>) = {} /\ Fluders(<< >>) = {}
  BY DEF IsInjective, Range, Fluders
<1>4. FludeeLists(fludees)
  BY <1>2, <1>3 DEF FludeeLists
<1>5. FludLinks
  BY <1>2, <1>3 DEF FludLinks
<1>6. \A t \in Floodable : FloodOK(fluders[t], passed[t], mnow)
  BY <1>2, NothingFloods
<1> QED BY <1>1, <1>2, <1>3, <1>4, <1>5, <1>6 DEF FludInv

\* The lists mirror each other, as the property counts it.
LEMMA FludMirrors == FludInv => FludMirror
<1> SUFFICES ASSUME FludInv PROVE FludMirror
  OBVIOUS
<1>1. /\ FludeeLists(fludees) /\ fluders \in [Floodable -> Seq(FludRecs)]
      /\ \A s \in Floodable : FloodOK(fluders[s], passed[s], mnow)
  BY DEF FludInv
<1>2. \A b \in Clients, s \in Floodable :
        /\ b \in Fluders(fluders[s]) <=> s \in Range(fludees[b])
        /\ s \in Range(fludees[b]) => b \in there /\ (s \in Clients => s \in there)
  BY DEF FludInv, FludLinks
<1>3. \A c \in Clients : fludees[c] \in Seq(Floodable) /\ IsInjective(fludees[c])
  BY <1>1 DEF FludeeLists
<1>4. ASSUME NEW c \in Clients, NEW t \in Floodable
      PROVE  Cardinality({i \in DOMAIN fluders[t] : fluders[t][i].fluder = c})
             = Cardinality({i \in DOMAIN fludees[c] : fludees[c][i] = t})
  <2>1. PICK l : l = fluders[t]
    OBVIOUS
  <2>2. l \in Seq(FludRecs) /\ \A i, j \in 1 .. Len(l) : l[i].fluder = l[j].fluder => i = j
    BY <1>1, <2>1 DEF FloodOK
  <2>3. DOMAIN l = 1 .. Len(l)
    BY <2>2
  <2>4. Cardinality({i \in DOMAIN l : l[i].fluder = c}) = IF c \in Fluders(l) THEN 1 ELSE 0
    <3>1. CASE c \in Fluders(l)
      <4>1. PICK k \in 1 .. Len(l) : l[k].fluder = c
        BY <2>3, <3>1 DEF Fluders
      <4>2. {i \in DOMAIN l : l[i].fluder = c} = {k}
        BY <2>2, <2>3, <4>1
      <4> QED BY <3>1, <4>2, FS_Singleton
    <3>2. CASE c \notin Fluders(l)
      <4>1. {i \in DOMAIN l : l[i].fluder = c} = {}
        BY <3>2 DEF Fluders
      <4> QED BY <3>2, <4>1, FS_EmptySet
    <3> QED BY <3>1, <3>2
  <2>5. Cardinality({i \in DOMAIN fludees[c] : fludees[c][i] = t}) = IF t \in Range(fludees[c]) THEN 1 ELSE 0
    BY <1>3, CountedOnce
  <2> QED BY <1>2, <2>1, <2>4, <2>5
<1>5. ASSUME NEW t \in Floodable PROVE Fluders(fluders[t]) \subseteq there
  <2>1. Fluders(fluders[t]) \subseteq Clients
    <3>1. \A i \in DOMAIN fluders[t] : fluders[t][i] \in FludRecs
      BY <1>1
    <3>2. \A i \in DOMAIN fluders[t] : fluders[t][i].fluder \in Clients
      BY <3>1 DEF FludRecs
    <3> QED BY <3>2 DEF Fluders
  <2> QED BY <1>2, <2>1
<1>6. ASSUME NEW c \in Clients PROVE IsInjective(fludees[c]) /\ Range(fludees[c]) \cap Clients \subseteq there
  <2>1. Range(fludees[c]) \subseteq Floodable
    BY <1>3 DEF Range
  <2> QED BY <1>2, <1>3, <2>1
<1> QED BY <1>4, <1>5, <1>6 DEF FludMirror

\* The limit holds where all the fluders are new to the target.
LEMMA FludStops == FludInv => FloodStopped
<1> SUFFICES ASSUME FludInv, NEW t \in Floodable,
                    \A i \in DOMAIN fluders[t] : fluders[t][i].first_msg >= mnow - FludTime
             PROVE  Cardinality({i \in DOMAIN passed[t] : passed[t][i].at >= mnow - FludTime}) <= FludNum
  BY DEF FloodStopped
<1>1. PICK l, h, n : l = fluders[t] /\ h = passed[t] /\ n = mnow
  OBVIOUS
<1>2. FloodOK(l, h, n)
  BY <1>1 DEF FludInv
<1>3. /\ l \in Seq(FludRecs) /\ h \in Seq(PassRecs)
      /\ \A k \in 1 .. Len(h) : h[k].at >= n - FludTime /\ Noted(l, h[k])
      /\ Cardinality(Occ(h, Fresh(l, n - FludTime))) <= FludNum
  BY <1>2 DEF FloodOK
<1>4. DOMAIN h = 1 .. Len(h) /\ DOMAIN l = 1 .. Len(l)
  BY <1>3
<1>5. \A i \in 1 .. Len(l) : l[i].first_msg >= n - FludTime
  BY <1>1, <1>4
<1>6. ASSUME NEW k \in 1 .. Len(h) PROVE h[k] \in Fresh(l, n - FludTime)
  <2>1. PICK i \in 1 .. Len(l) : l[i].fluder = h[k].by
    BY <1>3 DEF Noted
  <2>2. h[k] \in PassRecs
    BY <1>3
  <2> QED BY <1>5, <2>1, <2>2 DEF Fresh
<1>7. {i \in DOMAIN h : h[i].at >= n - FludTime} = Occ(h, Fresh(l, n - FludTime))
  BY <1>3, <1>4, <1>6 DEF Occ
<1> QED BY <1>1, <1>3, <1>7

\* check_for_flud, free_fluders and free_fludees for every number of clients and
\* every limit: the lists of fluders and fludees mirror each other and name no
\* client that is gone, and no more than FLUD_NUM CTCPs of new fluders reach a
\* target within FLUD_TIME.
THEOREM FloodsAlwaysStopped == MessageSpec => []FludRight
<1>1. FludInv => FludRight
  BY FludMirrors, FludStops DEF FludRight
<1>2. FludInv /\ [MessageNext]_messageVars => FludInv'
  BY FludStep
<1> QED BY FludStart, <1>1, <1>2, PTL DEF MessageSpec
=============================================================================
