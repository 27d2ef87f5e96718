-------------------------- MODULE BanCacheProofs --------------------------
(***************************************************************************)
(* The cached ban answers are right, for any users, masks and list bounds. *)
(* And the bans of the whole server: they keep out whom they match, shuns  *)
(* end, and the journal of K-lines agrees with the lists.                  *)
(***************************************************************************)
EXTENDS BanCache, Klines, ListLemmas

IInv == BanTypeOK /\ SerialsBehind /\ CacheExact

\* No identity is the "filled without matching" mark.
LEMMA NoIdNoId == NoId \notin Ids
BY DEF NoId, Ids

\* A step that changes a list by at least one mask takes a larger number,
\* so every cached answer becomes stale at once.
LEMMA NewNumber ==
  ASSUME IInv, NEW n \in Nat \ {0}, bump(n), UNCHANGED <<on, cache, id>>
  PROVE  /\ banserial' \in 0..MaxSerial
         /\ SerialsBehind'
         /\ CacheExact'
<1>1. banserial' \in 0..MaxSerial /\ banserial' > banserial
  BY BoundAssumption DEF bump, IInv, BanTypeOK
<1>2. \A u \in Members : cmserial'[u] <= banserial /\ cmserial'[u] \in Int
  BY DEF IInv, SerialsBehind, BanTypeOK, cache
<1>3. SerialsBehind'
  BY <1>1, <1>2 DEF SerialsBehind, IInv, BanTypeOK
<1>4. \A u \in on' : cmserial'[u] # banserial'
  BY <1>1, <1>2 DEF IInv, BanTypeOK
<1>5. CacheExact'
  BY <1>4 DEF CacheExact
<1>6. QED BY <1>1, <1>3, <1>5

\* The masks that remove_matching_bans and its twin drop can be counted.
LEMMA CountGone ==
  ASSUME NEW L \in SUBSET Masks, NEW i
  PROVE  LET gone == {b \in L : i \in b}
         IN gone # {} => Cardinality(gone) \in Nat \ {0}
<1> DEFINE gone == {b \in L : i \in b}
<1>1. gone \subseteq Masks /\ IsFiniteSet(Masks)
  BY MaskAssumption
<1>2. IsFiniteSet(gone)
  BY <1>1, FS_Subset
<1>3. Cardinality(gone) \in Nat /\ (Cardinality(gone) = 0 <=> gone = {})
  BY <1>2, FS_CardinalityType, FS_EmptySet
<1>4. QED BY <1>3

\* An empty channel satisfies the invariant.
LEMMA InitIInv == BanInit => IInv
<1> SUFFICES ASSUME BanInit PROVE IInv
  OBVIOUS
<1>0. 0 \in 0..MaxSerial /\ cmbanned \in [Members -> BOOLEAN]
  BY BoundAssumption DEF BanInit
<1>1. BanTypeOK
  BY <1>0 DEF BanInit, BanTypeOK
<1>2. SerialsBehind
  BY DEF BanInit, SerialsBehind
<1>3. CacheExact
  BY DEF BanInit, CacheExact
<1>4. QED BY <1>1, <1>2, <1>3 DEF IInv

\* A step that leaves lists and caches alone, or that changes the cache of a
\* member to what the lists say.
LEMMA RememberStep ==
  ASSUME IInv, NEW u \in on, remember(u), UNCHANGED <<lists, on>>
  PROVE  /\ cmserial' \in [Members -> 0..MaxSerial]
         /\ cmbanned' \in [Members -> BOOLEAN]
         /\ seenAs' \in [Members -> Ids \cup {NoId}]
         /\ SerialsBehind' /\ CacheExact'
<1>1. CASE cmserial[u] = banserial
  BY <1>1 DEF remember, IInv, BanTypeOK, SerialsBehind, CacheExact, cache, lists, matched
<1>2. CASE cmserial[u] # banserial
  <2>1. /\ cmserial' = [cmserial EXCEPT ![u] = banserial]
        /\ cmbanned' = [cmbanned EXCEPT ![u] = matched(id[u])]
        /\ seenAs' = [seenAs EXCEPT ![u] = id[u]]
    BY <1>2 DEF remember
  <2>2. u \in Members /\ matched(id[u]) \in BOOLEAN
    BY DEF IInv, BanTypeOK, matched
  <2>3. /\ cmserial' \in [Members -> 0..MaxSerial]
        /\ seenAs' \in [Members -> Ids \cup {NoId}]
        /\ SerialsBehind'
    BY <2>1, <2>2, BoundAssumption DEF IInv, BanTypeOK, SerialsBehind, lists
  <2>4. cmbanned' \in [Members -> BOOLEAN]
    BY <2>1, <2>2 DEF IInv, BanTypeOK
  <2>5. CacheExact'
    BY <2>1, <2>2 DEF IInv, BanTypeOK, CacheExact, lists, matched
  <2>6. QED BY <2>3, <2>4, <2>5
<1>3. QED BY <1>1, <1>2

\* Every handler keeps the invariant: a list change ages all answers, a
\* refill makes the answer exact.
LEMMA StepIInv == IInv /\ [BanNext]_banVars => IInv'
<1> SUFFICES ASSUME IInv, [BanNext]_banVars PROVE IInv'
  OBVIOUS
<1> USE DEF IInv
<1>1. ASSUME NEW m \in Masks, NEW local \in LocalSetters,
             add_banid(m, local) \/ add_exempt_id(m, local)
      PROVE  IInv'
  <2>1. bump(1) /\ UNCHANGED <<on, cache, id>>
    BY <1>1 DEF add_banid, add_exempt_id
  <2>2. banserial' \in 0..MaxSerial /\ SerialsBehind' /\ CacheExact'
    BY <2>1, NewNumber
  <2>3. BanTypeOK'
    BY <1>1, <2>2 DEF add_banid, add_exempt_id, BanTypeOK, cache
  <2>4. QED BY <2>2, <2>3
<1>2. ASSUME NEW m \in Masks, del_banid(m) \/ del_exempt_id(m)
      PROVE  IInv'
  <2>1. bump(1) /\ UNCHANGED <<on, cache, id>>
    BY <1>2 DEF del_banid, del_exempt_id
  <2>2. banserial' \in 0..MaxSerial /\ SerialsBehind' /\ CacheExact'
    BY <2>1, NewNumber
  <2>3. BanTypeOK'
    BY <1>2, <2>2 DEF del_banid, del_exempt_id, BanTypeOK, cache
  <2>4. QED BY <2>2, <2>3
<1>3. CASE kill_ban_list
  <2>1. bump(1) /\ UNCHANGED <<on, cache, id>>
    BY <1>3 DEF kill_ban_list
  <2>2. banserial' \in 0..MaxSerial /\ SerialsBehind' /\ CacheExact'
    BY <2>1, NewNumber
  <2>3. BanTypeOK'
    BY <1>3, <2>2 DEF kill_ban_list, BanTypeOK, cache
  <2>4. QED BY <2>2, <2>3
<1>4. ASSUME NEW u \in Members, remove_matching_bans(u)
      PROVE  IInv'
  <2> DEFINE n == Cardinality({b \in banlist : id[u] \in b})
  <2>1. n \in Nat \ {0}
    BY <1>4, CountGone DEF remove_matching_bans, BanTypeOK
  <2>2. bump(n) /\ UNCHANGED <<on, cache, id>>
    BY <1>4 DEF remove_matching_bans
  <2> HIDE DEF n
  <2>3. banserial' \in 0..MaxSerial /\ SerialsBehind' /\ CacheExact'
    BY <2>1, <2>2, NewNumber
  <2>4. BanTypeOK'
    BY <1>4, <2>3 DEF remove_matching_bans, BanTypeOK, cache
  <2>5. QED BY <2>3, <2>4
<1>5. ASSUME NEW u \in Members, remove_matching_exempts(u)
      PROVE  IInv'
  <2> DEFINE n == Cardinality({e \in exempts : id[u] \in e})
  <2>1. n \in Nat \ {0}
    BY <1>5, CountGone DEF remove_matching_exempts, BanTypeOK
  <2>2. bump(n) /\ UNCHANGED <<on, cache, id>>
    BY <1>5 DEF remove_matching_exempts
  <2> HIDE DEF n
  <2>3. banserial' \in 0..MaxSerial /\ SerialsBehind' /\ CacheExact'
    BY <2>1, <2>2, NewNumber
  <2>4. BanTypeOK'
    BY <1>5, <2>3 DEF remove_matching_exempts, BanTypeOK, cache
  <2>5. QED BY <2>3, <2>4
<1>6. CASE set_moderated \/ \E u \in Members : set_status(u)
  <2>1. BanTypeOK'
    BY <1>6 DEF set_moderated, set_status, BanTypeOK, lists, cache
  <2>2. UNCHANGED <<lists, cache, on>>
    BY <1>6 DEF set_moderated, set_status
  <2>3. SerialsBehind' /\ CacheExact'
    BY <2>2 DEF SerialsBehind, CacheExact, matched, lists, cache
  <2>4. QED BY <2>1, <2>3
<1>7. ASSUME NEW u \in Members, NEW tested \in BOOLEAN, add_user_to_channel(u, tested)
      PROVE  IInv'
  <2> USE <1>7 DEF add_user_to_channel
  <2>1. BanTypeOK' /\ SerialsBehind'
    BY DEF BanTypeOK, SerialsBehind, lists
  <2>2. CacheExact'
    <3>1. /\ seenAs' = [seenAs EXCEPT ![u] = IF tested THEN id[u] ELSE NoId]
          /\ cmserial' = [cmserial EXCEPT ![u] = banserial]
          /\ cmbanned' = [cmbanned EXCEPT ![u] = FALSE]
          /\ on' = on \cup {u} /\ (tested => ~ matched(id[u]))
          /\ banlist' = banlist /\ exempts' = exempts /\ banserial' = banserial
      BY DEF lists
    <3> HIDE <1>7
    <3>2. ASSUME NEW v \in on', v # u, cmserial'[v] = banserial', seenAs'[v] # NoId
          PROVE  cmbanned'[v] <=> matched(seenAs[v])
      <4>1. /\ v \in on /\ v \in Members /\ cmserial'[v] = cmserial[v]
            /\ cmbanned'[v] = cmbanned[v] /\ seenAs'[v] = seenAs[v]
        BY <3>1, <3>2 DEF BanTypeOK
      <4>2. QED BY <4>1, <3>1, <3>2 DEF CacheExact
    <3>3. ASSUME seenAs'[u] # NoId
          PROVE  ~ cmbanned'[u] /\ ~ matched(seenAs'[u])
      <4>1. seenAs'[u] = (IF tested THEN id[u] ELSE NoId) /\ cmbanned'[u] = FALSE
        BY <3>1 DEF BanTypeOK
      <4>2. QED BY <4>1, <3>1, <3>3
    <3>4. \A v \in on' : v # u => seenAs'[v] = seenAs[v]
      BY <3>1 DEF BanTypeOK
    <3>5. \A v \in on' : cmserial'[v] = banserial' /\ seenAs'[v] # NoId
             => (cmbanned'[v] <=> matched(seenAs'[v]))
      BY <3>2, <3>3, <3>4
    <3>6. QED BY <3>1, <3>5 DEF CacheExact, matched
  <2>3. QED BY <2>1, <2>2
<1>8. ASSUME NEW u \in Members, remove_user_from_channel(u)
      PROVE  IInv'
  <2> USE <1>8 DEF remove_user_from_channel
  <2>1. BanTypeOK' /\ SerialsBehind'
    BY BoundAssumption DEF BanTypeOK, SerialsBehind, lists
  <2>2. CacheExact'
    BY DEF BanTypeOK, CacheExact, matched, lists
  <2>3. QED BY <2>1, <2>2
<1>9. ASSUME NEW u \in Members, m_message(u)
      PROVE  IInv'
  <2>1. /\ u \in on /\ remember(u)
        /\ UNCHANGED <<lists, moderated, on, status, id>>
    BY <1>9 DEF m_message
  <2>2. /\ cmserial' \in [Members -> 0..MaxSerial] /\ cmbanned' \in [Members -> BOOLEAN]
        /\ seenAs' \in [Members -> Ids \cup {NoId}]
        /\ SerialsBehind' /\ CacheExact'
    BY <2>1, RememberStep
  <2>3. BanTypeOK'
    BY <2>1, <2>2 DEF BanTypeOK, lists
  <2>4. QED BY <2>2, <2>3
<1>10. ASSUME NEW u \in Members, NEW n \in Nicks, NEW refused \in BOOLEAN, m_nick(u, n, refused)
       PROVE  IInv'
  <2>1. UNCHANGED <<lists, moderated, on, status>> /\ id' \in [Members -> Ids]
    BY <1>10 DEF m_nick, BanTypeOK, Ids
  <2>2. CASE u \in on /\ consults(u)
    <3>1. remember(u)
      BY <1>10, <2>2 DEF m_nick
    <3>2. /\ cmserial' \in [Members -> 0..MaxSerial] /\ cmbanned' \in [Members -> BOOLEAN]
          /\ seenAs' \in [Members -> Ids \cup {NoId}]
          /\ SerialsBehind' /\ CacheExact'
      BY <2>1, <2>2, <3>1, RememberStep
    <3>3. BanTypeOK'
      BY <2>1, <3>2 DEF BanTypeOK, lists
    <3>4. QED BY <3>2, <3>3
  <2>3. CASE ~ (u \in on /\ consults(u))
    <3>1. UNCHANGED cache
      BY <1>10, <2>3 DEF m_nick
    <3>2. BanTypeOK' /\ SerialsBehind' /\ CacheExact'
      BY <2>1, <3>1 DEF BanTypeOK, SerialsBehind, CacheExact, matched, lists, cache
    <3>3. QED BY <3>2
  <2>4. QED BY <2>2, <2>3
<1>11. ASSUME NEW u \in Members, NEW i \in Ids, set_identity(u, i)
       PROVE  IInv'
  BY <1>11 DEF set_identity, BanTypeOK, SerialsBehind, CacheExact, matched, lists, cache
<1>12. CASE UNCHANGED banVars
  BY <1>12 DEF banVars, BanTypeOK, SerialsBehind, CacheExact, matched, lists, cache
<1>13. QED
  BY <1>1, <1>2, <1>3, <1>4, <1>5, <1>6, <1>7, <1>8, <1>9, <1>10, <1>11, <1>12 DEF BanNext

\* The inductive invariant holds in every reachable state.
LEMMA IInvHolds == BanSpec => []IInv
BY InitIInv, StepIInv, PTL DEF BanSpec

\* Types, and status flags only on members.
THEOREM TypeCorrect == BanSpec => []BanTypeOK
<1>1. IInv => BanTypeOK
  BY DEF IInv
<1>2. QED BY <1>1, IInvHolds, PTL

\* is_banned never answers from a cache that the lists contradict: every
\* change of a list (add_banid .. kill_ban_list) makes all cached answers
\* stale, and a cached answer is about the identity it was computed for.
THEOREM CacheAlwaysSound == BanSpec => []CacheSound
<1>1. IInv => CacheSound
  <2> SUFFICES ASSUME IInv, NEW u \in on, seenAs[u] = id[u]
               PROVE  is_banned(u) <=> matched(id[u])
    BY DEF CacheSound
  <2>1. seenAs[u] # NoId
    BY NoIdNoId DEF IInv, BanTypeOK
  <2>2. CASE cmserial[u] = banserial
    BY <2>1, <2>2 DEF IInv, CacheExact, is_banned
  <2>3. CASE cmserial[u] # banserial
    BY <2>3 DEF is_banned
  <2>4. QED BY <2>2, <2>3
<1>2. QED BY <1>1, IInvHolds, PTL
----------------------------------------------------------------------------
(* Bans on users and the journal of K-lines (UserBan.tla, Klines.tla).      *)

\* Where list s has K-lines on m, and that there is at most one.
KlinesOn(s, m) == {i \in 1 .. Len(s) : s[i].kind = "kline" /\ s[i].mask = m}
OneOn(s, m) == \A i, j \in KlinesOn(s, m) : i = j

\* When a ban ends (0: never), and whether that is over.
Until(b) == IF b.length = 0 THEN 0 ELSE b.start + b.length
Past(u) == u # 0 /\ u <= timeofday

\* Lines of the file: an entry for m and a removal of m.
Sets(l, m) == l.type = "+" /\ l.mask = m
Lifts(l, m) == l.type = "-" /\ l.mask = m

\* Line i of file f sets m, its time is not over and none of the lines up to
\* line n lifts it.
StandsAt(f, n, i, m) == /\ i \in 1 .. n /\ Sets(f[i], m) /\ ~ Past(f[i].until)
                        /\ \A k \in 1 .. n : i < k => ~ Lifts(f[k], m)

\* Between two lines that set m the first one is lifted, unless it is over.
OneAtATime(f, m) ==
  \A i, j \in 1 .. Len(f) :
    i < j /\ Sets(f[i], m) /\ Sets(f[j], m) /\ ~ Past(f[i].until)
    => \E k \in 1 .. Len(f) : i < k /\ k < j /\ Lifts(f[k], m)

\* The lines that stand are the K-lines that are stored, with their times.
AgreeOn(s, f, m) ==
  /\ \A b \in Range(s) : storable(b) /\ b.mask = m /\ ~ Past(Until(b))
       => \E i \in 1 .. Len(f) : StandsAt(f, Len(f), i, m) /\ f[i].until = Until(b)
  /\ \A i \in 1 .. Len(f) : StandsAt(f, Len(f), i, m)
       => \E b \in Range(s) : storable(b) /\ b.mask = m /\ Until(b) = f[i].until

NoTorn(f) == \A i \in 1 .. Len(f) : f[i] # Torn

\* The lists, the file, and the file of an open journal.
ListOK == userbans \in Seq(BanRecs) /\ \A m \in BanMasks \ doubtful : OneOn(userbans, m)
FileOK == klinesFile \in Seq(LineRecs) /\ \A m \in BanMasks \ doubtful : OneAtATime(klinesFile, m)
JournalOK == journal => /\ NoTorn(klinesFile)
                        /\ \A m \in BanMasks \ doubtful : AgreeOn(userbans, klinesFile, m)

KlinesInv == /\ timeofday \in Nat /\ journal \in BOOLEAN
             /\ ListOK /\ FileOK /\ JournalOK
             /\ ShunEnds /\ BannedGone

\* Fewer bans: still at most one K-line on m, and no new ones.
LEMMA ThinnerBans ==
  ASSUME NEW s \in Seq(BanRecs), NEW r \in Seq(BanRecs), NEW at, Thins(r, s, at), NEW m
  PROVE  /\ Range(r) \subseteq Range(s)
         /\ OneOn(s, m) => OneOn(r, m)
         /\ KlinesOn(s, m) = {} => KlinesOn(r, m) = {}
<1>1. Range(r) \subseteq Range(s)
  BY ThinnerList
<1>2. Len(r) \in Nat /\ Len(s) \in Nat
  OBVIOUS
<1>3. ASSUME NEW i \in KlinesOn(r, m) PROVE at[i] \in KlinesOn(s, m) /\ i \in 1 .. Len(r)
  BY DEF KlinesOn, Thins
<1>4. ASSUME OneOn(s, m), NEW i \in KlinesOn(r, m), NEW j \in KlinesOn(r, m) PROVE i = j
  <2>1. at[i] = at[j] /\ i \in 1 .. Len(r) /\ j \in 1 .. Len(r) /\ at[i] \in 1 .. Len(s)
    BY <1>3, <1>4 DEF OneOn, KlinesOn
  <2>2. ~ (i < j) /\ ~ (j < i)
    BY <1>2, <2>1 DEF Thins
  <2> QED BY <1>2, <2>1, <2>2
<1> QED BY <1>1, <1>3, <1>4 DEF OneOn

\* A list from which some bans are taken.
LEMMA KeptBans ==
  ASSUME NEW s \in Seq(BanRecs), NEW K, NEW m
  PROVE  /\ Keep(s, K) \in Seq(BanRecs) /\ Range(Keep(s, K)) = Range(s) \cap K
         /\ OneOn(s, m) => OneOn(Keep(s, K), m)
         /\ KlinesOn(s, m) = {} => KlinesOn(Keep(s, K), m) = {}
<1> PICK r : r = Keep(s, K) OBVIOUS
<1>1. r \in Seq(BanRecs) /\ Range(r) = Range(s) \cap K /\ \E at : Thins(r, s, at)
  BY KeepSpec
<1> QED BY <1>1, ThinnerBans

\* K-lines on m by the members of the list.
LEMMA NoKlineOn ==
  ASSUME NEW s \in Seq(BanRecs), NEW m
  PROVE  KlinesOn(s, m) = {} <=> \A b \in Range(s) : ~ (b.kind = "kline" /\ b.mask = m)
<1>1. DOMAIN s = 1 .. Len(s)
  OBVIOUS
<1> QED BY <1>1 DEF KlinesOn, Range

\* A ban more.
LEMMA MoreBans ==
  ASSUME NEW s \in Seq(BanRecs), NEW b \in BanRecs, NEW m
  PROVE  LET r == add_hostbased_userban(s, b)
         IN  /\ r \in Seq(BanRecs) /\ Range(r) = Range(s) \cup {b}
             /\ b.kind # "kline" \/ b.mask # m =>
                  /\ OneOn(s, m) => OneOn(r, m)
                  /\ KlinesOn(s, m) = {} => KlinesOn(r, m) = {}
             /\ KlinesOn(s, m) = {} => OneOn(r, m)
<1> DEFINE r == add_hostbased_userban(s, b)
<1>1. /\ r \in Seq(BanRecs) /\ Len(r) = Len(s) + 1 /\ r[1] = b
      /\ \A i \in 2 .. Len(r) : r[i] = s[i - 1]
      /\ Range(r) = Range(s) \cup {b}
  BY PushSpec DEF add_hostbased_userban
<1> HIDE DEF r
<1>2. Len(s) \in Nat
  OBVIOUS
<1>3. ASSUME NEW i \in KlinesOn(r, m), i # 1 PROVE i - 1 \in KlinesOn(s, m) /\ i \in Int
  <2>1. i \in 2 .. Len(r) /\ i - 1 \in 1 .. Len(s)
    BY <1>1, <1>2, <1>3 DEF KlinesOn
  <2> QED BY <1>1, <2>1 DEF KlinesOn
<1>4. ASSUME b.kind # "kline" \/ b.mask # m, NEW i \in KlinesOn(r, m) PROVE i # 1
  BY <1>1, <1>4 DEF KlinesOn
<1>5. ASSUME b.kind # "kline" \/ b.mask # m, OneOn(s, m) PROVE OneOn(r, m)
  <2>1. ASSUME NEW i \in KlinesOn(r, m), NEW j \in KlinesOn(r, m) PROVE i = j
    <3>1. i - 1 = j - 1 /\ i \in Int /\ j \in Int
      BY <1>3, <1>4, <1>5 DEF OneOn
    <3> QED BY <3>1
  <2> QED BY <2>1 DEF OneOn
<1>6. ASSUME KlinesOn(s, m) = {} PROVE OneOn(r, m)
  BY <1>3, <1>6 DEF OneOn
<1> QED BY <1>1, <1>3, <1>4, <1>5, <1>6 DEF r

\* A ban less, at k.
LEMMA LessBans ==
  ASSUME NEW s \in Seq(BanRecs), NEW k \in 1 .. Len(s), NEW m
  PROVE  LET r == RemoveAt(s, k)
         IN  /\ r \in Seq(BanRecs) /\ Range(r) \subseteq Range(s)
             /\ \A b \in Range(s) : b \in Range(r) \/ b = s[k]
             /\ OneOn(s, m) => OneOn(r, m)
             /\ KlinesOn(s, m) = {} => KlinesOn(r, m) = {}
             /\ OneOn(s, m) /\ k \in KlinesOn(s, m) => KlinesOn(r, m) = {}
<1> DEFINE r == RemoveAt(s, k)
<1>1. /\ r \in Seq(BanRecs) /\ Len(r) = Len(s) - 1
      /\ \A i \in 1 .. Len(r) : r[i] = IF i < k THEN s[i] ELSE s[i + 1]
      /\ \E at : Thins(r, s, at)
  BY RemoveAtSpec
<1> HIDE DEF r
<1>2. Len(s) \in Nat /\ DOMAIN s = 1 .. Len(s) /\ DOMAIN r = 1 .. Len(r)
  BY <1>1
<1>3. ASSUME NEW b \in Range(s) PROVE b \in Range(r) \/ b = s[k]
  <2>1. PICK i \in 1 .. Len(s) : s[i] = b
    BY <1>2 DEF Range
  <2>2. CASE i < k
    <3>1. i \in 1 .. Len(r) /\ r[i] = b
      BY <1>1, <1>2, <2>1, <2>2
    <3> QED BY <1>2, <3>1 DEF Range
  <2>3. CASE i > k
    <3>1. i - 1 \in 1 .. Len(r) /\ r[i - 1] = b
      BY <1>1, <1>2, <2>1, <2>3
    <3> QED BY <1>2, <3>1 DEF Range
  <2> QED BY <1>2, <2>1, <2>2, <2>3
<1>4. ASSUME OneOn(s, m), k \in KlinesOn(s, m), NEW i \in KlinesOn(r, m) PROVE FALSE
  <2>1. i \in 1 .. Len(r)
    BY DEF KlinesOn
  <2>2. CASE i < k
    <3>1. i \in 1 .. Len(s) /\ r[i] = s[i]
      BY <1>1, <1>2, <2>1, <2>2
    <3>2. i \in KlinesOn(s, m)
      BY <3>1 DEF KlinesOn
    <3> QED BY <1>4, <2>1, <2>2, <3>2 DEF OneOn
  <2>3. CASE ~ (i < k)
    <3>1. i + 1 \in 1 .. Len(s) /\ r[i] = s[i + 1] /\ i + 1 # k
      BY <1>1, <1>2, <2>1, <2>3
    <3>2. i + 1 \in KlinesOn(s, m)
      BY <3>1 DEF KlinesOn
    <3> QED BY <1>4, <3>1, <3>2 DEF OneOn
  <2> QED BY <2>2, <2>3
<1>5. /\ Range(r) \subseteq Range(s)
      /\ OneOn(s, m) => OneOn(r, m)
      /\ KlinesOn(s, m) = {} => KlinesOn(r, m) = {}
  BY <1>1, ThinnerBans
<1> QED BY <1>1, <1>3, <1>4, <1>5 DEF r

\* The ban that is found, or that there is none.
LEMMA FoundBan ==
  ASSUME NEW s \in Seq(BanRecs), NEW m, NEW kinds
  PROVE  LET i == find_userban_exact(s, m, kinds)
         IN  /\ i # 0 => i \in 1 .. Len(s) /\ s[i].mask = m /\ s[i].kind \in kinds
             /\ i = 0 => \A b \in Range(s) : ~ (b.mask = m /\ b.kind \in kinds)
<1> DEFINE at == {i \in DOMAIN s : s[i].mask = m /\ s[i].kind \in kinds}
           f == find_userban_exact(s, m, kinds)
<1>1. f = IF at = {} THEN 0 ELSE CHOOSE i \in at : \A j \in at : i <= j
  BY DEF find_userban_exact
<1>2. DOMAIN s = 1 .. Len(s) /\ Len(s) \in Nat
  OBVIOUS
<1>3. CASE at = {}
  BY <1>1, <1>3 DEF Range
<1>4. CASE at # {}
  <2>1. at \in SUBSET Nat
    BY <1>2
  <2>2. \E x \in at : \A y \in at : x <= y
    <3> HIDE DEF at
    <3> QED BY <1>4, <2>1, Least
  <2>3. f \in at
    <3> HIDE DEF at, f
    <3> QED BY <1>1, <1>4, <2>2
  <2>4. f \in 1 .. Len(s) /\ f # 0 /\ s[f].mask = m /\ s[f].kind \in kinds
    BY <1>2, <2>3
  <2> HIDE DEF f
  <2> QED BY <2>4 DEF f
<1> QED BY <1>3, <1>4

----------------------------------------------------------------------------
(* The replay of the file.                                                 *)

\* One line: other bans stay; a K-line on another mask too.
LEMMA ReadOthers ==
  ASSUME timeofday \in Nat, NEW s \in Seq(BanRecs), NEW l \in LineRecs, l # Torn
  PROVE  /\ ks_read(s, l) \in Seq(BanRecs)
         /\ \A b \in BanRecs : b.kind # "kline" \/ b.mask # l.mask =>
              (b \in Range(ks_read(s, l)) <=> b \in Range(s))
         /\ \A m : m # l.mask /\ OneOn(s, m) => OneOn(ks_read(s, l), m)
<1>1. l.type \in {"+", "-"} /\ l.mask \in BanMasks /\ l.until \in Nat
  BY DEF LineRecs
<1>2. CASE l.type = "+" /\ Past(l.until)
  <2>1. ks_read(s, l) = s
    BY <1>2 DEF ks_read, Past
  <2> QED BY <2>1
<1>3. CASE l.type = "+" /\ ~ Past(l.until)
  <2>1. PICK b : b = Ban(l.mask, "kline", IF l.until = 0 THEN 0 ELSE l.until - timeofday)
    OBVIOUS
  <2>2. b \in BanRecs /\ b.kind = "kline" /\ b.mask = l.mask
    BY <1>1, <1>3, <2>1 DEF Ban, BanRecs, Past
  <2>3. ks_read(s, l) = add_hostbased_userban(s, b)
    BY <1>3, <2>1 DEF ks_read, Past
  <2>4. /\ add_hostbased_userban(s, b) \in Seq(BanRecs)
        /\ Range(add_hostbased_userban(s, b)) = Range(s) \cup {b}
        /\ \A m : m # b.mask /\ OneOn(s, m) => OneOn(add_hostbased_userban(s, b), m)
    BY <2>2, MoreBans
  <2> QED BY <2>2, <2>3, <2>4
<1>4. CASE l.type = "-"
  <2>1. PICK i : i = find_userban_exact(s, l.mask, {"kline"})
    OBVIOUS
  <2>2. ks_read(s, l) = IF i = 0 THEN s ELSE RemoveAt(s, i)
    BY <1>4, <2>1 DEF ks_read
  <2>3. CASE i = 0
    BY <2>2, <2>3
  <2>4. CASE i # 0
    <3>1. i \in 1 .. Len(s) /\ s[i].mask = l.mask /\ s[i].kind = "kline"
      BY <2>1, <2>4, FoundBan
    <3>2. /\ RemoveAt(s, i) \in Seq(BanRecs) /\ Range(RemoveAt(s, i)) \subseteq Range(s)
          /\ \A b \in Range(s) : b \in Range(RemoveAt(s, i)) \/ b = s[i]
          /\ \A m : OneOn(s, m) => OneOn(RemoveAt(s, i), m)
      BY <3>1, LessBans
    <3>3. ks_read(s, l) = RemoveAt(s, i)
      BY <2>2, <2>4
    <3> QED BY <3>1, <3>2, <3>3
  <2> QED BY <2>3, <2>4
<1> QED BY <1>1, <1>2, <1>3, <1>4

\* One line, and the K-lines on its mask.
LEMMA ReadMask ==
  ASSUME timeofday \in Nat, NEW s \in Seq(BanRecs), NEW l \in LineRecs, l # Torn,
         OneOn(s, l.mask)
  PROVE  /\ Sets(l, l.mask) /\ Past(l.until) => ks_read(s, l) = s
         /\ Sets(l, l.mask) /\ ~ Past(l.until) /\ KlinesOn(s, l.mask) = {} =>
              /\ OneOn(ks_read(s, l), l.mask)
              /\ KlinesOn(ks_read(s, l), l.mask) # {}
              /\ \A b \in Range(ks_read(s, l)) :
                   b.kind = "kline" /\ b.mask = l.mask => ~ Past(Until(b))
         /\ Lifts(l, l.mask) => KlinesOn(ks_read(s, l), l.mask) = {}
<1>1. l.type \in {"+", "-"} /\ l.mask \in BanMasks /\ l.until \in Nat
  BY DEF LineRecs
<1>2. ASSUME Sets(l, l.mask), Past(l.until) PROVE ks_read(s, l) = s
  BY <1>2 DEF ks_read, Past, Sets
<1>3. ASSUME Sets(l, l.mask), ~ Past(l.until), KlinesOn(s, l.mask) = {}
      PROVE  /\ OneOn(ks_read(s, l), l.mask)
             /\ KlinesOn(ks_read(s, l), l.mask) # {}
             /\ \A b \in Range(ks_read(s, l)) :
                  b.kind = "kline" /\ b.mask = l.mask => ~ Past(Until(b))
  <2>1. PICK b : b = Ban(l.mask, "kline", IF l.until = 0 THEN 0 ELSE l.until - timeofday)
    OBVIOUS
  <2>2. b \in BanRecs /\ b.kind = "kline" /\ b.mask = l.mask /\ ~ Past(Until(b))
    BY <1>1, <1>3, <2>1 DEF Ban, BanRecs, Past, Until
  <2>3. PICK r : r = add_hostbased_userban(s, b)
    OBVIOUS
  <2>4. ks_read(s, l) = r
    BY <1>3, <2>1, <2>3 DEF ks_read, Past, Sets
  <2>5. r \in Seq(BanRecs) /\ Range(r) = Range(s) \cup {b} /\ OneOn(r, l.mask)
    BY <1>3, <2>2, <2>3, MoreBans
  <2>6. KlinesOn(r, l.mask) # {}
    BY <2>2, <2>5, NoKlineOn
  <2>7. \A a \in Range(s) : ~ (a.kind = "kline" /\ a.mask = l.mask)
    BY <1>3, NoKlineOn
  <2> QED BY <2>2, <2>4, <2>5, <2>6, <2>7
<1>4. ASSUME Lifts(l, l.mask) PROVE KlinesOn(ks_read(s, l), l.mask) = {}
  <2>1. PICK i : i = find_userban_exact(s, l.mask, {"kline"})
    OBVIOUS
  <2>2. ks_read(s, l) = IF i = 0 THEN s ELSE RemoveAt(s, i)
    BY <1>4, <2>1 DEF ks_read, Lifts
  <2>3. CASE i = 0
    <3>1. \A b \in Range(s) : ~ (b.mask = l.mask /\ b.kind \in {"kline"})
      BY <2>1, <2>3, FoundBan
    <3> QED BY <2>2, <2>3, <3>1, NoKlineOn
  <2>4. CASE i # 0
    <3>1. i \in 1 .. Len(s) /\ s[i].mask = l.mask /\ s[i].kind = "kline"
      BY <2>1, <2>4, FoundBan
    <3>2. i \in KlinesOn(s, l.mask)
      BY <3>1 DEF KlinesOn
    <3> QED BY <2>2, <2>4, <3>1, <3>2, LessBans
  <2> QED BY <2>3, <2>4
<1> QED BY <1>2, <1>3, <1>4

\* How far a file is read.
LEMMA WholeSpec ==
  ASSUME NEW f \in Seq(LineRecs)
  PROVE  /\ whole(f) \in 0 .. Len(f) /\ \A i \in 1 .. whole(f) : f[i] # Torn
         /\ NoTorn(f) => whole(f) = Len(f)
<1> DEFINE good(n) == /\ \A i \in 1 .. n : f[i] # Torn
                      /\ n < Len(f) => f[n + 1] = Torn
<1>1. Len(f) \in Nat
  OBVIOUS
<1>2. \E n \in 0 .. Len(f) : good(n)
  <2> DEFINE T == {i \in 1 .. Len(f) : f[i] = Torn}
  <2>1. CASE T = {}
    <3>1. good(Len(f))
      BY <1>1, <2>1
    <3> QED BY <1>1, <3>1
  <2>2. CASE T # {}
    <3>1. T \in SUBSET Nat
      BY <1>1
    <3>2. PICK x \in T : \A y \in T : x <= y
      <4> HIDE DEF T
      <4> QED BY <2>2, <3>1, Least
    <3>3. x - 1 \in 0 .. Len(f) /\ x \in 1 .. Len(f) /\ f[x] = Torn
      BY <1>1, <3>2
    <3>4. ASSUME NEW i \in 1 .. x - 1 PROVE f[i] # Torn
      <4>1. i \in 1 .. Len(f) /\ ~ (x <= i)
        BY <1>1, <3>3
      <4> QED BY <3>2, <4>1
    <3>5. good(x - 1)
      BY <1>1, <3>3, <3>4
    <3> QED BY <3>3, <3>5
  <2> QED BY <2>1, <2>2
<1>3. whole(f) \in 0 .. Len(f) /\ good(whole(f))
  <2>1. whole(f) = CHOOSE n \in 0 .. Len(f) : good(n)
    BY DEF whole
  <2> HIDE DEF good
  <2> QED BY <1>2, <2>1
<1>4. ASSUME NoTorn(f) PROVE whole(f) = Len(f)
  <2>1. ~ (whole(f) < Len(f))
    <3> SUFFICES ASSUME whole(f) < Len(f) PROVE FALSE
      OBVIOUS
    <3>1. whole(f) + 1 \in 1 .. Len(f)
      BY <1>1, <1>3
    <3> QED BY <1>3, <1>4, <3>1 DEF NoTorn
  <2> QED BY <1>1, <1>3, <2>1
<1> QED BY <1>3, <1>4

\* The replay, line by line.
LEMMA ReplayWalk ==
  ASSUME NEW bans, NEW f \in Seq(LineRecs)
  PROVE  \E F : /\ replay(bans, f) = F[whole(f)] /\ F[0] = bans
                /\ \A i \in 1 .. whole(f) : F[i] = ks_read(F[i - 1], f[i])
<1> PICK L : L = whole(f) OBVIOUS
<1> DEFINE body(G, i) == IF i = 0 THEN bans ELSE ks_read(G[i - 1], f[i])
           S == {n \in 0 .. L : \E G : G = [i \in 0 .. n |-> body(G, i)]}
           F == CHOOSE G : G = [i \in 0 .. L |-> body(G, i)]
<1>1. L \in Nat
  <2>1. Len(f) \in Nat
    OBVIOUS
  <2> QED BY <2>1, WholeSpec
<1>2. 0 \in S
  <2> DEFINE G == [i \in 0 .. 0 |-> bans]
  <2>1. G = [i \in 0 .. 0 |-> body(G, i)]
    OBVIOUS
  <2>2. 0 \in 0 .. L
    BY <1>1
  <2> QED BY <2>1, <2>2
<1>3. ASSUME NEW n \in 0 .. L - 1, n \in S PROVE n + 1 \in S
  <2>1. PICK G : G = [i \in 0 .. n |-> body(G, i)]
    BY <1>3
  <2> DEFINE H == [i \in 0 .. n + 1 |-> IF i <= n THEN G[i] ELSE body(G, n + 1)]
  <2>2. ASSUME NEW i \in 0 .. n + 1 PROVE H[i] = body(H, i)
    <3>1. CASE i = 0
      <4>1. H[0] = G[0] /\ G[0] = bans
        BY <1>1, <2>1
      <4> QED BY <3>1, <4>1
    <3>2. CASE i # 0
      <4>1. i - 1 \in 0 .. n /\ H[i - 1] = G[i - 1]
        BY <1>1, <3>2
      <4>2. H[i] = body(G, i)
        <5>1. CASE i <= n
          <6>1. H[i] = G[i] /\ i \in 0 .. n
            BY <1>1, <5>1
          <6>2. G[i] = body(G, i)
            BY <2>1, <6>1
          <6> QED BY <6>1, <6>2
        <5>2. CASE ~ (i <= n)
          <6>1. i = n + 1
            BY <1>1, <5>2
          <6> QED BY <1>1, <6>1
        <5> QED BY <5>1, <5>2
      <4> QED BY <3>2, <4>1, <4>2
    <3> QED BY <3>1, <3>2
  <2>3. H = [i \in 0 .. n + 1 |-> body(H, i)]
    <3> DEFINE B == [i \in 0 .. n + 1 |-> body(H, i)]
    <3>1. \A i \in 0 .. n + 1 : H[i] = B[i]
      BY <2>2
    <3> HIDE DEF body
    <3> QED BY <3>1
  <2>4. n + 1 \in 0 .. L
    BY <1>1
  <2> HIDE DEF H
  <2> QED BY <2>3, <2>4
<1>4. L \in S
  <2> HIDE DEF S
  <2>1. \A i \in 0 .. L : i \in S
    BY <1>1, <1>2, <1>3, InductUpTo
  <2> QED BY <1>1, <2>1
<1>5. F = [i \in 0 .. L |-> body(F, i)]
  <2>1. PICK G : G = [i \in 0 .. L |-> body(G, i)]
    BY <1>4
  <2> QED BY <2>1
<1>6. replay(bans, f) = F[L]
  BY DEF replay
<1> HIDE DEF F
<1>7. F[0] = bans /\ \A i \in 1 .. L : F[i] = body(F, i)
  <2>1. 0 \in 0 .. L /\ \A i \in 1 .. L : i \in 0 .. L
    BY <1>1
  <2>2. F[0] = body(F, 0) /\ \A i \in 1 .. L : F[i] = body(F, i)
    <3> HIDE DEF body
    <3> QED BY <1>5, <2>1
  <2> QED BY <2>2
<1>8. \A i \in 1 .. L : F[i] = ks_read(F[i - 1], f[i])
  BY <1>1, <1>7
<1> QED BY <1>6, <1>7, <1>8

\* The other bans, and K-lines on masks the file does not name.
LEMMA ReplayOthers ==
  ASSUME timeofday \in Nat, NEW bans \in Seq(BanRecs), NEW f \in Seq(LineRecs)
  PROVE  /\ replay(bans, f) \in Seq(BanRecs)
         /\ \A b \in BanRecs : b.kind # "kline" => (b \in Range(replay(bans, f)) <=> b \in Range(bans))
         /\ \A m : (\A i \in 1 .. Len(f) : f[i] = Torn \/ f[i].mask # m) =>
              /\ OneOn(bans, m) => OneOn(replay(bans, f), m)
              /\ \A b \in BanRecs : b.mask = m => (b \in Range(replay(bans, f)) <=> b \in Range(bans))
<1>1. PICK F : /\ replay(bans, f) = F[whole(f)] /\ F[0] = bans
               /\ \A i \in 1 .. whole(f) : F[i] = ks_read(F[i - 1], f[i])
  BY ReplayWalk
<1>2. /\ whole(f) \in 0 .. Len(f) /\ Len(f) \in Nat
      /\ \A i \in 1 .. whole(f) : f[i] # Torn
  BY WholeSpec
<1> PICK L : L = whole(f) OBVIOUS
<1> DEFINE unnamed(m) == \A i \in 1 .. Len(f) : f[i] = Torn \/ f[i].mask # m
           S == {n \in 0 .. L :
                  /\ F[n] \in Seq(BanRecs)
                  /\ \A b \in BanRecs : b.kind # "kline" => (b \in Range(F[n]) <=> b \in Range(bans))
                  /\ \A m : unnamed(m) =>
                       /\ OneOn(bans, m) => OneOn(F[n], m)
                       /\ \A b \in BanRecs : b.mask = m => (b \in Range(F[n]) <=> b \in Range(bans))}
<1>3. L \in Nat /\ 0 \in S
  BY <1>1, <1>2
<1>4. ASSUME NEW n \in 0 .. L - 1, n \in S PROVE n + 1 \in S
  <2>1. n + 1 \in 1 .. L /\ n + 1 \in 0 .. L /\ n + 1 \in 1 .. Len(f)
    BY <1>2
  <2>2. PICK l : l = f[n + 1]
    OBVIOUS
  <2>3. l \in LineRecs /\ l # Torn
    BY <1>2, <2>1, <2>2
  <2>4. F[n + 1] = ks_read(F[n], l)
    BY <1>1, <2>1, <2>2
  <2>5. /\ F[n + 1] \in Seq(BanRecs)
        /\ \A b \in BanRecs : b.kind # "kline" \/ b.mask # l.mask =>
             (b \in Range(F[n + 1]) <=> b \in Range(F[n]))
        /\ \A m : m # l.mask /\ OneOn(F[n], m) => OneOn(F[n + 1], m)
    BY <1>4, <2>3, <2>4, ReadOthers
  <2>6. \A m : unnamed(m) => m # l.mask
    BY <2>1, <2>2, <2>3
  <2>7. \A b \in BanRecs : b.kind # "kline" => (b \in Range(F[n + 1]) <=> b \in Range(bans))
    BY <1>4, <2>5
  <2>8. ASSUME NEW m, unnamed(m)
        PROVE  /\ OneOn(bans, m) => OneOn(F[n + 1], m)
               /\ \A b \in BanRecs : b.mask = m => (b \in Range(F[n + 1]) <=> b \in Range(bans))
    <3>1. m # l.mask
      BY <2>6, <2>8
    <3>2. /\ OneOn(bans, m) => OneOn(F[n], m)
          /\ \A b \in BanRecs : b.mask = m => (b \in Range(F[n]) <=> b \in Range(bans))
      BY <1>4, <2>8
    <3> HIDE DEF unnamed, S
    <3> QED BY <2>5, <3>1, <3>2
  <2> QED BY <2>1, <2>5, <2>7, <2>8
<1>5. \A i \in 0 .. L : i \in S
  <2> HIDE DEF S
  <2>1. \A i \in 0 .. L - 1 : i \in S => i + 1 \in S
    BY <1>4
  <2> QED BY <1>3, <2>1, InductUpTo
<1>6. L \in S
  <2> HIDE DEF S
  <2> QED BY <1>3, <1>5
<1> QED BY <1>1, <1>6

\* A line that neither sets nor lifts m.
LEMMA StandsOn ==
  ASSUME NEW f, NEW n \in Nat, NEW m,
         ~ (Sets(f[n + 1], m) /\ ~ Past(f[n + 1].until)), ~ Lifts(f[n + 1], m)
  PROVE  \A i : StandsAt(f, n + 1, i, m) <=> StandsAt(f, n, i, m)
<1>1. \A i : i \in 1 .. n + 1 <=> i \in 1 .. n \/ i = n + 1
  OBVIOUS
<1> QED BY <1>1 DEF StandsAt

\* A mask of which the file has one K-line at a time and the lists have none:
\* it has one after the replay just if a line stands.
LEMMA ReplayMask ==
  ASSUME timeofday \in Nat, NEW bans \in Seq(BanRecs), NEW f \in Seq(LineRecs), NEW m,
         KlinesOn(bans, m) = {}, OneAtATime(f, m)
  PROVE  /\ OneOn(replay(bans, f), m)
         /\ \A b \in Range(replay(bans, f)) : b.kind = "kline" /\ b.mask = m => ~ Past(Until(b))
         /\ NoTorn(f) => (KlinesOn(replay(bans, f), m) # {} <=>
                            \E i : StandsAt(f, Len(f), i, m))
<1>1. PICK F : /\ replay(bans, f) = F[whole(f)] /\ F[0] = bans
               /\ \A i \in 1 .. whole(f) : F[i] = ks_read(F[i - 1], f[i])
  BY ReplayWalk
<1>2. /\ whole(f) \in 0 .. Len(f) /\ Len(f) \in Nat
      /\ \A i \in 1 .. whole(f) : f[i] # Torn
      /\ NoTorn(f) => whole(f) = Len(f)
  BY WholeSpec
<1> PICK L : L = whole(f) OBVIOUS
<1> DEFINE good(r, n) ==
             /\ r \in Seq(BanRecs) /\ OneOn(r, m)
             /\ \A b \in Range(r) : b.kind = "kline" /\ b.mask = m => ~ Past(Until(b))
             /\ KlinesOn(r, m) # {} <=> \E i : StandsAt(f, n, i, m)
           S == {n \in 0 .. L : good(F[n], n)}
<1>3. L \in Nat /\ 0 \in S
  <2>1. \A i : ~ StandsAt(f, 0, i, m)
    BY DEF StandsAt
  <2>2. \A b \in Range(bans) : ~ (b.kind = "kline" /\ b.mask = m)
    BY NoKlineOn
  <2>3. OneOn(bans, m)
    BY DEF OneOn
  <2>4. good(bans, 0)
    BY <2>1, <2>2, <2>3
  <2> HIDE DEF good
  <2> QED BY <1>1, <1>2, <2>4
<1>4. ASSUME NEW n \in 0 .. L - 1, n \in S PROVE n + 1 \in S
  <2>1. n + 1 \in 1 .. L /\ n + 1 \in 0 .. L /\ n + 1 \in 1 .. Len(f) /\ n \in Nat
    BY <1>2
  <2>2. PICK l : l = f[n + 1]
    OBVIOUS
  <2>3. l \in LineRecs /\ l # Torn
    BY <1>2, <2>1, <2>2
  <2>a. l.type \in {"+", "-"}
    BY <2>3 DEF LineRecs
  <2>4. PICK s, r : s = F[n] /\ r = F[n + 1]
    OBVIOUS
  <2>5. r = ks_read(s, l)
    BY <1>1, <2>1, <2>2, <2>4
  <2>6. good(s, n)
    <3> HIDE DEF good
    <3> QED BY <1>4, <2>4
  <2>7. /\ r \in Seq(BanRecs)
        /\ \A b \in BanRecs : b.kind # "kline" \/ b.mask # l.mask => (b \in Range(r) <=> b \in Range(s))
        /\ \A k : k # l.mask /\ OneOn(s, k) => OneOn(r, k)
    BY <2>3, <2>5, <2>6, ReadOthers
  <2>8. good(r, n + 1)
    <3>1. CASE m # l.mask
      <4>1. \A i : StandsAt(f, n + 1, i, m) <=> StandsAt(f, n, i, m)
        BY <2>1, <2>2, <3>1, StandsOn DEF Sets, Lifts
      <4>2. Range(r) \subseteq BanRecs /\ Range(s) \subseteq BanRecs
        BY <2>6, <2>7 DEF Range
      <4>3. \A b : b.kind = "kline" /\ b.mask = m => (b \in Range(r) <=> b \in Range(s))
        BY <2>7, <3>1, <4>2
      <4>4. KlinesOn(r, m) = {} <=> KlinesOn(s, m) = {}
        BY <2>6, <2>7, <4>3, NoKlineOn
      <4> QED BY <2>6, <2>7, <3>1, <4>1, <4>3, <4>4
    <3>2. CASE m = l.mask /\ Sets(l, m) /\ Past(l.until)
      <4>1. \A i : StandsAt(f, n + 1, i, m) <=> StandsAt(f, n, i, m)
        BY <2>1, <2>2, <3>2, StandsOn DEF Sets, Lifts
      <4>2. r = s
        BY <2>3, <2>5, <2>6, <3>2, ReadMask
      <4> QED BY <2>6, <4>1, <4>2
    <3>3. CASE m = l.mask /\ Sets(l, m) /\ ~ Past(l.until)
      <4>1. KlinesOn(s, m) = {}
        <5> SUFFICES ASSUME KlinesOn(s, m) # {} PROVE FALSE
          OBVIOUS
        <5>1. PICK i : StandsAt(f, n, i, m)
          BY <2>6
        <5>2. i \in 1 .. n /\ i \in 1 .. Len(f) /\ i < n + 1
          BY <1>2, <2>1, <5>1 DEF StandsAt
        <5>3. PICK k \in 1 .. Len(f) : i < k /\ k < n + 1 /\ Lifts(f[k], m)
          BY <2>1, <2>2, <3>3, <5>1, <5>2 DEF StandsAt, OneAtATime
        <5>4. k \in 1 .. n
          BY <2>1, <5>3
        <5> QED BY <5>1, <5>3, <5>4 DEF StandsAt
      <4>2. /\ OneOn(r, m) /\ KlinesOn(r, m) # {}
            /\ \A b \in Range(r) : b.kind = "kline" /\ b.mask = m => ~ Past(Until(b))
        BY <2>3, <2>5, <2>6, <3>3, <4>1, ReadMask
      <4>3. StandsAt(f, n + 1, n + 1, m)
        BY <2>1, <2>2, <3>3 DEF StandsAt
      <4> QED BY <2>7, <4>2, <4>3
    <3>4. CASE m = l.mask /\ Lifts(l, m)
      <4>1. KlinesOn(r, m) = {}
        BY <2>3, <2>5, <2>6, <3>4, ReadMask
      <4>2. \A b \in Range(r) : ~ (b.kind = "kline" /\ b.mask = m)
        BY <2>7, <4>1, NoKlineOn
      <4>3. ASSUME NEW i, StandsAt(f, n + 1, i, m) PROVE FALSE
        <5>1. i \in 1 .. n + 1 /\ n + 1 \in 1 .. n + 1
          BY <2>1, <4>3 DEF StandsAt
        <5>2. i # n + 1
          BY <2>2, <3>4, <4>3 DEF StandsAt, Sets, Lifts
        <5>3. i < n + 1
          BY <2>1, <5>1, <5>2
        <5> QED BY <2>2, <3>4, <4>3, <5>1, <5>3 DEF StandsAt
      <4>4. OneOn(r, m)
        BY <4>1 DEF OneOn
      <4> QED BY <2>7, <4>1, <4>2, <4>3, <4>4
    <3> QED BY <2>a, <3>1, <3>2, <3>3, <3>4 DEF Sets, Lifts
  <2> HIDE DEF good
  <2> QED BY <2>1, <2>4, <2>8
<1>5. \A i \in 0 .. L : i \in S
  <2> HIDE DEF S
  <2>1. \A i \in 0 .. L - 1 : i \in S => i + 1 \in S
    BY <1>4
  <2> QED BY <1>3, <2>1, InductUpTo
<1>6. good(F[L], L)
  <2> HIDE DEF good
  <2> QED BY <1>3, <1>5
<1> QED BY <1>1, <1>2, <1>6

----------------------------------------------------------------------------
(* The file: a line more, or a dump.                                       *)

\* Only the stored K-lines on m that are not over matter.
LEMMA AgreeSame ==
  ASSUME NEW s, NEW r, NEW f, NEW m, AgreeOn(s, f, m),
         \A b : storable(b) /\ b.mask = m /\ ~ Past(Until(b)) => (b \in Range(s) <=> b \in Range(r))
  PROVE  AgreeOn(r, f, m)
<1>1. \A b \in Range(r) : storable(b) /\ b.mask = m /\ ~ Past(Until(b))
        => \E i \in 1 .. Len(f) : StandsAt(f, Len(f), i, m) /\ f[i].until = Until(b)
  BY DEF AgreeOn
<1>2. ASSUME NEW i \in 1 .. Len(f), StandsAt(f, Len(f), i, m)
      PROVE  \E b \in Range(r) : storable(b) /\ b.mask = m /\ Until(b) = f[i].until
  <2>1. PICK b \in Range(s) : storable(b) /\ b.mask = m /\ Until(b) = f[i].until
    BY <1>2 DEF AgreeOn
  <2>2. ~ Past(Until(b))
    BY <1>2, <2>1 DEF StandsAt
  <2> QED BY <2>1, <2>2
<1> QED BY <1>1, <1>2 DEF AgreeOn

\* Lines before the last one stand as before, unless it lifts them.
LEMMA OneMoreLine ==
  ASSUME NEW f \in Seq(LineRecs), NEW l \in LineRecs, NEW m, NEW g, g = Append(f, l)
  PROVE  /\ g \in Seq(LineRecs) /\ Len(g) = Len(f) + 1 /\ g[Len(g)] = l
         /\ \A i \in 1 .. Len(f) : g[i] = f[i]
         /\ NoTorn(f) /\ l # Torn => NoTorn(g)
         /\ ~ Lifts(l, m) => \A i \in 1 .. Len(f) : StandsAt(g, Len(g), i, m) <=> StandsAt(f, Len(f), i, m)
         /\ Lifts(l, m) => \A i \in 1 .. Len(f) : ~ StandsAt(g, Len(g), i, m)
         /\ StandsAt(g, Len(g), Len(g), m) <=> Sets(l, m) /\ ~ Past(l.until)
         /\ OneAtATime(f, m) /\ ~ Sets(l, m) => OneAtATime(g, m)
<1>1. /\ g \in Seq(LineRecs) /\ Len(g) = Len(f) + 1 /\ g[Len(g)] = l
      /\ \A i \in 1 .. Len(f) : g[i] = f[i]
  BY AppendSpec
<1>2. Len(f) \in Nat /\ \A i : i \in 1 .. Len(g) <=> i \in 1 .. Len(f) \/ i = Len(g)
  BY <1>1
<1>3. NoTorn(f) /\ l # Torn => NoTorn(g)
  BY <1>1, <1>2 DEF NoTorn
<1>4. ASSUME ~ Lifts(l, m), NEW i \in 1 .. Len(f)
      PROVE  StandsAt(g, Len(g), i, m) <=> StandsAt(f, Len(f), i, m)
  BY <1>1, <1>2, <1>4 DEF StandsAt
<1>5. ASSUME Lifts(l, m), NEW i \in 1 .. Len(f) PROVE ~ StandsAt(g, Len(g), i, m)
  <2>1. i < Len(g) /\ Len(g) \in 1 .. Len(g)
    BY <1>1, <1>2
  <2> QED BY <1>1, <1>5, <2>1 DEF StandsAt
<1>6. StandsAt(g, Len(g), Len(g), m) <=> Sets(l, m) /\ ~ Past(l.until)
  <2>1. Len(g) \in 1 .. Len(g) /\ \A k \in 1 .. Len(g) : ~ (Len(g) < k)
    BY <1>1, <1>2
  <2> QED BY <1>1, <2>1 DEF StandsAt
<1>7. ASSUME OneAtATime(f, m), ~ Sets(l, m) PROVE OneAtATime(g, m)
  <2> SUFFICES ASSUME NEW i \in 1 .. Len(g), NEW j \in 1 .. Len(g),
                      i < j, Sets(g[i], m), Sets(g[j], m), ~ Past(g[i].until)
               PROVE  \E k \in 1 .. Len(g) : i < k /\ k < j /\ Lifts(g[k], m)
    BY DEF OneAtATime
  <2>1. i \in 1 .. Len(f) /\ j \in 1 .. Len(f)
    BY <1>1, <1>2, <1>7
  <2>2. g[i] = f[i] /\ g[j] = f[j]
    BY <1>1, <2>1
  <2>3. PICK k \in 1 .. Len(f) : i < k /\ k < j /\ Lifts(f[k], m)
    BY <1>7, <2>1, <2>2 DEF OneAtATime
  <2>4. k \in 1 .. Len(g) /\ g[k] = f[k]
    BY <1>1, <1>2
  <2> QED BY <2>3, <2>4
<1> QED BY <1>1, <1>3, <1>4, <1>5, <1>6, <1>7

\* When a ban ends.
LEMMA UntilType ==
  ASSUME NEW b \in BanRecs
  PROVE  /\ Until(b) \in Nat /\ Plus(b).until = Until(b)
         /\ Plus(b) \in LineRecs /\ Plus(b) # Torn /\ Minus(b) \in LineRecs /\ Minus(b) # Torn
         /\ \A m : /\ Sets(Plus(b), m) <=> m = b.mask
                   /\ Lifts(Minus(b), m) <=> m = b.mask
                   /\ ~ Lifts(Plus(b), m) /\ ~ Sets(Minus(b), m)
         /\ timeofday \in Nat /\ b.kind # "shun" => (over(b) <=> Past(Until(b)))
         /\ timeofday \in Nat /\ b.start = timeofday => ~ Past(Until(b))
<1>1. b.length \in Nat /\ b.start \in Nat /\ b.mask \in BanMasks
  BY DEF BanRecs
<1>2. Until(b) \in Nat /\ Plus(b).until = Until(b)
  BY <1>1 DEF Until, Plus
<1>3. Plus(b) # Torn /\ Minus(b) # Torn
  <2>1. Plus(b).type # Torn.type /\ Minus(b).type # Torn.type
    BY DEF Plus, Minus, Torn
  <2> QED BY <2>1
<1>4. Plus(b) \in LineRecs /\ Minus(b) \in LineRecs
  BY <1>1 DEF Plus, Minus, LineRecs
<1>5. \A m : /\ Sets(Plus(b), m) <=> m = b.mask
             /\ Lifts(Minus(b), m) <=> m = b.mask
             /\ ~ Lifts(Plus(b), m) /\ ~ Sets(Minus(b), m)
  BY DEF Sets, Lifts, Plus, Minus
<1>6. timeofday \in Nat /\ b.kind # "shun" => (over(b) <=> Past(Until(b)))
  BY <1>1 DEF over, Past, Until
<1>7. timeofday \in Nat /\ b.start = timeofday => ~ Past(Until(b))
  BY <1>1 DEF Past, Until
<1> QED BY <1>2, <1>3, <1>4, <1>5, <1>6, <1>7

\* A K-line is set and written.
LEMMA PlusWritten ==
  ASSUME timeofday \in Nat, NEW s \in Seq(BanRecs), NEW f \in Seq(LineRecs), NEW b \in BanRecs, NEW m,
         storable(b), b.start = timeofday, m = b.mask => KlinesOn(s, m) = {},
         OneAtATime(f, m), AgreeOn(s, f, m)
  PROVE  /\ OneAtATime(Append(f, Plus(b)), m)
         /\ AgreeOn(add_hostbased_userban(s, b), Append(f, Plus(b)), m)
<1> PICK g, r : g = Append(f, Plus(b)) /\ r = add_hostbased_userban(s, b)
  OBVIOUS
<1>1. /\ Plus(b).until = Until(b) /\ Plus(b) \in LineRecs /\ ~ Lifts(Plus(b), m)
      /\ Sets(Plus(b), m) <=> m = b.mask
      /\ ~ Past(Until(b))
  BY UntilType
<1> PICK l : l = Plus(b) OBVIOUS
<1>2. /\ g \in Seq(LineRecs) /\ Len(g) = Len(f) + 1 /\ g[Len(g)] = l
      /\ \A i \in 1 .. Len(f) : g[i] = f[i]
      /\ \A i \in 1 .. Len(f) : StandsAt(g, Len(g), i, m) <=> StandsAt(f, Len(f), i, m)
      /\ StandsAt(g, Len(g), Len(g), m) <=> Sets(l, m) /\ ~ Past(l.until)
      /\ OneAtATime(f, m) /\ ~ Sets(l, m) => OneAtATime(g, m)
  <2>1. l \in LineRecs /\ g = Append(f, l) /\ ~ Lifts(l, m)
    BY <1>1
  <2>2. g \in Seq(LineRecs) /\ Len(g) = Len(f) + 1 /\ g[Len(g)] = l
    BY <2>1, OneMoreLine
  <2>3. \A i \in 1 .. Len(f) : g[i] = f[i]
    BY <2>1, OneMoreLine
  <2>4. \A i \in 1 .. Len(f) : StandsAt(g, Len(g), i, m) <=> StandsAt(f, Len(f), i, m)
    BY <2>1, OneMoreLine
  <2>5. StandsAt(g, Len(g), Len(g), m) <=> Sets(l, m) /\ ~ Past(l.until)
    BY <2>1, OneMoreLine
  <2>6. OneAtATime(f, m) /\ ~ Sets(l, m) => OneAtATime(g, m)
    BY <2>1, OneMoreLine
  <2> QED BY <2>2, <2>3, <2>4, <2>5, <2>6
<1>3. Range(r) = Range(s) \cup {b}
  BY MoreBans
<1>4. Len(f) \in Nat /\ \A i : i \in 1 .. Len(g) <=> i \in 1 .. Len(f) \/ i = Len(g)
  BY <1>2
<1>5. CASE m # b.mask
  <2>1. \A i \in 1 .. Len(g) : StandsAt(g, Len(g), i, m) => i \in 1 .. Len(f)
    BY <1>1, <1>2, <1>4, <1>5
  <2>2. AgreeOn(s, g, m)
    BY <1>2, <1>4, <2>1 DEF AgreeOn
  <2>3. AgreeOn(r, g, m)
    BY <1>3, <1>5, <2>2, AgreeSame
  <2> QED BY <1>1, <1>2, <1>5, <2>3
<1>6. CASE m = b.mask
  <2>1. \A a \in Range(s) : ~ (a.kind = "kline" /\ a.mask = m)
    BY <1>6, NoKlineOn
  <2>2. \A i \in 1 .. Len(f) : ~ StandsAt(f, Len(f), i, m)
    BY <2>1 DEF AgreeOn, storable
  <2>3. OneAtATime(g, m)
    <3> SUFFICES ASSUME NEW i \in 1 .. Len(g), NEW j \in 1 .. Len(g),
                        i < j, Sets(g[i], m), Sets(g[j], m), ~ Past(g[i].until)
                 PROVE  \E k \in 1 .. Len(g) : i < k /\ k < j /\ Lifts(g[k], m)
      BY DEF OneAtATime
    <3>1. i \in 1 .. Len(f) /\ g[i] = f[i]
      BY <1>2, <1>4
    <3>2. CASE j \in 1 .. Len(f)
      <4>1. PICK k \in 1 .. Len(f) : i < k /\ k < j /\ Lifts(f[k], m)
        BY <1>2, <3>1, <3>2 DEF OneAtATime
      <4> QED BY <1>2, <1>4, <4>1
    <3>3. CASE j = Len(g)
      <4>1. PICK k \in 1 .. Len(f) : i < k /\ Lifts(f[k], m)
        BY <2>2, <3>1 DEF StandsAt
      <4>2. k \in 1 .. Len(g) /\ k < j /\ g[k] = f[k]
        BY <1>2, <1>4, <3>3
      <4> QED BY <4>1, <4>2
    <3> QED BY <1>4, <3>2, <3>3
  <2>4. StandsAt(g, Len(g), Len(g), m) /\ g[Len(g)].until = Until(b) /\ Len(g) \in 1 .. Len(g)
    BY <1>1, <1>2, <1>4, <1>6
  <2>5. \A a \in Range(r) : storable(a) /\ a.mask = m => a = b
    BY <1>3, <2>1 DEF storable
  <2>6. \A i \in 1 .. Len(g) : StandsAt(g, Len(g), i, m) => i = Len(g)
    BY <1>2, <1>4, <2>2
  <2>7. AgreeOn(r, g, m)
    BY <1>3, <1>6, <2>4, <2>5, <2>6 DEF AgreeOn
  <2> QED BY <2>3, <2>7
<1> QED BY <1>5, <1>6

\* A K-line is removed, at k, and that is written.
LEMMA MinusWritten ==
  ASSUME timeofday \in Nat, NEW s \in Seq(BanRecs), NEW f \in Seq(LineRecs), NEW k \in 1 .. Len(s), NEW m,
         s[k].kind = "kline", OneOn(s, m), OneAtATime(f, m), AgreeOn(s, f, m)
  PROVE  /\ OneAtATime(Append(f, Minus(s[k])), m)
         /\ AgreeOn(RemoveAt(s, k), Append(f, Minus(s[k])), m)
<1> PICK b, g, r : b = s[k] /\ g = Append(f, Minus(b)) /\ r = RemoveAt(s, k)
  OBVIOUS
<1>1. b \in BanRecs /\ b.kind = "kline"
  OBVIOUS
<1>2. /\ Minus(b) \in LineRecs /\ ~ Sets(Minus(b), m)
      /\ Lifts(Minus(b), m) <=> m = b.mask
  BY <1>1, UntilType
<1> PICK l : l = Minus(b) OBVIOUS
<1>3. /\ g \in Seq(LineRecs) /\ Len(g) = Len(f) + 1
      /\ \A i \in 1 .. Len(f) : g[i] = f[i]
      /\ ~ Lifts(l, m) => \A i \in 1 .. Len(f) : StandsAt(g, Len(g), i, m) <=> StandsAt(f, Len(f), i, m)
      /\ Lifts(l, m) => \A i \in 1 .. Len(f) : ~ StandsAt(g, Len(g), i, m)
      /\ StandsAt(g, Len(g), Len(g), m) <=> Sets(l, m) /\ ~ Past(l.until)
      /\ OneAtATime(g, m)
  <2>1. l \in LineRecs /\ g = Append(f, l) /\ ~ Sets(l, m)
    BY <1>2
  <2>2. g \in Seq(LineRecs) /\ Len(g) = Len(f) + 1
    BY <2>1, OneMoreLine
  <2>3. \A i \in 1 .. Len(f) : g[i] = f[i]
    BY <2>1, OneMoreLine
  <2>4. ~ Lifts(l, m) => \A i \in 1 .. Len(f) : StandsAt(g, Len(g), i, m) <=> StandsAt(f, Len(f), i, m)
    BY <2>1, OneMoreLine
  <2>5. Lifts(l, m) => \A i \in 1 .. Len(f) : ~ StandsAt(g, Len(g), i, m)
    BY <2>1, OneMoreLine
  <2>6. StandsAt(g, Len(g), Len(g), m) <=> Sets(l, m) /\ ~ Past(l.until)
    BY <2>1, OneMoreLine
  <2>7. OneAtATime(g, m)
    BY <2>1, OneMoreLine
  <2> QED BY <2>2, <2>3, <2>4, <2>5, <2>6, <2>7
<1>4. Len(f) \in Nat /\ \A i : i \in 1 .. Len(g) <=> i \in 1 .. Len(f) \/ i = Len(g)
  BY <1>3
<1>5. /\ r \in Seq(BanRecs) /\ Range(r) \subseteq Range(s)
      /\ \A a \in Range(s) : a \in Range(r) \/ a = b
      /\ OneOn(s, m) /\ k \in KlinesOn(s, m) => KlinesOn(r, m) = {}
  BY LessBans
<1>6. CASE m # b.mask
  <2>1. AgreeOn(s, g, m)
    BY <1>2, <1>3, <1>4, <1>6 DEF AgreeOn
  <2>2. AgreeOn(r, g, m)
    BY <1>5, <1>6, <2>1, AgreeSame
  <2> QED BY <1>3, <2>2
<1>7. CASE m = b.mask
  <2>1. k \in KlinesOn(s, m)
    BY <1>1, <1>7 DEF KlinesOn
  <2>2. \A a \in Range(r) : ~ (a.kind = "kline" /\ a.mask = m)
    BY <1>5, <2>1, NoKlineOn
  <2>3. \A i \in 1 .. Len(g) : ~ StandsAt(g, Len(g), i, m)
    BY <1>2, <1>3, <1>4, <1>7
  <2>4. AgreeOn(r, g, m)
    BY <2>2, <2>3 DEF AgreeOn, storable
  <2> QED BY <1>3, <2>4
<1> QED BY <1>6, <1>7

\* A dump has just the K-lines that are stored.
LEMMA Dumped ==
  ASSUME timeofday \in Nat, NEW s \in Seq(BanRecs)
  PROVE  LET f == ks_dumpklines(s)
         IN  /\ f \in Seq(LineRecs) /\ NoTorn(f)
             /\ \A m : AgreeOn(s, f, m) /\ (OneOn(s, m) => OneAtATime(f, m))
<1> PICK r : r = Storable(s)
  OBVIOUS
<1>1. /\ r \in Seq(BanRecs) /\ Range(r) = {b \in Range(s) : storable(b)}
      /\ \A m : OneOn(s, m) => OneOn(r, m)
  <2>1. PICK K : K = {b \in Range(s) : storable(b)}
    OBVIOUS
  <2>2. r = Keep(s, K)
    BY <2>1 DEF Storable
  <2>3. r \in Seq(BanRecs) /\ Range(r) = Range(s) \cap K
    BY <2>2, KeptBans
  <2>4. \A m : OneOn(s, m) => OneOn(r, m)
    BY <2>2, KeptBans
  <2> QED BY <2>1, <2>3, <2>4
<1> DEFINE f == ks_dumpklines(s)
<1>2. DOMAIN r = 1 .. Len(r) /\ Len(r) \in Nat
  BY <1>1
<1>3. f = [i \in 1 .. Len(r) |-> Plus(r[i])]
  BY <1>2 DEF ks_dumpklines
<1> HIDE DEF f
<1>4. \A i \in 1 .. Len(r) : r[i] \in BanRecs
  BY <1>1
<1>5. \A i \in 1 .. Len(r) : /\ Plus(r[i]).until = Until(r[i])
                             /\ Plus(r[i]) \in LineRecs /\ Plus(r[i]) # Torn
                             /\ \A m : (Sets(Plus(r[i]), m) <=> m = r[i].mask) /\ ~ Lifts(Plus(r[i]), m)
  BY <1>4, UntilType
<1>6. f \in Seq(LineRecs) /\ Len(f) = Len(r)
  BY <1>2, <1>3, <1>5
<1>7. \A i \in 1 .. Len(r) : /\ f[i].until = Until(r[i]) /\ f[i] # Torn
                             /\ \A m : (Sets(f[i], m) <=> m = r[i].mask) /\ ~ Lifts(f[i], m)
  BY <1>3, <1>5
<1>8. NoTorn(f)
  BY <1>6, <1>7 DEF NoTorn
<1>9. ASSUME NEW m PROVE AgreeOn(s, f, m)
  <2>1. ASSUME NEW b \in Range(s), storable(b), b.mask = m, ~ Past(Until(b))
        PROVE  \E i \in 1 .. Len(f) : StandsAt(f, Len(f), i, m) /\ f[i].until = Until(b)
    <3>1. PICK i \in 1 .. Len(r) : r[i] = b
      BY <1>1, <1>2, <2>1 DEF Range
    <3>2. StandsAt(f, Len(f), i, m) /\ f[i].until = Until(b)
      BY <1>6, <1>7, <2>1, <3>1 DEF StandsAt
    <3> QED BY <1>6, <3>2
  <2>2. ASSUME NEW i \in 1 .. Len(f), StandsAt(f, Len(f), i, m)
        PROVE  \E b \in Range(s) : storable(b) /\ b.mask = m /\ Until(b) = f[i].until
    <3>1. r[i] \in Range(r) /\ r[i].mask = m /\ Until(r[i]) = f[i].until
      BY <1>2, <1>6, <1>7, <2>2 DEF StandsAt, Range
    <3> QED BY <1>1, <3>1
  <2> QED BY <2>1, <2>2 DEF AgreeOn
<1>10. ASSUME NEW m, OneOn(s, m) PROVE OneAtATime(f, m)
  <2> SUFFICES ASSUME NEW i \in 1 .. Len(f), NEW j \in 1 .. Len(f), i < j, Sets(f[i], m), Sets(f[j], m)
               PROVE  FALSE
    BY DEF OneAtATime
  <2>1. OneOn(r, m)
    BY <1>1, <1>10
  <2>2. r[i].mask = m /\ r[j].mask = m
    BY <1>6, <1>7
  <2>3. r[i] \in Range(r) /\ r[j] \in Range(r)
    BY <1>2, <1>6 DEF Range
  <2>4. i \in KlinesOn(r, m) /\ j \in KlinesOn(r, m)
    BY <1>1, <1>6, <2>2, <2>3 DEF KlinesOn, storable
  <2>5. i = j
    BY <2>1, <2>4 DEF OneOn
  <2> QED BY <1>2, <1>6, <2>5
<1> QED BY <1>6, <1>8, <1>9, <1>10 DEF f

----------------------------------------------------------------------------
(* What a step does to the parts of the invariant.                          *)

LEMMA StillTrue ==
  ASSUME UNCHANGED timeofday, NEW s, NEW f, s = userbans', f = klinesFile', NEW m
  PROVE  /\ AgreeOn(userbans, klinesFile, m)' <=> AgreeOn(s, f, m)
         /\ OneAtATime(klinesFile, m)' <=> OneAtATime(f, m)
         /\ OneOn(userbans, m)' <=> OneOn(s, m)
         /\ NoTorn(klinesFile)' <=> NoTorn(f)
<1>1. OneOn(userbans, m)' <=> OneOn(s, m)
  BY DEF OneOn, KlinesOn
<1>2. NoTorn(klinesFile)' <=> NoTorn(f)
  BY DEF NoTorn
<1>3. OneAtATime(klinesFile, m)' <=> OneAtATime(f, m)
  BY DEF OneAtATime, Past, Sets, Lifts
<1>4. AgreeOn(userbans, klinesFile, m)' <=> AgreeOn(s, f, m)
  BY DEF AgreeOn, StandsAt, Past, Sets, Lifts, storable, Until
<1> QED BY <1>1, <1>2, <1>3, <1>4

\* A file and lists that agree with each other.
LEMMA NewFile ==
  ASSUME KlinesInv, UNCHANGED timeofday, journal' \in BOOLEAN, NEW s, NEW f, s = userbans', f = klinesFile',
         s \in Seq(BanRecs), f \in Seq(LineRecs),
         \A m \in BanMasks \ doubtful' : OneOn(s, m) /\ OneAtATime(f, m),
         journal' => NoTorn(f) /\ \A m \in BanMasks \ doubtful' : AgreeOn(s, f, m)
  PROVE  timeofday' \in Nat /\ ListOK' /\ FileOK' /\ JournalOK'
<1>1. \A m : /\ AgreeOn(userbans, klinesFile, m)' <=> AgreeOn(s, f, m)
             /\ OneAtATime(klinesFile, m)' <=> OneAtATime(f, m)
             /\ OneOn(userbans, m)' <=> OneOn(s, m)
             /\ NoTorn(klinesFile)' <=> NoTorn(f)
  BY StillTrue
<1>2. BanRecs' = BanRecs /\ LineRecs' = LineRecs /\ (BanMasks \ doubtful)' = BanMasks \ doubtful'
  BY DEF BanRecs, LineRecs, Torn
<1>3. ListOK'
  BY <1>1, <1>2 DEF ListOK
<1>4. FileOK'
  BY <1>1, <1>2 DEF FileOK
<1>5. JournalOK'
  BY <1>1, <1>2 DEF JournalOK
<1> QED BY <1>3, <1>4, <1>5 DEF KlinesInv

\* The file stays, and so do the stored K-lines.
LEMMA NewLists ==
  ASSUME KlinesInv, UNCHANGED <<timeofday, klinesFile, journal>>, doubtful \subseteq doubtful',
         NEW s, s = userbans', s \in Seq(BanRecs),
         \A m \in BanMasks \ doubtful' : OneOn(s, m),
         \A b \in BanRecs : storable(b) /\ b.mask \notin doubtful' /\ ~ Past(Until(b))
                              => (b \in Range(s) <=> b \in Range(userbans))
  PROVE  timeofday' \in Nat /\ journal' \in BOOLEAN /\ ListOK' /\ FileOK' /\ JournalOK'
<1>1. PICK f, u : f = klinesFile /\ u = userbans
  OBVIOUS
<1>2. /\ f \in Seq(LineRecs) /\ u \in Seq(BanRecs) /\ journal' \in BOOLEAN
      /\ \A m \in BanMasks \ doubtful' : OneAtATime(f, m)
      /\ journal => NoTorn(f) /\ \A m \in BanMasks \ doubtful' : AgreeOn(u, f, m)
  BY <1>1 DEF KlinesInv, ListOK, FileOK, JournalOK
<1>3. Range(u) \subseteq BanRecs /\ Range(s) \subseteq BanRecs
  BY <1>2 DEF Range
<1>4. ASSUME NEW m \in BanMasks \ doubtful', AgreeOn(u, f, m) PROVE AgreeOn(s, f, m)
  BY <1>1, <1>3, <1>4, AgreeSame
<1>5. journal' => NoTorn(f) /\ \A m \in BanMasks \ doubtful' : AgreeOn(s, f, m)
  BY <1>2, <1>4
<1>6. f = klinesFile'
  BY <1>1
<1> QED BY <1>2, <1>5, <1>6, NewFile

\* The shuns of those who stay marked stay.
LEMMA ShunsStay ==
  ASSUME KlinesInv,
         \A c \in shunned' : c \in shunned /\ \A b \in Range(userbans) :
           b.kind = "shun" /\ c \in hits[b.mask] => b \in Range(userbans')
  PROVE  ShunEnds'
<1>1. ASSUME NEW c \in shunned' PROVE \E b \in Range(userbans') : b.kind = "shun" /\ c \in hits[b.mask]
  <2>1. PICK b \in Range(userbans) : b.kind = "shun" /\ c \in hits[b.mask]
    BY <1>1 DEF KlinesInv, ShunEnds
  <2> QED BY <1>1, <2>1
<1>2. Range(userbans)' = Range(userbans')
  BY DEF Range
<1> QED BY <1>1, <1>2 DEF ShunEnds

\* Whoever is still there was let through the same bans before.
LEMMA ReachedLess ==
  ASSUME registered' \subseteq registered, accepted' \subseteq accepted,
         \A p \in spared : p[1] \in accepted' \cup registered' => p \in spared'
  PROVE  \A m : Reached(m)' \subseteq Reached(m)
<1>1. ASSUME NEW m, NEW c \in Reached(m)' PROVE c \in Reached(m)
  <2>1. /\ c \in registered' \/ (m \in IpMasks /\ c \in accepted')
        /\ <<c, m>> \notin spared'
    BY <1>1 DEF Reached
  <2>2. <<c, m>> \notin spared
    <3>1. <<c, m>>[1] = c
      OBVIOUS
    <3> QED BY <2>1, <3>1
  <2> QED BY <2>1, <2>2 DEF Reached
<1> QED BY <1>1

\* Nobody comes, and a ban that comes is one of those that keep nobody out
\* who is here.
LEMMA BannedStay ==
  ASSUME KlinesInv, timeofday' = timeofday, doubtful \subseteq doubtful',
         \A m : Reached(m)' \subseteq Reached(m),
         \A b \in Range(userbans') :
           \/ b.kind = "shun" \/ b.mask \in doubtful'
           \/ hits[b.mask] \cap Reached(b.mask)' = {}
           \/ \E a \in Range(userbans) : a.mask = b.mask /\ a.kind # "shun" /\ (over(a) => over(b))
  PROVE  BannedGone'
<1>1. Range(userbans)' = Range(userbans')
  BY DEF Range
<1>2. ASSUME NEW b \in Range(userbans'), ~ over(b), b.kind # "shun", b.mask \notin doubtful'
      PROVE  hits[b.mask] \cap Reached(b.mask)' = {}
  <2> SUFFICES ASSUME hits[b.mask] \cap Reached(b.mask)' # {} PROVE FALSE
    OBVIOUS
  <2>1. PICK a \in Range(userbans) : a.mask = b.mask /\ a.kind # "shun" /\ (over(a) => over(b))
    BY <1>2
  <2>2. hits[a.mask] \cap Reached(a.mask) = {}
    BY <1>2, <2>1 DEF KlinesInv, BannedGone
  <2>3. PICK k : k = b.mask
    OBVIOUS
  <2>4. Reached(k)' \subseteq Reached(k)
    OBVIOUS
  <2> QED BY <2>1, <2>2, <2>3, <2>4
<1>3. \A b : over(b)' <=> over(b)
  BY DEF over
<1> QED BY <1>1, <1>2, <1>3 DEF BannedGone

----------------------------------------------------------------------------
(* The steps.                                                              *)

\* What a new ban is.
LEMMA BanType ==
  ASSUME timeofday \in Nat, NEW m \in BanMasks, NEW kind \in AnyKind, NEW length \in Nat
  PROVE  LET b == Ban(m, kind, length)
         IN  /\ b \in BanRecs /\ b.mask = m /\ b.kind = kind /\ b.length = length
             /\ b.start = timeofday
BY DEF Ban, BanRecs, AnyKind

LEMMA InitKlinesInv == KlinesInit => KlinesInv
<1> SUFFICES ASSUME KlinesInit PROVE KlinesInv
  OBVIOUS
<1>1. /\ timeofday = 0 /\ accepted = {} /\ registered = {} /\ shunned = {} /\ userbans = <<>>
      /\ klinesFile = <<>> /\ journal = TRUE /\ doubtful = {}
  BY DEF KlinesInit, UserBanInit
<1>2. ListOK
  BY <1>1 DEF ListOK, OneOn, KlinesOn
<1>3. FileOK
  BY <1>1 DEF FileOK, OneAtATime
<1>4. JournalOK
  BY <1>1 DEF JournalOK, NoTorn, AgreeOn, Range
<1>5. ShunEnds /\ BannedGone
  BY <1>1 DEF ShunEnds, BannedGone, Range
<1> QED BY <1>1, <1>2, <1>3, <1>4, <1>5 DEF KlinesInv

\* What a new ban does to those it matches: none of them is left whom it is to
\* keep out.
LEMMA SweptStep ==
  ASSUME NEW m, userban_sweep(m), exits
  PROVE  /\ \A k : Reached(k)' \subseteq Reached(k)
         /\ hits[m] \cap Reached(m)' = {}
         /\ shunned' \subseteq shunned
<1>1. /\ registered' = registered \ hits[m] /\ accepted' \subseteq accepted
      /\ m \in IpMasks => accepted' = accepted \ hits[m]
      /\ spared' = {p \in spared : p[1] \in accepted' \cup registered'}
      /\ shunned' \subseteq shunned
  BY DEF userban_sweep, exits
<1>2. \A k : Reached(k)' \subseteq Reached(k)
  BY <1>1, ReachedLess
<1>3. hits[m] \cap Reached(m)' = {}
  BY <1>1 DEF Reached
<1> QED BY <1>1, <1>2, <1>3

LEMMA AkillSweeps ==
  ASSUME NEW m, NEW length, m_akill(m, length)
  PROVE  /\ \A k : Reached(k)' \subseteq Reached(k)
         /\ hits[m] \cap Reached(m)' = {}
         /\ shunned' \subseteq shunned
<1>1. /\ registered' = registered \ hits[m] /\ accepted' = accepted
      /\ spared' = {p \in spared : p[1] \in accepted \cup registered'}
                      \cup {<<c, m>> : c \in IF m \in IpMasks THEN accepted \cap hits[m] ELSE {}}
      /\ shunned' \subseteq shunned
  BY DEF m_akill
<1>2. ASSUME NEW k, NEW c \in Reached(k)' PROVE c \in Reached(k) /\ (k = m => c \notin hits[m])
  <2>1. /\ c \in registered' \/ (k \in IpMasks /\ c \in accepted)
        /\ <<c, k>> \notin spared'
    BY <1>1, <1>2 DEF Reached
  <2>2. ASSUME k = m, c \in hits[m] PROVE FALSE
    <3>1. c \notin registered' /\ m \in IpMasks /\ c \in accepted \cap hits[m]
      BY <1>1, <2>1, <2>2
    <3>2. <<c, m>> \in spared'
      BY <1>1, <3>1
    <3> QED BY <2>1, <2>2, <3>2
  <2>3. c \in registered \/ (k \in IpMasks /\ c \in accepted)
    BY <1>1, <2>1
  <2>4. <<c, k>> \notin spared
    <3>1. <<c, k>>[1] = c
      OBVIOUS
    <3> QED BY <1>1, <2>1, <3>1
  <2> QED BY <2>2, <2>3, <2>4 DEF Reached
<1> QED BY <1>1, <1>2

\* A network ban is added.
LEMMA AkillStep ==
  ASSUME KlinesInv, NEW m \in BanMasks, NEW kind \in {"akill", "gline"}, NEW length \in BanTimes,
         UNCHANGED <<timeofday, klinesFile, journal, doubtful>>,
         userbans' = add_hostbased_userban(userbans, Ban(m, kind, length)),
         \A k : Reached(k)' \subseteq Reached(k),
         hits[m] \cap Reached(m)' = {}, shunned' \subseteq shunned
  PROVE  KlinesInv'
<1>1. kind \in AnyKind /\ kind # "kline" /\ length \in Nat /\ timeofday \in Nat
  BY UserBanAssumption DEF KlinesInv, AnyKind
<1>2. PICK b, s : b = Ban(m, kind, length) /\ s = add_hostbased_userban(userbans, b)
  OBVIOUS
<1>3. b \in BanRecs /\ b.kind = kind /\ b.mask = m
  BY <1>1, <1>2, BanType
<1>4. s = userbans'
  BY <1>2
<1>5. PICK u : u = userbans /\ u \in Seq(BanRecs) /\ \A k \in BanMasks \ doubtful : OneOn(u, k)
  BY DEF KlinesInv, ListOK
<1>6. s \in Seq(BanRecs) /\ Range(s) = Range(u) \cup {b}
  BY <1>2, <1>3, <1>5, MoreBans
<1>7. \A k \in BanMasks \ doubtful : OneOn(s, k)
  BY <1>1, <1>2, <1>3, <1>5, MoreBans
<1>9. timeofday' \in Nat /\ journal' \in BOOLEAN /\ ListOK' /\ FileOK' /\ JournalOK'
  <2>1. \A a \in BanRecs : storable(a) => (a \in Range(s) <=> a \in Range(userbans))
    BY <1>1, <1>3, <1>5, <1>6 DEF storable
  <2> QED BY <1>4, <1>6, <1>7, <2>1, NewLists
<1>10. ShunEnds'
  BY <1>4, <1>5, <1>6, ShunsStay
<1>11. BannedGone'
  <2>1. hits[b.mask] \cap Reached(b.mask)' = {}
    BY <1>3
  <2>2. ASSUME NEW a \in Range(userbans'), a # b
        PROVE  a.kind = "shun" \/ \E x \in Range(userbans) : x.mask = a.mask /\ x.kind # "shun" /\ (over(x) => over(a))
    BY <1>4, <1>5, <1>6, <2>2
  <2> QED BY <2>1, <2>2, BannedStay
<1> QED BY <1>9, <1>10, <1>11 DEF KlinesInv

\* A network ban is lifted; a shun with its marks.
LEMMA LiftStep ==
  ASSUME KlinesInv, NEW m \in BanMasks, UNCHANGED klinesVars,
         m_unshun(m) \/ \E kind \in Kinds \ {"shun"} : m_rakill(m, kind)
  PROVE  KlinesInv'
<1>1. PICK u : u = userbans /\ u \in Seq(BanRecs) /\ \A k \in BanMasks \ doubtful : OneOn(u, k)
  BY DEF KlinesInv, ListOK
<1>2. PICK i \in 1 .. Len(u) :
        /\ userbans' = RemoveAt(u, i) /\ u[i].kind # "kline"
        /\ u[i].kind = "shun" => shunned' = shunned \ hits[u[i].mask]
        /\ u[i].kind # "shun" => shunned' = shunned
        /\ UNCHANGED <<timeofday, accepted, registered, spared>>
  <2>1. CASE m_unshun(m)
    <3>1. PICK i : i = find_userban_exact(u, m, {"shun"})
      OBVIOUS
    <3>2. i # 0 /\ userbans' = RemoveAt(u, i) /\ shunned' = shunned \ hits[m]
          /\ UNCHANGED <<timeofday, accepted, registered, spared>>
      BY <1>1, <2>1, <3>1 DEF m_unshun
    <3>3. i \in 1 .. Len(u) /\ u[i].mask = m /\ u[i].kind \in {"shun"}
      BY <1>1, <3>1, <3>2, FoundBan
    <3> QED BY <3>2, <3>3
  <2>2. CASE \E kind \in Kinds \ {"shun"} : m_rakill(m, kind)
    <3>1. PICK kind \in Kinds \ {"shun"} : m_rakill(m, kind)
      BY <2>2
    <3>2. PICK i : i = find_userban_exact(u, m, {kind})
      OBVIOUS
    <3>3. i # 0 /\ userbans' = RemoveAt(u, i) /\ UNCHANGED <<timeofday, accepted, registered, spared, shunned>>
      BY <1>1, <3>1, <3>2 DEF m_rakill
    <3>4. i \in 1 .. Len(u) /\ u[i].mask = m /\ u[i].kind \in {kind}
      BY <1>1, <3>2, <3>3, FoundBan
    <3>5. kind \notin {"kline", "shun"}
      BY UserBanAssumption
    <3> QED BY <3>3, <3>4, <3>5
  <2> QED BY <2>1, <2>2
<1>3. PICK s : s = RemoveAt(u, i) /\ s = userbans'
  BY <1>2
<1>4. /\ s \in Seq(BanRecs) /\ Range(s) \subseteq Range(u)
      /\ \A b \in Range(u) : b \in Range(s) \/ b = u[i]
  BY <1>1, <1>2, <1>3, LessBans
<1>5. \A k \in BanMasks \ doubtful : OneOn(s, k)
  BY <1>1, <1>2, <1>3, LessBans
<1>6. UNCHANGED <<klinesFile, journal, doubtful>>
  BY DEF klinesVars
<1>7. timeofday' \in Nat /\ journal' \in BOOLEAN /\ ListOK' /\ FileOK' /\ JournalOK'
  <2>1. \A a \in BanRecs : storable(a) => (a \in Range(s) <=> a \in Range(userbans))
    BY <1>1, <1>2, <1>4 DEF storable
  <2> QED BY <1>2, <1>3, <1>4, <1>5, <1>6, <2>1, NewLists
<1>8. ShunEnds'
  <2>1. ASSUME NEW c \in shunned'
        PROVE  c \in shunned /\ \A b \in Range(userbans) :
                 b.kind = "shun" /\ c \in hits[b.mask] => b \in Range(userbans')
    BY <1>1, <1>2, <1>3, <1>4, <2>1
  <2> QED BY <2>1, ShunsStay
<1>9. BannedGone'
  <2>1. \A a \in Range(userbans') :
          a.kind = "shun" \/ \E x \in Range(userbans) : x.mask = a.mask /\ x.kind # "shun" /\ (over(x) => over(a))
    BY <1>1, <1>3, <1>4
  <2>2. timeofday' = timeofday /\ doubtful' = doubtful /\ \A k : Reached(k)' \subseteq Reached(k)
    BY <1>2, <1>6, ReachedLess
  <2> QED BY <2>1, <2>2, BannedStay
<1> QED BY <1>7, <1>8, <1>9 DEF KlinesInv

\* A shun is set.
LEMMA ShunStep ==
  ASSUME KlinesInv, NEW m \in BanMasks, NEW length \in BanTimes,
         m_shun(m, length), UNCHANGED klinesVars
  PROVE  KlinesInv'
<1>1. "shun" \in AnyKind /\ length \in Nat /\ timeofday \in Nat
  BY UserBanAssumption DEF KlinesInv, AnyKind
<1>2. PICK b, s : b = Ban(m, "shun", length) /\ s = add_hostbased_userban(userbans, b)
  OBVIOUS
<1>3. b \in BanRecs /\ b.kind = "shun" /\ b.mask = m
  BY <1>1, <1>2, BanType
<1>4. /\ s = userbans' /\ UNCHANGED <<timeofday, accepted, registered, spared>>
      /\ shunned' = shunned \cup (hits[m] \cap registered)
  BY <1>2 DEF m_shun
<1>5. PICK u : u = userbans /\ u \in Seq(BanRecs) /\ \A k \in BanMasks \ doubtful : OneOn(u, k)
  BY DEF KlinesInv, ListOK
<1>6. s \in Seq(BanRecs) /\ Range(s) = Range(u) \cup {b}
  BY <1>2, <1>3, <1>5, MoreBans
<1>7. \A k \in BanMasks \ doubtful : OneOn(s, k)
  BY <1>1, <1>2, <1>3, <1>5, MoreBans
<1>8. UNCHANGED <<klinesFile, journal, doubtful>>
  BY DEF klinesVars
<1>9. timeofday' \in Nat /\ journal' \in BOOLEAN /\ ListOK' /\ FileOK' /\ JournalOK'
  <2>1. \A a \in BanRecs : storable(a) => (a \in Range(s) <=> a \in Range(userbans))
    BY <1>1, <1>3, <1>5, <1>6 DEF storable
  <2> QED BY <1>4, <1>6, <1>7, <1>8, <2>1, NewLists
<1>10. ShunEnds'
  <2>1. ASSUME NEW c \in shunned' PROVE \E x \in Range(s) : x.kind = "shun" /\ c \in hits[x.mask]
    <3>1. CASE c \in shunned
      BY <1>5, <1>6, <3>1 DEF KlinesInv, ShunEnds
    <3>2. CASE c \in hits[m]
      BY <1>3, <1>6, <3>2
    <3> QED BY <1>4, <3>1, <3>2
  <2>2. Range(userbans)' = Range(s)
    BY <1>4 DEF Range
  <2> QED BY <2>1, <2>2 DEF ShunEnds
<1>11. BannedGone'
  <2>1. \A a \in Range(userbans') :
          a.kind = "shun" \/ \E x \in Range(userbans) : x.mask = a.mask /\ x.kind # "shun" /\ (over(x) => over(a))
    BY <1>3, <1>4, <1>5, <1>6
  <2>2. timeofday' = timeofday /\ doubtful' = doubtful /\ \A k : Reached(k)' \subseteq Reached(k)
    BY <1>4, <1>8, ReachedLess
  <2> QED BY <2>1, <2>2, BannedStay
<1> QED BY <1>9, <1>10, <1>11 DEF KlinesInv

\* Bans that are over are dropped.
LEMMA ExpireStep ==
  ASSUME KlinesInv, expire_userbans, UNCHANGED klinesVars
  PROVE  KlinesInv'
<1>1. PICK u : u = userbans /\ u \in Seq(BanRecs) /\ \A k \in BanMasks \ doubtful : OneOn(u, k)
  BY DEF KlinesInv, ListOK
<1>2. PICK K : K = {b \in Range(u) : ~ over(b)}
  OBVIOUS
<1>3. PICK s : s = Keep(u, K)
  OBVIOUS
<1>4. /\ s = userbans' /\ UNCHANGED <<timeofday, accepted, registered, spared>>
      /\ shunned' = {c \in shunned : \A b \in Range(userbans) :
                                       b.kind = "shun" /\ over(b) => c \notin hits[b.mask]}
  BY <1>1, <1>2, <1>3 DEF expire_userbans
<1>5. s \in Seq(BanRecs) /\ Range(s) = Range(u) \cap K
  BY <1>1, <1>3, KeptBans
<1>6. \A k \in BanMasks \ doubtful : OneOn(s, k)
  BY <1>1, <1>3, KeptBans
<1>7. UNCHANGED <<klinesFile, journal, doubtful>>
  BY DEF klinesVars
<1>8. timeofday' \in Nat /\ journal' \in BOOLEAN /\ ListOK' /\ FileOK' /\ JournalOK'
  <2>1. timeofday \in Nat
    BY DEF KlinesInv
  <2>2. \A a \in BanRecs : storable(a) /\ ~ Past(Until(a)) => ~ over(a)
    BY <2>1, UntilType DEF storable
  <2>3. \A a \in BanRecs : storable(a) /\ ~ Past(Until(a)) => (a \in Range(s) <=> a \in Range(userbans))
    BY <1>1, <1>2, <1>5, <2>2
  <2> QED BY <1>4, <1>5, <1>6, <1>7, <2>3, NewLists
<1>9. ShunEnds'
  <2>1. ASSUME NEW c \in shunned'
        PROVE  c \in shunned /\ \A b \in Range(userbans) :
                 b.kind = "shun" /\ c \in hits[b.mask] => b \in Range(userbans')
    BY <1>1, <1>2, <1>4, <1>5, <2>1
  <2> QED BY <2>1, ShunsStay
<1>10. BannedGone'
  <2>1. \A a \in Range(userbans') :
          a.kind = "shun" \/ \E x \in Range(userbans) : x.mask = a.mask /\ x.kind # "shun" /\ (over(x) => over(a))
    BY <1>1, <1>4, <1>5
  <2>2. timeofday' = timeofday /\ doubtful' = doubtful /\ \A k : Reached(k)' \subseteq Reached(k)
    BY <1>4, <1>7, ReachedLess
  <2> QED BY <2>1, <2>2, BannedStay
<1> QED BY <1>8, <1>9, <1>10 DEF KlinesInv

\* A client comes or goes.
LEMMA VisitorStep ==
  ASSUME KlinesInv, NEW c \in Visitors,
         accept_unbanned(c) \/ register_unbanned(c) \/ quit(c), UNCHANGED klinesVars
  PROVE  KlinesInv'
<1>1. UNCHANGED <<timeofday, userbans, klinesFile, journal, doubtful>>
  BY DEF klinesVars, accept_unbanned, register_unbanned, quit
<1>2. PICK u : u = userbans /\ u \in Seq(BanRecs) /\ \A k \in BanMasks \ doubtful : OneOn(u, k)
  BY DEF KlinesInv, ListOK
<1>3. timeofday' \in Nat /\ journal' \in BOOLEAN /\ ListOK' /\ FileOK' /\ JournalOK'
  BY <1>1, <1>2, NewLists
<1>4. Range(userbans)' = Range(userbans) /\ \A b : over(b)' <=> over(b)
  BY <1>1 DEF Range, over
<1>5. ShunEnds'
  <2>1. ASSUME NEW x \in shunned' PROVE \E b \in Range(userbans) : b.kind = "shun" /\ x \in hits[b.mask]
    <3>1. CASE x \in shunned
      BY <3>1 DEF KlinesInv, ShunEnds
    <3>2. CASE x \notin shunned
      BY <2>1, <3>2 DEF accept_unbanned, register_unbanned, quit, exits, check_userbanned
    <3> QED BY <3>1, <3>2
  <2> QED BY <1>4, <2>1 DEF ShunEnds
<1>6. BannedGone'
  <2>1. ASSUME NEW b \in Range(userbans), ~ over(b), b.kind # "shun", b.mask \notin doubtful
        PROVE  hits[b.mask] \cap Reached(b.mask)' = {}
    <3>1. PICK m : m = b.mask /\ hits[m] \cap Reached(m) = {}
      BY <2>1 DEF KlinesInv, BannedGone
    <3>2. CASE quit(c)
      <4>1. /\ registered' \subseteq registered /\ accepted' \subseteq accepted
            /\ \A p \in spared : p[1] \in accepted' \cup registered' => p \in spared'
        BY <3>2 DEF quit, exits
      <4>2. Reached(m)' \subseteq Reached(m)
        BY <4>1, ReachedLess
      <4> QED BY <3>1, <4>2
    <3>3. CASE accept_unbanned(c)
      <4>1. /\ accepted' = accepted \cup {c} /\ registered' = registered /\ spared' = spared
            /\ \A a \in check_userbanned(userbans, c) : a.mask \notin IpMasks
        BY <3>3 DEF accept_unbanned
      <4>2. m \in IpMasks => c \notin hits[m]
        BY <2>1, <3>1, <4>1 DEF check_userbanned
      <4>3. Reached(m)' \subseteq Reached(m) \cup (IF m \in IpMasks THEN {c} ELSE {})
        BY <4>1 DEF Reached
      <4> QED BY <3>1, <4>2, <4>3
    <3>4. CASE register_unbanned(c)
      <4>1. PICK found : found = {a \in check_userbanned(userbans, c) : a.mask \notin IpMasks}
        OBVIOUS
      <4>2. /\ c \in accepted /\ accepted' = accepted \ {c} /\ registered' = registered \cup {c}
            /\ spared' = spared \cup {<<c, a.mask>> : a \in found}
        BY <3>4, <4>1 DEF register_unbanned
      <4>3. \A x \in Reached(m)' : x \in Reached(m) \/ (x = c /\ m \notin IpMasks /\ <<c, m>> \notin spared')
        BY <4>2 DEF Reached
      <4>4. m \notin IpMasks /\ c \in hits[m] => b \in found
        BY <2>1, <3>1, <4>1 DEF check_userbanned
      <4>5. b \in found => <<c, m>> \in spared'
        BY <3>1, <4>2
      <4> QED BY <3>1, <4>3, <4>4, <4>5
    <3> QED BY <3>2, <3>3, <3>4
  <2> QED BY <1>1, <1>4, <2>1 DEF BannedGone
<1> QED BY <1>3, <1>5, <1>6 DEF KlinesInv

\* Time passes: the same bans and lines end.
LEMMA LaterStep ==
  ASSUME KlinesInv, Later, UNCHANGED klinesVars
  PROVE  KlinesInv'
<1>1. /\ timeofday' = timeofday + 1 /\ timeofday \in Nat /\ timeofday' \in Nat
      /\ UNCHANGED <<userbans, accepted, registered, shunned, spared, klinesFile, journal, doubtful>>
  BY DEF klinesVars, Later, KlinesInv
<1>2. PICK s, f : s = userbans /\ f = klinesFile /\ s \in Seq(BanRecs) /\ f \in Seq(LineRecs)
  BY DEF KlinesInv, ListOK, FileOK
<1>3. ASSUME NEW t \in Nat, Past(t) PROVE Past(t)'
  BY <1>1, <1>3 DEF Past
<1>4. \A b \in Range(s) : Until(b) \in Nat /\ b \in BanRecs
  BY <1>2, UntilType DEF Range
<1>5. ASSUME NEW i \in 1 .. Len(f), NEW m, Sets(f[i], m) PROVE f[i].until \in Nat
  BY <1>2, <1>5 DEF LineRecs, Sets, Torn
<1>6. ListOK'
  BY <1>1 DEF KlinesInv, ListOK, OneOn, KlinesOn, BanRecs
<1>7. ASSUME NEW m, OneAtATime(f, m) PROVE OneAtATime(f, m)'
  <2>1. ASSUME NEW i \in 1 .. Len(f), NEW j \in 1 .. Len(f),
               i < j, Sets(f[i], m), Sets(f[j], m), ~ Past(f[i].until)'
        PROVE  \E k \in 1 .. Len(f) : i < k /\ k < j /\ Lifts(f[k], m)
    <3>1. ~ Past(f[i].until)
      BY <1>3, <1>5, <2>1
    <3> QED BY <1>7, <2>1, <3>1 DEF OneAtATime
  <2>2. \A x : Sets(x, m)' = Sets(x, m) /\ Lifts(x, m)' = Lifts(x, m)
    BY DEF Sets, Lifts
  <2> QED BY <2>1, <2>2 DEF OneAtATime
<1>8. FileOK'
  <2>1. LineRecs' = LineRecs
    BY DEF LineRecs, Torn
  <2>2. \A m : OneAtATime(klinesFile, m)' <=> OneAtATime(f, m)'
    BY <1>1, <1>2 DEF OneAtATime, Past, Sets, Lifts
  <2> QED BY <1>1, <1>2, <1>7, <2>1, <2>2 DEF KlinesInv, FileOK
<1>9. ASSUME NEW m, AgreeOn(s, f, m) PROVE AgreeOn(s, f, m)'
  <2>1. ASSUME NEW i \in 1 .. Len(f) PROVE StandsAt(f, Len(f), i, m)' <=> StandsAt(f, Len(f), i, m) /\ ~ Past(f[i].until)'
    <3>1. StandsAt(f, Len(f), i, m)' <=> /\ Sets(f[i], m) /\ ~ Past(f[i].until)'
                                         /\ \A k \in 1 .. Len(f) : i < k => ~ Lifts(f[k], m)
      BY DEF StandsAt, Sets, Lifts
    <3>2. StandsAt(f, Len(f), i, m) <=> /\ Sets(f[i], m) /\ ~ Past(f[i].until)
                                        /\ \A k \in 1 .. Len(f) : i < k => ~ Lifts(f[k], m)
      BY DEF StandsAt
    <3>3. Sets(f[i], m) /\ ~ Past(f[i].until)' => ~ Past(f[i].until)
      BY <1>3, <1>5
    <3> QED BY <3>1, <3>2, <3>3
  <2>2. ASSUME NEW b \in Range(s), storable(b), b.mask = m, ~ Past(Until(b))'
        PROVE  \E i \in 1 .. Len(f) : StandsAt(f, Len(f), i, m)' /\ f[i].until = Until(b)
    <3>1. ~ Past(Until(b))
      BY <1>3, <1>4, <2>2
    <3>2. PICK i \in 1 .. Len(f) : StandsAt(f, Len(f), i, m) /\ f[i].until = Until(b)
      BY <1>9, <2>2, <3>1 DEF AgreeOn
    <3> QED BY <2>1, <2>2, <3>2
  <2>3. ASSUME NEW i \in 1 .. Len(f), StandsAt(f, Len(f), i, m)'
        PROVE  \E b \in Range(s) : storable(b) /\ b.mask = m /\ Until(b) = f[i].until
    BY <1>9, <2>1, <2>3 DEF AgreeOn
  <2> QED BY <2>2, <2>3 DEF AgreeOn, storable, Until, Range
<1>10. JournalOK'
  <2>1. \A m : AgreeOn(userbans, klinesFile, m)' <=> AgreeOn(s, f, m)'
    BY <1>1, <1>2 DEF AgreeOn, StandsAt, Past, Sets, Lifts, storable, Until, Range
  <2>2. NoTorn(klinesFile)' <=> NoTorn(klinesFile)
    BY <1>1 DEF NoTorn, Torn
  <2> QED BY <1>1, <1>2, <1>9, <2>1, <2>2 DEF KlinesInv, JournalOK
<1>11. ShunEnds'
  BY <1>1 DEF KlinesInv, ShunEnds, Range
<1>12. BannedGone'
  <2>1. \A b \in Range(s) : over(b) => over(b)'
    <3>1. ASSUME NEW b \in Range(s), over(b) PROVE over(b)'
      <4>1. b.start \in Nat /\ b.length \in Nat
        BY <1>4 DEF BanRecs
      <4> QED BY <1>1, <3>1, <4>1 DEF over
    <3> QED BY <3>1
  <2>2. Range(userbans)' = Range(s)
    BY <1>1, <1>2 DEF Range
  <2>3. \A m : Reached(m)' = Reached(m)
    BY <1>1 DEF Reached
  <2>4. ASSUME NEW b \in Range(s), ~ over(b)', b.kind # "shun", b.mask \notin doubtful
        PROVE  hits[b.mask] \cap Reached(b.mask)' = {}
    <3>1. PICK m : m = b.mask
      OBVIOUS
    <3>2. hits[m] \cap Reached(m) = {}
      BY <1>2, <2>1, <2>4, <3>1 DEF KlinesInv, BannedGone
    <3> QED BY <2>3, <3>1, <3>2
  <2> QED BY <1>1, <2>2, <2>4 DEF BannedGone
<1> QED BY <1>1, <1>6, <1>8, <1>10, <1>11, <1>12 DEF KlinesInv

\* What klinestore_write leaves: a dump, the entry at the end, or, if the
\* journal is closed, what was there.
LEMMA Written ==
  ASSUME journal \in BOOLEAN, NEW bans, NEW line, NEW outcome \in Outcomes,
         klinestore_write(bans, line, outcome)
  PROVE  /\ journal' \in BOOLEAN
         /\ \/ klinesFile' = ks_dumpklines(bans)
            \/ ~ journal /\ klinesFile' = klinesFile /\ ~ journal'
            \/ journal /\ klinesFile' = Append(klinesFile, line)
<1> DEFINE w == [file |-> IF journal THEN Append(klinesFile, line) ELSE klinesFile, open |-> journal]
           j == klinestore_compact(bans, w, outcome)
<1>1. outcome \in {"ok", "open", "create", "rename", "reopen"}
  BY KlinesAssumption DEF Outcomes
<1>2. /\ w.open = journal
      /\ w.file = IF journal THEN Append(klinesFile, line) ELSE klinesFile
  OBVIOUS
<1>3. \/ klinesFile' = w.file /\ journal' = w.open
      \/ klinesFile' = j.file /\ journal' = j.open
  BY DEF klinestore_write
<1>4. \/ j = [file |-> ks_dumpklines(bans), open |-> TRUE]
      \/ j = w
      \/ j = [file |-> w.file, open |-> FALSE]
      \/ j = [file |-> ks_dumpklines(bans), open |-> FALSE]
  BY <1>1 DEF klinestore_compact
<1>5. \/ j.file = ks_dumpklines(bans) /\ j.open \in BOOLEAN
      \/ j.file = w.file /\ j.open = w.open
      \/ j.file = w.file /\ j.open = FALSE
  <2> HIDE DEF j, w
  <2>1. CASE j = [file |-> ks_dumpklines(bans), open |-> TRUE]
    BY <2>1
  <2>2. CASE j = w
    BY <2>2
  <2>3. CASE j = [file |-> w.file, open |-> FALSE]
    BY <2>3
  <2>4. CASE j = [file |-> ks_dumpklines(bans), open |-> FALSE]
    BY <2>4
  <2> QED BY <1>4, <2>1, <2>2, <2>3, <2>4
<1> HIDE DEF w, j
<1>6. CASE journal
  BY <1>2, <1>3, <1>5, <1>6
<1>7. CASE ~ journal
  BY <1>2, <1>3, <1>5, <1>7
<1> QED BY <1>6, <1>7

\* A new list and what klinestore_write makes of the journal.
LEMMA WriteStep ==
  ASSUME KlinesInv, UNCHANGED <<timeofday, doubtful>>, NEW s \in Seq(BanRecs), s = userbans',
         NEW line \in LineRecs, line # Torn, NEW outcome \in Outcomes, klinestore_write(s, line, outcome),
         \A m \in BanMasks \ doubtful : OneOn(s, m),
         \A m \in BanMasks \ doubtful :
           OneAtATime(klinesFile, m) /\ AgreeOn(userbans, klinesFile, m)
           => OneAtATime(Append(klinesFile, line), m) /\ AgreeOn(s, Append(klinesFile, line), m)
  PROVE  timeofday' \in Nat /\ journal' \in BOOLEAN /\ ListOK' /\ FileOK' /\ JournalOK'
<1>1. /\ timeofday \in Nat /\ journal \in BOOLEAN /\ klinesFile \in Seq(LineRecs)
      /\ \A m \in BanMasks \ doubtful : OneAtATime(klinesFile, m)
      /\ journal => NoTorn(klinesFile) /\ \A m \in BanMasks \ doubtful : AgreeOn(userbans, klinesFile, m)
  BY DEF KlinesInv, FileOK, JournalOK
<1>2. PICK f, g : f = klinesFile /\ g = klinesFile'
  OBVIOUS
<1>3. PICK d : d = ks_dumpklines(s)
  OBVIOUS
<1>4. /\ journal' \in BOOLEAN
      /\ \/ g = d
         \/ ~ journal /\ g = f /\ ~ journal'
         \/ journal /\ g = Append(f, line)
  BY <1>1, <1>2, <1>3, Written
<1>5. CASE g = d
  <2>1. d \in Seq(LineRecs) /\ NoTorn(d) /\ \A m : AgreeOn(s, d, m) /\ (OneOn(s, m) => OneAtATime(d, m))
    BY <1>1, <1>3, Dumped
  <2>2. \A m \in BanMasks \ doubtful' : OneOn(s, m) /\ OneAtATime(g, m) /\ AgreeOn(s, g, m)
    BY <1>5, <2>1
  <2> QED BY <1>2, <1>4, <1>5, <2>1, <2>2, NewFile
<1>6. CASE ~ journal /\ g = f /\ ~ journal'
  <2>1. \A m \in BanMasks \ doubtful' : OneOn(s, m) /\ OneAtATime(g, m)
    BY <1>1, <1>2, <1>6
  <2>2. g \in Seq(LineRecs)
    BY <1>1, <1>2, <1>6
  <2> QED BY <1>2, <1>4, <1>6, <2>1, <2>2, NewFile
<1>7. CASE journal /\ g = Append(f, line)
  <2>1. g \in Seq(LineRecs) /\ NoTorn(g)
    <3>1. f \in Seq(LineRecs) /\ NoTorn(f)
      BY <1>1, <1>2, <1>7
    <3>2. \A m : g \in Seq(LineRecs) /\ NoTorn(g)
      BY <1>7, <3>1, OneMoreLine
    <3> QED BY <3>2
  <2>2. \A m \in BanMasks \ doubtful' : OneOn(s, m) /\ OneAtATime(g, m) /\ AgreeOn(s, g, m)
    BY <1>1, <1>2, <1>7
  <2> QED BY <1>2, <1>4, <2>1, <2>2, NewFile
<1> QED BY <1>4, <1>5, <1>6, <1>7

\* A K-line is set.
LEMMA KlineSet ==
  ASSUME KlinesInv, NEW m \in BanMasks, NEW length \in BanTimes, NEW outcome \in Outcomes,
         m_kline(m, length, outcome)
  PROVE  KlinesInv'
<1>1. "kline" \in AnyKind /\ length \in Nat /\ timeofday \in Nat
  BY UserBanAssumption DEF KlinesInv, AnyKind
<1>2. PICK b, s : b = Ban(m, "kline", length) /\ s = add_hostbased_userban(userbans, b)
  OBVIOUS
<1>3. b \in BanRecs /\ b.kind = "kline" /\ b.mask = m /\ b.start = timeofday
  BY <1>1, <1>2, BanType
<1>4. /\ s = userbans' /\ UNCHANGED <<timeofday, doubtful>>
      /\ find_userban_exact(userbans, m, {"kline", "conf"}) = 0
      /\ userban_sweep(m) /\ exits
  BY <1>2 DEF m_kline
<1>b. /\ \A k : Reached(k)' \subseteq Reached(k)
      /\ hits[m] \cap Reached(m)' = {} /\ shunned' \subseteq shunned
  BY <1>4, SweptStep
<1>a. \/ storable(b) /\ klinestore_write(s, Plus(b), outcome)
      \/ ~ storable(b) /\ UNCHANGED <<klinesFile, journal>>
  BY <1>2 DEF m_kline
<1>5. PICK u : u = userbans /\ u \in Seq(BanRecs) /\ \A k \in BanMasks \ doubtful : OneOn(u, k)
  BY DEF KlinesInv, ListOK
<1>6. s \in Seq(BanRecs) /\ Range(s) = Range(u) \cup {b}
  BY <1>2, <1>3, <1>5, MoreBans
<1>7. KlinesOn(u, m) = {}
  <2>1. \A x \in Range(u) : ~ (x.mask = m /\ x.kind \in {"kline", "conf"})
    BY <1>4, <1>5, FoundBan
  <2> QED BY <1>5, <2>1, NoKlineOn
<1>8. \A k \in BanMasks \ doubtful : OneOn(s, k)
  <2>1. ASSUME NEW k \in BanMasks \ doubtful PROVE OneOn(s, k)
    <3>1. CASE k = m
      BY <1>2, <1>3, <1>5, <1>7, <3>1, MoreBans
    <3>2. CASE k # m
      BY <1>2, <1>3, <1>5, <3>2, MoreBans
    <3> QED BY <3>1, <3>2
  <2> QED BY <2>1
<1>9. timeofday' \in Nat /\ journal' \in BOOLEAN /\ ListOK' /\ FileOK' /\ JournalOK'
  <2>1. CASE storable(b) /\ klinestore_write(s, Plus(b), outcome)
    <3>1. PICK f : f = klinesFile /\ f \in Seq(LineRecs)
      BY DEF KlinesInv, FileOK
    <3>2. ASSUME NEW k \in BanMasks \ doubtful, OneAtATime(f, k), AgreeOn(u, f, k)
          PROVE  OneAtATime(Append(f, Plus(b)), k) /\ AgreeOn(s, Append(f, Plus(b)), k)
      <4>1. k = b.mask => KlinesOn(u, k) = {}
        BY <1>3, <1>7
      <4> QED BY <1>1, <1>2, <1>3, <1>5, <2>1, <3>1, <3>2, <4>1, PlusWritten
    <3>3. PICK l : l = Plus(b) /\ l \in LineRecs /\ l # Torn
      BY <1>3, UntilType
    <3>4. \A k \in BanMasks \ doubtful :
           OneAtATime(klinesFile, k) /\ AgreeOn(userbans, klinesFile, k)
           => OneAtATime(Append(klinesFile, l), k) /\ AgreeOn(s, Append(klinesFile, l), k)
      BY <1>5, <3>1, <3>2, <3>3
    <3> QED BY <1>4, <1>6, <1>8, <2>1, <3>3, <3>4, WriteStep
  <2>2. CASE ~ storable(b) /\ UNCHANGED <<klinesFile, journal>>
    <3>1. \A a \in BanRecs : storable(a) => (a \in Range(s) <=> a \in Range(userbans))
      BY <1>5, <1>6, <2>2
    <3> QED BY <1>4, <1>6, <1>8, <2>2, <3>1, NewLists
  <2> QED BY <1>a, <2>1, <2>2
<1>10. ShunEnds'
  BY <1>4, <1>5, <1>6, <1>b, ShunsStay
<1>11. BannedGone'
  <2>1. hits[b.mask] \cap Reached(b.mask)' = {} /\ \A k : Reached(k)' \subseteq Reached(k)
    BY <1>3, <1>b
  <2>2. ASSUME NEW a \in Range(userbans'), a # b
        PROVE  a.kind = "shun" \/ \E x \in Range(userbans) : x.mask = a.mask /\ x.kind # "shun" /\ (over(x) => over(a))
    BY <1>4, <1>5, <1>6, <2>2
  <2> QED BY <1>4, <2>1, <2>2, BannedStay
<1> QED BY <1>9, <1>10, <1>11 DEF KlinesInv

\* A K-line is removed.
LEMMA KlineRemoved ==
  ASSUME KlinesInv, NEW m \in BanMasks, NEW outcome \in Outcomes, m_unkline(m, outcome)
  PROVE  KlinesInv'
<1>1. PICK u : u = userbans /\ u \in Seq(BanRecs) /\ \A k \in BanMasks \ doubtful : OneOn(u, k)
  BY DEF KlinesInv, ListOK
<1>2. PICK i : i = find_userban_exact(u, m, {"kline", "conf"})
  OBVIOUS
<1>3. PICK s : s = RemoveAt(u, i)
  OBVIOUS
<1>4. /\ i # 0 /\ u[i].kind # "conf" /\ s = userbans'
      /\ klinestore_write(s, Minus(u[i]), outcome)
      /\ UNCHANGED <<timeofday, doubtful, accepted, registered, shunned, spared>>
  BY <1>1, <1>2, <1>3 DEF m_unkline
<1>5. i \in 1 .. Len(u) /\ u[i].kind = "kline" /\ u[i] \in BanRecs
  <2>1. i \in 1 .. Len(u) /\ u[i].kind \in {"kline", "conf"}
    BY <1>1, <1>2, <1>4, FoundBan
  <2> QED BY <1>1, <1>4, <2>1
<1>6. /\ s \in Seq(BanRecs) /\ Range(s) \subseteq Range(u)
      /\ \A b \in Range(u) : b \in Range(s) \/ b = u[i]
  BY <1>1, <1>3, <1>5, LessBans
<1>7. \A k \in BanMasks \ doubtful : OneOn(s, k)
  BY <1>1, <1>3, <1>5, LessBans
<1>8. timeofday' \in Nat /\ journal' \in BOOLEAN /\ ListOK' /\ FileOK' /\ JournalOK'
  <2>1. PICK f : f = klinesFile /\ f \in Seq(LineRecs) /\ timeofday \in Nat
    BY DEF KlinesInv, FileOK
  <2>2. PICK l : l = Minus(u[i]) /\ l \in LineRecs /\ l # Torn
    BY <1>5, UntilType
  <2>3. ASSUME NEW k \in BanMasks \ doubtful, OneAtATime(f, k), AgreeOn(u, f, k)
        PROVE  OneAtATime(Append(f, l), k) /\ AgreeOn(s, Append(f, l), k)
    BY <1>1, <1>3, <1>5, <2>1, <2>2, <2>3, MinusWritten
  <2>4. \A k \in BanMasks \ doubtful :
         OneAtATime(klinesFile, k) /\ AgreeOn(userbans, klinesFile, k)
         => OneAtATime(Append(klinesFile, l), k) /\ AgreeOn(s, Append(klinesFile, l), k)
    BY <1>1, <2>1, <2>3
  <2> QED BY <1>4, <1>6, <1>7, <2>2, <2>4, WriteStep
<1>9. ShunEnds'
  <2>1. ASSUME NEW c \in shunned'
        PROVE  c \in shunned /\ \A b \in Range(userbans) :
                 b.kind = "shun" /\ c \in hits[b.mask] => b \in Range(userbans')
    BY <1>1, <1>4, <1>5, <1>6, <2>1
  <2> QED BY <2>1, ShunsStay
<1>10. BannedGone'
  <2>1. \A a \in Range(userbans') :
          a.kind = "shun" \/ \E x \in Range(userbans) : x.mask = a.mask /\ x.kind # "shun" /\ (over(x) => over(a))
    BY <1>1, <1>4, <1>6
  <2>2. timeofday' = timeofday /\ doubtful' = doubtful /\ \A k : Reached(k)' \subseteq Reached(k)
    BY <1>4, ReachedLess
  <2> QED BY <2>1, <2>2, BannedStay
<1> QED BY <1>8, <1>9, <1>10 DEF KlinesInv

\* REHASH TKLINES: what it drops is doubtful.
LEMMA TklinesStep ==
  ASSUME KlinesInv, rehash_tklines
  PROVE  KlinesInv'
<1>1. PICK u : u = userbans /\ u \in Seq(BanRecs) /\ \A k \in BanMasks \ doubtful : OneOn(u, k)
  BY DEF KlinesInv, ListOK
<1>2. PICK gone : gone = {b \in Range(u) : b.kind = "kline" /\ b.length # 0}
  OBVIOUS
<1>3. PICK K, s : K = Range(u) \ gone /\ s = Keep(u, K)
  OBVIOUS
<1>4. /\ s = userbans' /\ UNCHANGED <<timeofday, accepted, registered, shunned, spared, klinesFile, journal>>
      /\ doubtful' = doubtful \cup {b.mask : b \in gone}
  BY <1>1, <1>2, <1>3 DEF rehash_tklines
<1>5. s \in Seq(BanRecs) /\ Range(s) = Range(u) \cap K
  BY <1>1, <1>3, KeptBans
<1>6. \A k \in BanMasks \ doubtful : OneOn(s, k)
  BY <1>1, <1>3, KeptBans
<1>7. timeofday' \in Nat /\ journal' \in BOOLEAN /\ ListOK' /\ FileOK' /\ JournalOK'
  <2>1. \A a \in BanRecs : a.mask \notin doubtful' => (a \in Range(s) <=> a \in Range(userbans))
    BY <1>1, <1>3, <1>4, <1>5
  <2>2. doubtful \subseteq doubtful' /\ \A k \in BanMasks \ doubtful' : OneOn(s, k)
    BY <1>4, <1>6
  <2> QED BY <1>4, <1>5, <2>1, <2>2, NewLists
<1>8. ShunEnds'
  <2>1. ASSUME NEW c \in shunned'
        PROVE  c \in shunned /\ \A b \in Range(userbans) :
                 b.kind = "shun" /\ c \in hits[b.mask] => b \in Range(userbans')
    BY <1>1, <1>2, <1>3, <1>4, <1>5, <2>1
  <2> QED BY <2>1, ShunsStay
<1>9. BannedGone'
  <2>1. \A a \in Range(userbans') :
          a.kind = "shun" \/ \E x \in Range(userbans) : x.mask = a.mask /\ x.kind # "shun" /\ (over(x) => over(a))
    BY <1>1, <1>4, <1>5
  <2>2. timeofday' = timeofday /\ doubtful \subseteq doubtful' /\ \A k : Reached(k)' \subseteq Reached(k)
    BY <1>4, ReachedLess
  <2> QED BY <2>1, <2>2, BannedStay
<1> QED BY <1>7, <1>8, <1>9 DEF KlinesInv

\* The kill blocks as a list.
LEMMA AsList ==
  ASSUME NEW S, IsFiniteSet(S)
  PROVE  SetToSeq(S) \in Seq(S)
<1>1. Cardinality(S) \in Nat /\ ExistsBijection(1 .. Cardinality(S), S)
  BY FS_CardinalityType
<1>2. PICK g \in [1 .. Cardinality(S) -> S] : IsInjective(g)
  BY <1>1 DEF ExistsBijection, Bijection, Injection
<1>3. SetToSeq(S) \in [1 .. Cardinality(S) -> S]
  BY <1>2 DEF SetToSeq
<1> QED BY <1>1, <1>3

\* The lists once the kill blocks of a configuration are in them.
LEMMA LoadedSpec ==
  ASSUME timeofday \in Nat, NEW s \in Seq(BanRecs), NEW masks \in SUBSET BanMasks
  PROVE  LET r == Loaded(s, masks)
         IN  /\ r \in Seq(BanRecs)
             /\ \A b \in Range(r) : \/ b \in Range(s) /\ b.kind # "conf"
                                    \/ b.kind = "conf" /\ b.mask \in masks
             /\ \A b \in Range(s) : b.kind # "conf" => b \in Range(r)
             /\ \A m : /\ OneOn(s, m) => OneOn(r, m)
                       /\ KlinesOn(s, m) = {} => KlinesOn(r, m) = {}
<1> DEFINE S == {Ban(m, "conf", 0) : m \in masks}
           r == Loaded(s, masks)
<1>1. PICK q, K, k : q = SetToSeq(S) /\ K = {b \in Range(s) : b.kind # "conf"} /\ k = Keep(s, K)
  OBVIOUS
<1>2. r = q \o k
  BY <1>1 DEF Loaded
<1>3. S \subseteq BanRecs /\ \A b \in S : b.kind = "conf" /\ b.mask \in masks
  BY DEF Ban, BanRecs
<1>4. IsFiniteSet(S)
  <2>1. IsFiniteSet(masks)
    BY UserBanAssumption, FS_Subset
  <2>2. PICK g : g = [m \in masks |-> Ban(m, "conf", 0)]
    OBVIOUS
  <2>3. g \in Surjection(masks, S)
    BY <2>2 DEF Surjection
  <2> HIDE DEF S
  <2> QED BY <2>1, <2>3, FS_Surjection
<1>5. q \in Seq(S)
  <2> HIDE DEF S
  <2> QED BY <1>1, <1>4, AsList
<1>6. k \in Seq(BanRecs) /\ Range(k) = Range(s) \cap K
  BY <1>1, KeptBans
<1>7. \A m : /\ OneOn(s, m) => OneOn(k, m)
             /\ KlinesOn(s, m) = {} => KlinesOn(k, m) = {}
  BY <1>1, KeptBans
<1> HIDE DEF S, r
<1>8. /\ q \in Seq(BanRecs) /\ Len(q) \in Nat /\ Len(k) \in Nat
      /\ \A i \in 1 .. Len(q) : q[i] \in S
  BY <1>3, <1>5, <1>6
<1>9. /\ r \in Seq(BanRecs) /\ Len(r) = Len(q) + Len(k)
      /\ \A i \in 1 .. Len(q) : r[i] = q[i]
      /\ \A i \in 1 .. Len(k) : r[i + Len(q)] = k[i]
  BY <1>2, <1>6, <1>8
<1>10. DOMAIN r = 1 .. Len(r) /\ DOMAIN k = 1 .. Len(k)
  BY <1>6, <1>9
<1>11. ASSUME NEW i \in 1 .. Len(r)
       PROVE  \/ i \in 1 .. Len(q) /\ r[i] \in S
              \/ i - Len(q) \in 1 .. Len(k) /\ r[i] = k[i - Len(q)]
  <2>1. CASE i <= Len(q)
    BY <1>8, <1>9, <2>1
  <2>2. CASE ~ (i <= Len(q))
    <3>1. i - Len(q) \in 1 .. Len(k) /\ (i - Len(q)) + Len(q) = i
      BY <1>8, <1>9, <2>2
    <3> QED BY <1>9, <3>1
  <2> QED BY <2>1, <2>2
<1>12. ASSUME NEW b \in Range(r)
       PROVE  \/ b \in Range(s) /\ b.kind # "conf"
              \/ b.kind = "conf" /\ b.mask \in masks
  <2>1. PICK i \in 1 .. Len(r) : r[i] = b
    BY <1>10 DEF Range
  <2>2. CASE r[i] \in S
    BY <1>3, <2>1, <2>2
  <2>3. CASE i - Len(q) \in 1 .. Len(k) /\ r[i] = k[i - Len(q)]
    <3>1. b \in Range(k)
      BY <1>10, <2>1, <2>3 DEF Range
    <3> QED BY <1>1, <1>6, <3>1
  <2> QED BY <1>11, <2>2, <2>3
<1>13. ASSUME NEW b \in Range(s), b.kind # "conf" PROVE b \in Range(r)
  <2>1. b \in Range(k)
    BY <1>1, <1>6, <1>13
  <2>2. PICK i \in 1 .. Len(k) : k[i] = b
    BY <1>10, <2>1 DEF Range
  <2>3. i + Len(q) \in 1 .. Len(r) /\ r[i + Len(q)] = b
    BY <1>8, <1>9, <2>2
  <2> QED BY <1>10, <2>3 DEF Range
<1>14. ASSUME NEW m, NEW i \in KlinesOn(r, m) PROVE i \in Int /\ i - Len(q) \in KlinesOn(k, m)
  <2>1. i \in 1 .. Len(r) /\ r[i].kind = "kline" /\ r[i].mask = m
    BY DEF KlinesOn
  <2>2. r[i] \notin S
    BY <1>3, <2>1
  <2> QED BY <1>11, <2>1, <2>2 DEF KlinesOn
<1>15. ASSUME NEW m, OneOn(s, m) PROVE OneOn(r, m)
  <2>1. ASSUME NEW i \in KlinesOn(r, m), NEW j \in KlinesOn(r, m) PROVE i = j
    <3>1. i - Len(q) = j - Len(q) /\ i \in Int /\ j \in Int
      BY <1>7, <1>14, <1>15 DEF OneOn
    <3> QED BY <1>8, <3>1
  <2> QED BY <2>1 DEF OneOn
<1>16. ASSUME NEW m, KlinesOn(s, m) = {} PROVE KlinesOn(r, m) = {}
  BY <1>7, <1>14, <1>16
<1> QED BY <1>9, <1>12, <1>13, <1>15, <1>16 DEF r

\* The replay of klinestore_init, and its dump.
LEMMA InitStep ==
  ASSUME KlinesInv, UNCHANGED timeofday, NEW bans \in Seq(BanRecs), NEW file \in Seq(LineRecs),
         NEW count, NEW outcome \in Outcomes, klinestore_init(bans, file, count, outcome),
         \A m \in BanMasks \ doubtful' :
           /\ OneAtATime(file, m) /\ OneOn(bans, m)
           /\ KlinesOn(bans, m) = {} \/ \A i \in 1 .. Len(file) : file[i] = Torn \/ file[i].mask # m
  PROVE  /\ timeofday' \in Nat /\ journal' \in BOOLEAN /\ ListOK' /\ FileOK' /\ JournalOK'
         /\ userbans' = bans \/ userbans' = replay(bans, file)
<1>1. timeofday \in Nat
  BY DEF KlinesInv
<1>2. CASE outcome = "open"
  <2>1. userbans' = bans /\ klinesFile' = file /\ journal' = FALSE
    BY <1>2 DEF klinestore_init
  <2> QED BY <2>1, NewFile
<1>3. CASE outcome # "open"
  <2>1. PICK s, d, g : s = replay(bans, file) /\ d = ks_dumpklines(s) /\ g = klinesFile'
    OBVIOUS
  <2>2. outcome \in {"ok", "create", "rename", "reopen"}
    BY <1>3, KlinesAssumption DEF Outcomes
  <2>3. PICK j : /\ j = klinestore_compact(s, [file |-> file, open |-> FALSE], outcome)
                 /\ userbans' = s /\ g = j.file /\ journal' = j.open
    BY <1>3, <2>1 DEF klinestore_init
  <2>4. \/ j = [file |-> d, open |-> TRUE]
        \/ j = [file |-> file, open |-> FALSE]
        \/ j = [file |-> d, open |-> FALSE]
    BY <2>1, <2>2, <2>3 DEF klinestore_compact
  <2>5. journal' \in BOOLEAN /\ (g = d \/ (g = file /\ ~ journal'))
    <3>0. g = j.file /\ journal' = j.open
      BY <2>3
    <3>1. CASE j = [file |-> d, open |-> TRUE]
      <4>1. j.file = d /\ j.open = TRUE
        BY <3>1
      <4>2. g = d /\ journal' = TRUE
        BY <3>0, <4>1
      <4> QED BY <4>2
    <3>2. CASE j = [file |-> file, open |-> FALSE]
      <4>1. j.file = file /\ j.open = FALSE
        BY <3>2
      <4>2. g = file /\ journal' = FALSE
        BY <3>0, <4>1
      <4> QED BY <4>2
    <3>3. CASE j = [file |-> d, open |-> FALSE]
      <4>1. j.file = d /\ j.open = FALSE
        BY <3>3
      <4>2. g = d /\ journal' = FALSE
        BY <3>0, <4>1
      <4> QED BY <4>2
    <3> QED BY <2>4, <3>1, <3>2, <3>3
  <2>6. /\ s \in Seq(BanRecs)
        /\ \A m : (\A i \in 1 .. Len(file) : file[i] = Torn \/ file[i].mask # m) =>
              (OneOn(bans, m) => OneOn(s, m))
    BY <1>1, <2>1, ReplayOthers
  <2>7. ASSUME NEW m \in BanMasks \ doubtful' PROVE OneOn(s, m)
    <3>1. CASE KlinesOn(bans, m) = {}
      BY <1>1, <2>1, <3>1, ReplayMask
    <3>2. CASE \A i \in 1 .. Len(file) : file[i] = Torn \/ file[i].mask # m
      BY <2>6, <3>2
    <3> QED BY <3>1, <3>2
  <2>8. d \in Seq(LineRecs) /\ NoTorn(d) /\ \A m : AgreeOn(s, d, m) /\ (OneOn(s, m) => OneAtATime(d, m))
    BY <1>1, <2>1, <2>6, Dumped
  <2>9. CASE g = d
    <3>1. \A m \in BanMasks \ doubtful' : OneOn(s, m) /\ OneAtATime(g, m) /\ AgreeOn(s, g, m)
      BY <2>7, <2>8, <2>9
    <3>2. timeofday' \in Nat /\ ListOK' /\ FileOK' /\ JournalOK'
      BY <2>1, <2>3, <2>5, <2>6, <2>8, <2>9, <3>1, NewFile
    <3> QED BY <2>1, <2>3, <2>5, <3>2
  <2>10. CASE g = file /\ ~ journal'
    <3>1. \A m \in BanMasks \ doubtful' : OneOn(s, m) /\ OneAtATime(g, m)
      BY <2>7, <2>10
    <3>2. timeofday' \in Nat /\ ListOK' /\ FileOK' /\ JournalOK'
      BY <2>1, <2>3, <2>5, <2>6, <2>10, <3>1, NewFile
    <3> QED BY <2>1, <2>3, <2>5, <3>2
  <2> QED BY <2>5, <2>9, <2>10
<1> QED BY <1>2, <1>3

\* The server starts again.
LEMMA RestartStep ==
  ASSUME KlinesInv, NEW torn \in BOOLEAN, NEW masks \in ConfMasks, NEW outcome \in Outcomes,
         restart(torn, masks, outcome)
  PROVE  KlinesInv'
<1>1. PICK bans, file : /\ bans = Loaded(<<>>, masks)
                        /\ file = IF torn /\ journal THEN Append(klinesFile, Torn) ELSE klinesFile
  OBVIOUS
<1>2. /\ klinestore_init(bans, file, 0, outcome)
      /\ accepted' = {} /\ registered' = {} /\ shunned' = {} /\ UNCHANGED <<timeofday, doubtful>>
  BY <1>1 DEF restart
<1>3. timeofday \in Nat /\ masks \in SUBSET BanMasks
  BY KlinesAssumption DEF KlinesInv
<1>4. PICK f : /\ f = klinesFile /\ f \in Seq(LineRecs)
               /\ \A m \in BanMasks \ doubtful : OneAtATime(f, m)
  BY DEF KlinesInv, FileOK
<1>5. file \in Seq(LineRecs) /\ \A m \in BanMasks \ doubtful : OneAtATime(file, m)
  <2>1. PICK g, l : g = Append(f, l) /\ l = Torn
    OBVIOUS
  <2>2. l \in LineRecs /\ \A m : ~ Sets(l, m)
    BY <2>1 DEF LineRecs, Sets, Torn
  <2>3. \A m : g \in Seq(LineRecs) /\ (OneAtATime(f, m) => OneAtATime(g, m))
    BY <1>4, <2>1, <2>2, OneMoreLine
  <2>4. file = g \/ file = f
    BY <1>1, <1>4, <2>1
  <2> QED BY <1>4, <2>3, <2>4
<1>6. bans \in Seq(BanRecs) /\ \A m : KlinesOn(bans, m) = {}
  <2>1. PICK e \in Seq(BanRecs) : e = <<>> /\ Len(e) = 0
    <3>1. <<>> \in Seq(BanRecs) /\ Len(<<>>) = 0
      OBVIOUS
    <3> QED BY <3>1
  <2>2. \A m : KlinesOn(e, m) = {}
    BY <2>1 DEF KlinesOn
  <2>3. bans = Loaded(e, masks)
    BY <1>1, <2>1
  <2> QED BY <1>3, <2>1, <2>2, <2>3, LoadedSpec
<1>7. \A m : OneOn(bans, m)
  BY <1>6 DEF OneOn
<1>8. timeofday' \in Nat /\ journal' \in BOOLEAN /\ ListOK' /\ FileOK' /\ JournalOK'
  BY <1>2, <1>5, <1>6, <1>7, InitStep
<1>9. ShunEnds' /\ BannedGone'
  <2>1. \A m : Reached(m)' = {}
    BY <1>2 DEF Reached
  <2> QED BY <1>2, <2>1 DEF ShunEnds, BannedGone
<1> QED BY <1>8, <1>9 DEF KlinesInv

\* A rehash.
LEMMA RehashStep ==
  ASSUME KlinesInv, NEW sighup \in BOOLEAN, NEW bad \in BOOLEAN, NEW masks \in ConfMasks,
         NEW outcome \in Outcomes, rehash_bans(sighup, masks, bad, outcome)
  PROVE  KlinesInv'
<1>1. PICK u : u = userbans /\ u \in Seq(BanRecs) /\ \A k \in BanMasks \ doubtful : OneOn(u, k)
  BY DEF KlinesInv, ListOK
<1>2. PICK K, kept, bans : /\ K = {b \in Range(u) : ~ dropped(sighup, b)}
                           /\ kept = Keep(u, K) /\ bans = Loaded(kept, masks)
  OBVIOUS
<1>3. PICK f : /\ f = klinesFile /\ f \in Seq(LineRecs)
               /\ \A m \in BanMasks \ doubtful : OneAtATime(f, m)
  BY DEF KlinesInv, FileOK
<1>4. PICK named : named = {l.mask : l \in Range(f) \ {Torn}}
  OBVIOUS
<1>5. /\ IF bad \/ (~ sighup /\ journal)
         THEN userbans' = bans /\ UNCHANGED <<klinesFile, journal, journalcount>>
         ELSE klinestore_init(bans, f, journalcount, outcome)
      /\ doubtful' = doubtful \cup
           (IF bad THEN IF sighup THEN BanMasks ELSE {}
            ELSE IF ~ journal THEN named
            ELSE {})
      /\ registered' = registered \ SweptBy(masks)
      /\ accepted' = accepted \ SweptBy(masks \cap IpMasks) /\ exits
      /\ UNCHANGED timeofday
  BY <1>1, <1>2, <1>3, <1>4 DEF rehash_bans
<1>6. timeofday \in Nat /\ masks \in SUBSET BanMasks /\ doubtful \subseteq doubtful'
  BY <1>5, KlinesAssumption DEF KlinesInv
<1>7. /\ kept \in Seq(BanRecs) /\ Range(kept) = Range(u) \cap K
  BY <1>1, <1>2, KeptBans
<1>8. \A m \in BanMasks \ doubtful : OneOn(kept, m)
  BY <1>1, <1>2, KeptBans
<1>9. /\ bans \in Seq(BanRecs)
      /\ \A b \in Range(bans) : \/ b \in Range(kept) /\ b.kind # "conf"
                                \/ b.kind = "conf" /\ b.mask \in masks
      /\ \A b \in Range(kept) : b.kind # "conf" => b \in Range(bans)
      /\ \A m : /\ OneOn(kept, m) => OneOn(bans, m)
                /\ KlinesOn(kept, m) = {} => KlinesOn(bans, m) = {}
  BY <1>2, <1>6, <1>7, LoadedSpec, ZenonT(40)
<1>10. \A m \in BanMasks \ doubtful' : OneOn(bans, m) /\ OneAtATime(f, m)
  BY <1>3, <1>6, <1>8, <1>9
<1>11. \A b \in Range(u) : b.kind \notin {"conf", "akill", "kline"} \/ (~ sighup /\ b.kind # "conf") => b \in Range(bans)
  BY <1>2, <1>7, <1>9 DEF dropped
<1>12. sighup => \A m : KlinesOn(bans, m) = {}
  <2>1. ASSUME sighup, NEW m PROVE KlinesOn(bans, m) = {}
    <3>1. \A b \in Range(kept) : b.kind # "kline"
      BY <1>2, <1>7, <2>1 DEF dropped
    <3>2. KlinesOn(kept, m) = {}
      BY <1>7, <3>1, NoKlineOn
    <3> QED BY <1>9, <3>2
  <2> QED BY <2>1
<1>13. \A b \in Range(bans) : b \in Range(u) \/ (b.kind = "conf" /\ b.mask \in masks)
  BY <1>7, <1>9
<1>14. /\ \A k : Reached(k)' \subseteq Reached(k)
       /\ \A b : b.mask \in masks => hits[b.mask] \cap Reached(b.mask)' = {}
       /\ shunned' \subseteq shunned
  <2>1. /\ registered' \subseteq registered /\ accepted' \subseteq accepted
        /\ \A p \in spared : p[1] \in accepted' \cup registered' => p \in spared'
        /\ shunned' \subseteq shunned
    BY <1>5 DEF exits
  <2>2. ASSUME NEW m \in masks PROVE hits[m] \cap Reached(m)' = {}
    <3>1. /\ hits[m] \cap registered' = {}
          /\ m \in IpMasks => hits[m] \cap accepted' = {}
      BY <1>5, <2>2 DEF SweptBy
    <3> QED BY <3>1 DEF Reached
  <2> QED BY <2>1, <2>2, ReachedLess
<1>15. CASE bad \/ (~ sighup /\ journal)
  <2>1. userbans' = bans /\ UNCHANGED <<klinesFile, journal>>
    BY <1>5, <1>15
  <2>2. timeofday' \in Nat /\ journal' \in BOOLEAN /\ ListOK' /\ FileOK' /\ JournalOK'
    <3>1. \A m \in BanMasks \ doubtful' : OneOn(bans, m)
      BY <1>10
    <3>2. ASSUME NEW b \in BanRecs, storable(b), b.mask \notin doubtful'
          PROVE  b \in Range(bans) <=> b \in Range(userbans)
      <4>1. b.mask \in BanMasks /\ b.kind = "kline"
        BY <3>2 DEF BanRecs, storable
      <4>2. ~ sighup
        BY <1>5, <1>15, <3>2, <4>1
      <4> QED BY <1>1, <1>11, <1>13, <4>1, <4>2
    <3> QED BY <1>5, <1>6, <1>9, <2>1, <3>1, <3>2, NewLists
  <2>3. ShunEnds'
    <3>1. ASSUME NEW c \in shunned'
          PROVE  c \in shunned /\ \A b \in Range(userbans) :
                   b.kind = "shun" /\ c \in hits[b.mask] => b \in Range(userbans')
      BY <1>1, <1>11, <1>14, <2>1, <3>1
    <3> QED BY <3>1, ShunsStay
  <2>4. BannedGone'
    <3>1. ASSUME NEW b \in Range(userbans')
          PROVE  \/ b.kind = "shun"
                 \/ hits[b.mask] \cap Reached(b.mask)' = {}
                 \/ \E a \in Range(userbans) : a.mask = b.mask /\ a.kind # "shun" /\ (over(a) => over(b))
      BY <1>1, <1>13, <1>14, <2>1, <3>1
    <3>2. timeofday' = timeofday
      BY <1>5
    <3> QED BY <1>6, <1>14, <3>1, <3>2, BannedStay
  <2> QED BY <2>2, <2>3, <2>4 DEF KlinesInv
<1>16. CASE ~ (bad \/ (~ sighup /\ journal))
  <2>1. klinestore_init(bans, f, journalcount, outcome) /\ ~ bad
    BY <1>5, <1>16
  <2>2. ~ journal => doubtful' = doubtful \cup named
    BY <1>5, <2>1
  <2>3. ASSUME NEW m \in BanMasks \ doubtful'
        PROVE  /\ OneAtATime(f, m) /\ OneOn(bans, m)
               /\ KlinesOn(bans, m) = {} \/ \A i \in 1 .. Len(f) : f[i] = Torn \/ f[i].mask # m
    <3>1. CASE sighup
      BY <1>10, <1>12, <3>1
    <3>2. CASE ~ journal
      <4>1. m \notin named
        BY <2>2, <3>2
      <4>2. \A i \in 1 .. Len(f) : f[i] \in Range(f)
        BY <1>3 DEF Range
      <4>3. \A i \in 1 .. Len(f) : f[i] = Torn \/ f[i].mask # m
        BY <1>4, <4>1, <4>2
      <4> QED BY <1>10, <4>3
    <3> QED BY <1>16, <3>1, <3>2
  <2>4. PICK count : count = journalcount
    OBVIOUS
  <2>5. /\ timeofday' \in Nat /\ journal' \in BOOLEAN /\ ListOK' /\ FileOK' /\ JournalOK'
        /\ userbans' = bans \/ userbans' = replay(bans, f)
    <3>1. UNCHANGED timeofday /\ klinestore_init(bans, f, count, outcome)
      BY <1>5, <2>1, <2>4
    <3> QED BY <1>3, <1>9, <2>3, <3>1, InitStep
  <2>6. PICK s : s = replay(bans, f)
    OBVIOUS
  <2>7. /\ s \in Seq(BanRecs)
        /\ \A b \in BanRecs : b.kind # "kline" => (b \in Range(s) <=> b \in Range(bans))
        /\ \A m : (\A i \in 1 .. Len(f) : f[i] = Torn \/ f[i].mask # m) =>
             \A b \in BanRecs : b.mask = m => (b \in Range(s) <=> b \in Range(bans))
    BY <1>3, <1>6, <1>9, <2>6, ReplayOthers
  <2>8. Range(s) \subseteq BanRecs /\ Range(bans) \subseteq BanRecs /\ Range(u) \subseteq BanRecs
    BY <1>1, <1>9, <2>7 DEF Range
  <2>9. \A b \in Range(u) : b.kind = "shun" => b \in Range(userbans')
    BY <1>11, <2>5, <2>6, <2>7, <2>8
  <2>10. ShunEnds'
    <3>1. ASSUME NEW c \in shunned'
          PROVE  c \in shunned /\ \A b \in Range(userbans) :
                   b.kind = "shun" /\ c \in hits[b.mask] => b \in Range(userbans')
      BY <1>1, <1>14, <2>9, <3>1
    <3> QED BY <3>1, ShunsStay
  <2>11. ASSUME NEW b \in Range(s), b.kind = "kline", b.mask \notin doubtful'
         PROVE  \E a \in Range(u) : a.mask = b.mask /\ a.kind # "shun" /\ (over(a) => over(b))
    <3>1. b \in BanRecs /\ b.mask \in BanMasks \ doubtful'
      BY <2>8, <2>11 DEF BanRecs
    <3>2. CASE ~ journal
      <4>1. b.mask \notin named
        BY <2>2, <2>11, <3>2
      <4>2. \A i \in 1 .. Len(f) : f[i] \in Range(f)
        BY <1>3 DEF Range
      <4>3. \A i \in 1 .. Len(f) : f[i] = Torn \/ f[i].mask # b.mask
        BY <1>4, <4>1, <4>2
      <4>4. b \in Range(bans)
        BY <2>7, <2>11, <3>1, <4>3
      <4>5. b \in Range(u)
        BY <1>13, <2>11, <4>4
      <4> QED BY <2>11, <4>5
    <3>3. CASE journal
      <4>1. PICK m : m = b.mask /\ m \in BanMasks \ doubtful
        BY <1>6, <3>1
      <4>2. sighup /\ NoTorn(f) /\ AgreeOn(u, f, m)
        BY <1>1, <1>3, <1>16, <3>3, <4>1 DEF KlinesInv, JournalOK
      <4>3. KlinesOn(bans, m) = {} /\ OneAtATime(f, m)
        BY <1>3, <1>12, <4>1, <4>2
      <4>4. KlinesOn(s, m) # {}
        BY <2>7, <2>11, <4>1, NoKlineOn
      <4>5. PICK i : StandsAt(f, Len(f), i, m)
        BY <1>3, <1>6, <1>9, <2>6, <4>2, <4>3, <4>4, ReplayMask
      <4>6. i \in 1 .. Len(f) /\ ~ Past(f[i].until)
        BY <4>5 DEF StandsAt
      <4>7. PICK a \in Range(u) : storable(a) /\ a.mask = m /\ Until(a) = f[i].until
        BY <4>2, <4>5, <4>6 DEF AgreeOn
      <4>8. ~ over(a) /\ a.kind = "kline"
        BY <1>6, <2>8, <4>6, <4>7, UntilType DEF storable
      <4> QED BY <4>1, <4>7, <4>8
    <3> QED BY <3>2, <3>3
  <2>12. BannedGone'
    <3>1. ASSUME NEW b \in Range(userbans')
          PROVE  \/ b.kind = "shun" \/ b.mask \in doubtful'
                 \/ hits[b.mask] \cap Reached(b.mask)' = {}
                 \/ \E a \in Range(userbans) : a.mask = b.mask /\ a.kind # "shun" /\ (over(a) => over(b))
      <4>1. CASE b \in Range(bans)
        BY <1>1, <1>13, <1>14, <4>1
      <4>2. CASE b \in Range(s) /\ b.kind = "kline"
        BY <1>1, <2>11, <4>2
      <4>3. CASE b \in Range(s) /\ b.kind # "kline"
        BY <2>7, <2>8, <4>1, <4>3
      <4> QED BY <2>5, <2>6, <3>1, <4>1, <4>2, <4>3
    <3>2. timeofday' = timeofday
      BY <1>5
    <3> QED BY <1>6, <1>14, <3>1, <3>2, BannedStay
  <2> QED BY <2>5, <2>10, <2>12 DEF KlinesInv
<1> QED BY <1>15, <1>16

\* What the invariant says of the journal: a restart would bring back just the
\* K-lines that are stored.
LEMMA InvFaithful == KlinesInv => JournalFaithful
<1> SUFFICES ASSUME KlinesInv PROVE JournalFaithful
  OBVIOUS
<1>1. PICK u : u = userbans /\ u \in Seq(BanRecs) /\ \A k \in BanMasks \ doubtful : OneOn(u, k)
  BY DEF KlinesInv, ListOK
<1>2. PICK f : /\ f = klinesFile /\ f \in Seq(LineRecs)
               /\ \A m \in BanMasks \ doubtful : OneAtATime(f, m)
  BY DEF KlinesInv, FileOK
<1>3. timeofday \in Nat
  BY DEF KlinesInv
<1>4. ASSUME NEW i \in DOMAIN userbans, NEW j \in DOMAIN userbans,
             userbans[i].kind = "kline", userbans[j].kind = "kline",
             userbans[i].mask = userbans[j].mask, userbans[i].mask \notin doubtful
      PROVE  i = j
  <2>1. DOMAIN u = 1 .. Len(u) /\ u[i] \in BanRecs
    BY <1>1
  <2>2. PICK m : m = u[i].mask /\ m \in BanMasks \ doubtful
    BY <1>1, <1>4, <2>1 DEF BanRecs
  <2>3. i \in KlinesOn(u, m) /\ j \in KlinesOn(u, m)
    BY <1>1, <1>4, <2>1, <2>2 DEF KlinesOn
  <2> QED BY <1>1, <2>2, <2>3 DEF OneOn
<1>5. ASSUME journal PROVE Stored \ doubtful = InForce(Storable(userbans)) \ doubtful
  <2>1. NoTorn(f) /\ \A m \in BanMasks \ doubtful : AgreeOn(u, f, m)
    BY <1>1, <1>2, <1>5 DEF KlinesInv, JournalOK
  <2>2. PICK e \in Seq(BanRecs) : e = <<>> /\ Len(e) = 0
    <3>1. <<>> \in Seq(BanRecs) /\ Len(<<>>) = 0
      OBVIOUS
    <3> QED BY <3>1
  <2>3. \A m : KlinesOn(e, m) = {}
    BY <2>2 DEF KlinesOn
  <2>4. PICK s, k, K : /\ s = replay(e, f) /\ K = {b \in Range(u) : storable(b)} /\ k = Keep(u, K)
    OBVIOUS
  <2>5. Stored = InForce(s) /\ Storable(userbans) = k
    BY <1>1, <1>2, <2>2, <2>4 DEF Stored, Storable
  <2>6. s \in Seq(BanRecs)
    BY <1>2, <1>3, <2>4, ReplayOthers
  <2>7. Range(k) = Range(u) \cap K
    BY <1>1, <2>4, KeptBans
  <2>8. Range(s) \subseteq BanRecs /\ Range(u) \subseteq BanRecs
    BY <1>1, <2>6 DEF Range
  <2>9. \A b \in BanRecs : b.kind = "kline" => (over(b) <=> Past(Until(b)))
    BY <1>3, UntilType
  <2>10. ASSUME NEW m \in BanMasks \ doubtful
         PROVE  /\ \A b \in Range(s) : b.kind = "kline" /\ b.mask = m => ~ Past(Until(b))
                /\ KlinesOn(s, m) # {} <=> \E i : StandsAt(f, Len(f), i, m)
    BY <1>2, <1>3, <2>1, <2>3, <2>4, ReplayMask
  <2>11. ASSUME NEW m \in BanMasks \ doubtful
         PROVE  m \in InForce(s) <=> \E i : StandsAt(f, Len(f), i, m)
    <3>1. KlinesOn(s, m) = {} <=> \A b \in Range(s) : ~ (b.kind = "kline" /\ b.mask = m)
      BY <2>6, NoKlineOn
    <3>2. m \in InForce(s) <=> \E b \in Range(s) : b.kind = "kline" /\ ~ over(b) /\ b.mask = m
      BY DEF InForce
    <3>3. \A b \in Range(s) : b.kind = "kline" /\ b.mask = m => ~ over(b)
      BY <2>8, <2>9, <2>10
    <3> QED BY <2>10, <3>1, <3>2, <3>3
  <2>12. ASSUME NEW m \in BanMasks \ doubtful
         PROVE  m \in InForce(k) <=> \E i : StandsAt(f, Len(f), i, m)
    <3>1. m \in InForce(k) <=> \E b \in Range(u) : storable(b) /\ ~ over(b) /\ b.mask = m
      BY <2>4, <2>7 DEF InForce, storable
    <3>2. ASSUME NEW b \in Range(u), storable(b), ~ over(b), b.mask = m
          PROVE  \E i : StandsAt(f, Len(f), i, m)
      BY <2>1, <2>8, <2>9, <3>2 DEF AgreeOn, storable
    <3>3. ASSUME NEW i, StandsAt(f, Len(f), i, m)
          PROVE  \E b \in Range(u) : storable(b) /\ ~ over(b) /\ b.mask = m
      <4>1. i \in 1 .. Len(f) /\ ~ Past(f[i].until)
        BY <3>3 DEF StandsAt
      <4>2. PICK b \in Range(u) : storable(b) /\ b.mask = m /\ Until(b) = f[i].until
        BY <2>1, <3>3, <4>1 DEF AgreeOn
      <4> QED BY <2>8, <2>9, <4>1, <4>2 DEF storable
    <3> QED BY <3>1, <3>2, <3>3
  <2>13. InForce(s) \subseteq BanMasks /\ InForce(k) \subseteq BanMasks
    BY <2>7, <2>8 DEF InForce, BanRecs
  <2> QED BY <2>5, <2>11, <2>12, <2>13
<1> QED BY <1>4, <1>5 DEF JournalFaithful

LEMMA NextKlinesInv ==
  ASSUME KlinesInv, [KlinesNext]_<<banningVars, klinesVars>>
  PROVE  KlinesInv'
<1>1. CASE NetworkBan /\ UNCHANGED klinesVars
  <2>1. CASE \E m \in BanMasks, length \in BanTimes : m_akill(m, length)
    <3>1. PICK m \in BanMasks, length \in BanTimes : m_akill(m, length)
      BY <2>1
    <3>2. /\ UNCHANGED <<timeofday, klinesFile, journal, doubtful>>
          /\ userbans' = add_hostbased_userban(userbans, Ban(m, "akill", length))
      BY <1>1, <3>1 DEF m_akill, klinesVars
    <3>3. /\ \A k : Reached(k)' \subseteq Reached(k)
          /\ hits[m] \cap Reached(m)' = {} /\ shunned' \subseteq shunned
      BY <3>1, AkillSweeps
    <3> QED BY <3>2, <3>3, AkillStep
  <2>4. CASE \E m \in BanMasks, length \in BanTimes : m_gline(m, length)
    <3>1. PICK m \in BanMasks, length \in BanTimes : m_gline(m, length)
      BY <2>4
    <3>2. /\ UNCHANGED <<timeofday, klinesFile, journal, doubtful>>
          /\ userbans' = add_hostbased_userban(userbans, Ban(m, "gline", length))
          /\ userban_sweep(m) /\ exits
      BY <1>1, <3>1 DEF m_gline, klinesVars
    <3>3. /\ \A k : Reached(k)' \subseteq Reached(k)
          /\ hits[m] \cap Reached(m)' = {} /\ shunned' \subseteq shunned
      BY <3>2, SweptStep
    <3> QED BY <3>2, <3>3, AkillStep
  <2>2. CASE \E m \in BanMasks, length \in BanTimes : m_shun(m, length)
    BY <1>1, <2>2, ShunStep
  <2>3. CASE \E m \in BanMasks : m_unshun(m) \/ \E kind \in Kinds \ {"shun"} : m_rakill(m, kind)
    BY <1>1, <2>3, LiftStep
  <2> QED BY <1>1, <2>1, <2>2, <2>3, <2>4 DEF NetworkBan
<1>2. CASE VisitorOrTime /\ UNCHANGED klinesVars
  BY <1>2, VisitorStep, ExpireStep, LaterStep DEF VisitorOrTime
<1>3. CASE KlineStep
  <2>1. CASE \E outcome \in Outcomes, m \in BanMasks, length \in BanTimes : m_kline(m, length, outcome)
    BY <2>1, KlineSet
  <2>2. CASE \E outcome \in Outcomes, m \in BanMasks : m_unkline(m, outcome)
    BY <2>2, KlineRemoved
  <2>3. CASE \E outcome \in Outcomes, masks \in ConfMasks, sighup \in BOOLEAN, bad \in BOOLEAN :
               rehash_bans(sighup, masks, bad, outcome)
    <3>1. PICK outcome \in Outcomes, masks \in ConfMasks, sighup \in BOOLEAN, bad \in BOOLEAN :
               rehash_bans(sighup, masks, bad, outcome)
      BY <2>3
    <3> QED BY <3>1, RehashStep
  <2>4. CASE \E outcome \in Outcomes, masks \in ConfMasks, torn \in BOOLEAN : restart(torn, masks, outcome)
    <3>1. PICK outcome \in Outcomes, masks \in ConfMasks, torn \in BOOLEAN : restart(torn, masks, outcome)
      BY <2>4
    <3> QED BY <3>1, RestartStep
  <2>5. CASE rehash_tklines
    BY <2>5, TklinesStep
  <2> QED BY <1>3, <2>1, <2>2, <2>3, <2>4, <2>5 DEF KlineStep
<1>4. CASE UNCHANGED <<banningVars, klinesVars>>
  <2>1. /\ UNCHANGED <<timeofday, userbans, accepted, registered, shunned, spared>>
        /\ UNCHANGED <<klinesFile, journal, doubtful>>
    BY <1>4 DEF banningVars, klinesVars
  <2>2. ShunEnds'
    BY <2>1 DEF KlinesInv, ShunEnds, Range
  <2>3. BannedGone'
    <3>1. Range(userbans)' = Range(userbans) /\ \A m : Reached(m)' \subseteq Reached(m)
      BY <2>1 DEF Range, Reached
    <3> QED BY <2>1, <3>1, BannedStay
  <2>4. (timeofday \in Nat /\ journal \in BOOLEAN /\ ListOK /\ FileOK /\ JournalOK)'
    BY <2>1 DEF KlinesInv, ListOK, FileOK, JournalOK, OneOn, KlinesOn, OneAtATime, AgreeOn,
       StandsAt, NoTorn, Past, Sets, Lifts, storable, Until, Range, BanRecs, LineRecs, Torn
  <2> QED BY <2>2, <2>3, <2>4 DEF KlinesInv
<1> QED BY <1>1, <1>2, <1>3, <1>4 DEF KlinesNext, UserBanNext

\* Nobody stays online whom a ban in force matches, whatever set it or brought
\* it back, and a shun ends for its victims: for any masks, bans, clients and
\* failures of the journal's files.
THEOREM BansAlwaysHold == KlinesSpec => []BansHold
<1>1. KlinesInit => KlinesInv
  BY InitKlinesInv
<1>2. KlinesInv /\ [KlinesNext]_<<banningVars, klinesVars>> => KlinesInv'
  BY NextKlinesInv
<1>3. KlinesInv => BansHold
  BY DEF KlinesInv, BansHold
<1> QED BY <1>1, <1>2, <1>3, PTL DEF KlinesSpec

\* A restart at any moment would bring back just the K-lines that are in force
\* and long enough to be stored, and no mask has two.
THEOREM JournalAlwaysFaithful == KlinesSpec => []JournalFaithful
<1>1. KlinesInit => KlinesInv
  BY InitKlinesInv
<1>2. KlinesInv /\ [KlinesNext]_<<banningVars, klinesVars>> => KlinesInv'
  BY NextKlinesInv
<1> QED BY <1>1, <1>2, InvFaithful, PTL DEF KlinesSpec
============================================================================
