------------------------------ MODULE LinkProofs ------------------------------
(***************************************************************************)
(* What passes between two servers: the bursts that are merged, and the    *)
(* stream that carries them.                                               *)
(*                                                                         *)
(* What a SJOIN makes of two copies of a channel does not depend on which  *)
(* side applies it nor on the order in which copies meet, for any number   *)
(* of servers, any timestamps and any modes.  Each end of a link parses    *)
(* exactly the lines that the other sent, for any sizes of the buffers of  *)
(* zlink.c and of reads.  On any tree of servers, whatever crosses on the  *)
(* links, nobody is on a channel unseen.                                   *)
(***************************************************************************)
EXTENDS BurstMerge, NetChannel, LinkStream, ListLemmas, TLAPS

\* The rule for +k is commutative and associative and stays in range.
LEMMA KeyMerge ==
  ASSUME NEW x \in 0..MaxKey, NEW y \in 0..MaxKey, NEW z \in 0..MaxKey
  PROVE  /\ merge_key(x, y) \in 0..MaxKey
         /\ merge_key(x, y) = merge_key(y, x)
         /\ merge_key(merge_key(x, y), z) = merge_key(x, merge_key(y, z))
BY MergeAssumption DEF merge_key

\* So is the rule for +l.
LEMMA LimitMerge ==
  ASSUME NEW x \in 0..MaxLimit, NEW y \in 0..MaxLimit, NEW z \in 0..MaxLimit
  PROVE  /\ merge_limit(x, y) \in 0..MaxLimit
         /\ merge_limit(x, y) = merge_limit(y, x)
         /\ merge_limit(merge_limit(x, y), z) = merge_limit(x, merge_limit(y, z))
BY MergeAssumption DEF merge_limit

\* The fields of a well-formed mode.
LEMMA ModeFields ==
  ASSUME NEW m \in Modes
  PROVE  /\ m.flags \in SUBSET Letters /\ m.limit \in 0..MaxLimit /\ m.key \in 0..MaxKey
         /\ m.rate \in BOOLEAN /\ m.num \in 0..MaxNum /\ m.time \in 0..MaxNum
         /\ m.num = 0 <=> m.time = 0
         /\ ~ m.rate => m.num = 0
         /\ m = [flags |-> m.flags, limit |-> m.limit, key |-> m.key,
                 rate |-> m.rate, num |-> m.num, time |-> m.time]
BY DEF Modes

\* A merge of well-formed modes is well-formed.
LEMMA MergeClosed ==
  ASSUME NEW m \in Modes, NEW n \in Modes
  PROVE  merge_mode(m, n) \in Modes
<1>1. /\ merge_limit(m.limit, n.limit) \in 0..MaxLimit
      /\ merge_key(m.key, n.key) \in 0..MaxKey
  BY ModeFields, KeyMerge, LimitMerge
<1>2. (m.flags \cup n.flags) \in SUBSET Letters /\ (m.rate \/ n.rate) \in BOOLEAN
  BY ModeFields
<1> DEFINE w == incoming_rate_wins(m, n)
           num == IF w THEN n.num ELSE m.num
           time == IF w THEN n.time ELSE m.time
<1>3. /\ num \in 0..MaxNum /\ time \in 0..MaxNum
      /\ num = 0 <=> time = 0
  BY ModeFields
<1>4. ~ (m.rate \/ n.rate) => num = 0
  BY ModeFields
<1> HIDE DEF num, time
<1>5. merge_mode(m, n) = [flags |-> m.flags \cup n.flags,
                          limit |-> merge_limit(m.limit, n.limit),
                          key   |-> merge_key(m.key, n.key),
                          rate  |-> m.rate \/ n.rate,
                          num   |-> num,
                          time  |-> time]
  BY DEF merge_mode, num, time
<1>6. QED BY <1>1, <1>2, <1>3, <1>4, <1>5 DEF Modes

\* The rule for +j, seen on one parameter: the side whose parameters are
\* kept does not depend on who applies the merge.
LEMMA RateMerge ==
  ASSUME NEW m \in Modes, NEW n \in Modes
  PROVE  /\ merge_mode(m, n).num = merge_mode(n, m).num
         /\ merge_mode(m, n).time = merge_mode(n, m).time
<1>1. /\ m.num \in Nat /\ n.num \in Nat /\ m.time \in Nat /\ n.time \in Nat
      /\ m.num = 0 <=> m.time = 0
      /\ n.num = 0 <=> n.time = 0
      /\ ~ m.rate => m.num = 0
      /\ ~ n.rate => n.num = 0
  BY ModeFields, MergeAssumption
<1>2. QED BY <1>1 DEF merge_mode, incoming_rate_wins

\* merge_mode gives both ends of a burst the same mode.
LEMMA MergeCommutes ==
  ASSUME NEW m \in Modes, NEW n \in Modes
  PROVE  merge_mode(m, n) = merge_mode(n, m)
<1>1. merge_limit(m.limit, n.limit) = merge_limit(n.limit, m.limit)
  BY ModeFields, LimitMerge
<1>2. merge_key(m.key, n.key) = merge_key(n.key, m.key)
  BY ModeFields, KeyMerge
<1>3. (m.rate \/ n.rate) = (n.rate \/ m.rate) /\ m.flags \cup n.flags = n.flags \cup m.flags
  BY ModeFields
<1>4. /\ merge_mode(m, n).num = merge_mode(n, m).num
      /\ merge_mode(m, n).time = merge_mode(n, m).time
  BY RateMerge
<1>5. QED BY <1>1, <1>2, <1>3, <1>4 DEF merge_mode

\* The rule for +j spelled out: a side without +j gives way, "0" wins,
\* then more joins, then less time.
LEMMA RateRule ==
  ASSUME NEW m \in Modes, NEW n \in Modes
  PROVE  LET p == merge_mode(m, n)
         IN  /\ p.rate = (m.rate \/ n.rate)
             /\ ~ m.rate => p.num = n.num /\ p.time = n.time
             /\ ~ n.rate => p.num = m.num /\ p.time = m.time
             /\ m.rate /\ n.rate /\ (m.num = 0 \/ n.num = 0) => p.num = 0 /\ p.time = 0
             /\ m.rate /\ n.rate /\ m.num # 0 /\ n.num # 0 =>
                  IF n.num > m.num \/ (n.num = m.num /\ n.time < m.time)
                  THEN p.num = n.num /\ p.time = n.time
                  ELSE p.num = m.num /\ p.time = m.time
<1>1. /\ m.num \in Nat /\ n.num \in Nat /\ m.time \in Nat /\ n.time \in Nat
      /\ m.num = 0 <=> m.time = 0
      /\ n.num = 0 <=> n.time = 0
      /\ ~ m.rate => m.num = 0
      /\ ~ n.rate => n.num = 0
      /\ m.rate \in BOOLEAN /\ n.rate \in BOOLEAN
  BY ModeFields, MergeAssumption
<1>2. QED BY <1>1 DEF merge_mode, incoming_rate_wins

\* The +j parameters that survive three copies do not depend on the order.
LEMMA RateMergeAssociates ==
  ASSUME NEW m \in Modes, NEW n \in Modes, NEW o \in Modes
  PROVE  /\ merge_mode(merge_mode(m, n), o).num = merge_mode(m, merge_mode(n, o)).num
         /\ merge_mode(merge_mode(m, n), o).time = merge_mode(m, merge_mode(n, o)).time
<1> DEFINE mn == merge_mode(m, n)
           no == merge_mode(n, o)
           l == merge_mode(mn, o)
           r == merge_mode(m, no)
<1>1. /\ m.num \in Nat /\ n.num \in Nat /\ o.num \in Nat
      /\ m.time \in Nat /\ n.time \in Nat /\ o.time \in Nat
      /\ m.rate \in BOOLEAN /\ n.rate \in BOOLEAN /\ o.rate \in BOOLEAN
  BY ModeFields, MergeAssumption
<1>2. mn \in Modes /\ no \in Modes
  BY MergeClosed
<1>3. /\ mn.rate = (m.rate \/ n.rate)
      /\ ~ m.rate => mn.num = n.num /\ mn.time = n.time
      /\ ~ n.rate => mn.num = m.num /\ mn.time = m.time
      /\ m.rate /\ n.rate /\ (m.num = 0 \/ n.num = 0) => mn.num = 0 /\ mn.time = 0
      /\ m.rate /\ n.rate /\ m.num # 0 /\ n.num # 0 =>
           IF n.num > m.num \/ (n.num = m.num /\ n.time < m.time)
           THEN mn.num = n.num /\ mn.time = n.time
           ELSE mn.num = m.num /\ mn.time = m.time
  BY RateRule
<1>4. /\ no.rate = (n.rate \/ o.rate)
      /\ ~ n.rate => no.num = o.num /\ no.time = o.time
      /\ ~ o.rate => no.num = n.num /\ no.time = n.time
      /\ n.rate /\ o.rate /\ (n.num = 0 \/ o.num = 0) => no.num = 0 /\ no.time = 0
      /\ n.rate /\ o.rate /\ n.num # 0 /\ o.num # 0 =>
           IF o.num > n.num \/ (o.num = n.num /\ o.time < n.time)
           THEN no.num = o.num /\ no.time = o.time
           ELSE no.num = n.num /\ no.time = n.time
  BY RateRule
<1> HIDE DEF mn, no
<1>5. /\ ~ mn.rate => l.num = o.num /\ l.time = o.time
      /\ ~ o.rate => l.num = mn.num /\ l.time = mn.time
      /\ mn.rate /\ o.rate /\ (mn.num = 0 \/ o.num = 0) => l.num = 0 /\ l.time = 0
      /\ mn.rate /\ o.rate /\ mn.num # 0 /\ o.num # 0 =>
           IF o.num > mn.num \/ (o.num = mn.num /\ o.time < mn.time)
           THEN l.num = o.num /\ l.time = o.time
           ELSE l.num = mn.num /\ l.time = mn.time
  BY <1>2, RateRule
<1>6. /\ ~ m.rate => r.num = no.num /\ r.time = no.time
      /\ ~ no.rate => r.num = m.num /\ r.time = m.time
      /\ m.rate /\ no.rate /\ (m.num = 0 \/ no.num = 0) => r.num = 0 /\ r.time = 0
      /\ m.rate /\ no.rate /\ m.num # 0 /\ no.num # 0 =>
           IF no.num > m.num \/ (no.num = m.num /\ no.time < m.time)
           THEN r.num = no.num /\ r.time = no.time
           ELSE r.num = m.num /\ r.time = m.time
  BY <1>2, RateRule
<1> HIDE DEF l, r
<1>7. l.num = r.num /\ l.time = r.time
  <2>1. CASE ~ m.rate BY <2>1, <1>1, <1>3, <1>4, <1>5, <1>6
  <2>2. CASE m.rate /\ ~ n.rate BY <2>2, <1>1, <1>3, <1>4, <1>5, <1>6
  <2>3. CASE m.rate /\ n.rate /\ ~ o.rate BY <2>3, <1>1, <1>3, <1>4, <1>5, <1>6
  <2>4. CASE m.rate /\ n.rate /\ o.rate
    <3>1. mn.rate /\ no.rate BY <2>4, <1>3, <1>4
    <3>2. CASE m.num = 0 \/ n.num = 0 \/ o.num = 0
      <4>1. l.num = 0 /\ l.time = 0 BY <2>4, <3>1, <3>2, <1>1, <1>3, <1>5
      <4>2. r.num = 0 /\ r.time = 0 BY <2>4, <3>1, <3>2, <1>1, <1>4, <1>6
      <4>3. QED BY <4>1, <4>2
    <3>3. CASE m.num # 0 /\ n.num # 0 /\ o.num # 0
      <4>1. /\ mn.num # 0 /\ no.num # 0
            /\ mn.num \in Nat /\ no.num \in Nat /\ mn.time \in Nat /\ no.time \in Nat
        BY <2>4, <3>3, <1>1, <1>3, <1>4
      <4>2. CASE n.num > m.num \/ (n.num = m.num /\ n.time < m.time)
        BY <2>4, <3>1, <3>3, <4>1, <4>2, <1>1, <1>3, <1>4, <1>5, <1>6
      <4>3. CASE ~ (n.num > m.num \/ (n.num = m.num /\ n.time < m.time))
        BY <2>4, <3>1, <3>3, <4>1, <4>3, <1>1, <1>3, <1>4, <1>5, <1>6
      <4>4. QED BY <4>2, <4>3
    <3>4. QED BY <3>2, <3>3
  <2>5. QED BY <2>1, <2>2, <2>3, <2>4
<1>8. QED BY <1>7 DEF l, r, mn, no

\* merge_mode may be applied to three copies in any order.
LEMMA MergeAssociates ==
  ASSUME NEW m \in Modes, NEW n \in Modes, NEW o \in Modes
  PROVE  merge_mode(merge_mode(m, n), o) = merge_mode(m, merge_mode(n, o))
<1> DEFINE l == merge_mode(merge_mode(m, n), o)
           r == merge_mode(m, merge_mode(n, o))
<1>1. l.num = r.num /\ l.time = r.time
  BY RateMergeAssociates
<1>2. l.limit = r.limit
  BY ModeFields, LimitMerge DEF merge_mode
<1>3. l.key = r.key
  BY ModeFields, KeyMerge DEF merge_mode
<1>4. l.flags = r.flags
  BY DEF merge_mode
<1>5. l.rate = r.rate
  BY ModeFields DEF merge_mode
<1>6. l \in Modes /\ r \in Modes
  BY MergeClosed
<1> HIDE DEF l, r
<1>7. l = r
  BY <1>1, <1>2, <1>3, <1>4, <1>5, <1>6, ModeFields
<1>8. QED BY <1>7 DEF l, r

----------------------------------------------------------------------------
\* The fields of a copy.
LEMMA CopyFields ==
  ASSUME NEW c \in Copies
  PROVE  c.ts \in Nat /\ c.mode \in Modes /\ c = [ts |-> c.ts, mode |-> c.mode]
BY DEF Copies

\* Applying a burst to a well-formed copy gives one.
LEMMA ApplyClosed ==
  ASSUME NEW c \in Copies, NEW d \in Copies
  PROVE  Apply(c, d) \in Copies
<1>1. sjoin_ts(c.ts, d.ts) \in Nat
  BY CopyFields DEF sjoin_ts
<1>2. sjoin_mode(c.ts, c.mode, d.ts, d.mode) \in Modes
  BY CopyFields, MergeClosed DEF sjoin_mode
<1>3. QED BY <1>1, <1>2 DEF Apply, Copies

\* Either side of a burst computes the same copy.
LEMMA ApplyCommutes ==
  ASSUME NEW c \in Copies, NEW d \in Copies
  PROVE  Apply(c, d) = Apply(d, c)
<1>1. sjoin_ts(c.ts, d.ts) = sjoin_ts(d.ts, c.ts)
  BY CopyFields DEF sjoin_ts
<1>2. sjoin_mode(c.ts, c.mode, d.ts, d.mode) = sjoin_mode(d.ts, d.mode, c.ts, c.mode)
  BY CopyFields, MergeCommutes DEF sjoin_mode, wins
<1>3. QED BY <1>1, <1>2 DEF Apply

\* ... and three copies may meet in any order, as far as the timestamps are set.
LEMMA ApplyAssociates ==
  ASSUME NEW c \in Copies, NEW d \in Copies, NEW e \in Copies
  PROVE  /\ Apply(Apply(c, d), e).ts = Apply(c, Apply(d, e)).ts
         /\ Blasted({c.ts, d.ts, e.ts}) \/ Apply(Apply(c, d), e).mode = Apply(c, Apply(d, e)).mode
<1>1. /\ c.ts \in Nat /\ d.ts \in Nat /\ e.ts \in Nat
      /\ c.mode \in Modes /\ d.mode \in Modes /\ e.mode \in Modes
  BY CopyFields
<1>2. merge_mode(merge_mode(c.mode, d.mode), e.mode)
        = merge_mode(c.mode, merge_mode(d.mode, e.mode))
  BY <1>1, MergeAssociates
<1>3. Apply(Apply(c, d), e).ts = Apply(c, Apply(d, e)).ts
  BY <1>1 DEF Apply, sjoin_ts
<1>4. ASSUME ~ Blasted({c.ts, d.ts, e.ts})
      PROVE  Apply(Apply(c, d), e).mode = Apply(c, Apply(d, e)).mode
  <2>1. CASE c.ts # 0 /\ d.ts # 0 /\ e.ts # 0
    BY <1>1, <1>2, <2>1 DEF Apply, sjoin_ts, sjoin_mode, wins
  <2>2. CASE c.ts = 0 \/ d.ts = 0 \/ e.ts = 0
    <3>1. 0 \in {c.ts, d.ts, e.ts}
      BY <2>2
    <3>2. ~ \E a, b \in {c.ts, d.ts, e.ts} : wins(a, b)
      BY <1>4, <3>1 DEF Blasted
    <3>3. /\ ~ wins(c.ts, d.ts) /\ ~ wins(d.ts, c.ts) /\ ~ wins(d.ts, e.ts)
          /\ ~ wins(e.ts, d.ts) /\ ~ wins(c.ts, e.ts) /\ ~ wins(e.ts, c.ts)
      BY <3>2
    <3>4. /\ Apply(c, d).mode = merge_mode(c.mode, d.mode)
          /\ Apply(d, e).mode = merge_mode(d.mode, e.mode)
          /\ Apply(c, d).ts = sjoin_ts(c.ts, d.ts) /\ Apply(d, e).ts = sjoin_ts(d.ts, e.ts)
      BY <3>3 DEF Apply, sjoin_mode
    <3>5. /\ ~ wins(sjoin_ts(c.ts, d.ts), e.ts) /\ ~ wins(e.ts, sjoin_ts(c.ts, d.ts))
          /\ ~ wins(sjoin_ts(d.ts, e.ts), c.ts) /\ ~ wins(c.ts, sjoin_ts(d.ts, e.ts))
      BY <1>1, <3>3 DEF sjoin_ts, wins
    <3>6. /\ Apply(Apply(c, d), e).mode = merge_mode(merge_mode(c.mode, d.mode), e.mode)
          /\ Apply(c, Apply(d, e)).mode = merge_mode(c.mode, merge_mode(d.mode, e.mode))
      BY <3>4, <3>5 DEF Apply, sjoin_mode
    <3> QED BY <1>2, <3>6
  <2> QED BY <2>1, <2>2
<1>5. QED BY <1>3, <1>4

\* The inductive invariant: every server has a well-formed copy.
IInv == copy \in [Servers -> Copies]

\* The copies start well formed.
LEMMA InitIInv == BurstInit => IInv
BY StartAssumption DEF BurstInit, IInv, Copies

\* A burst keeps them so.
LEMMA StepIInv == IInv /\ [BurstNext]_copy => IInv'
<1> SUFFICES ASSUME IInv, [BurstNext]_copy PROVE IInv'
  OBVIOUS
<1>1. CASE UNCHANGED copy
  BY <1>1 DEF IInv
<1>2. ASSUME NEW s \in Servers, NEW t \in Servers, Exchange(s, t)
      PROVE  IInv'
  <2>1. Apply(copy[s], copy[t]) \in Copies /\ Apply(copy[t], copy[s]) \in Copies
    BY ApplyClosed DEF IInv
  <2>2. QED BY <1>2, <2>1 DEF IInv, Exchange
<1>3. QED BY <1>1, <1>2 DEF BurstNext

\* The inductive invariant holds in every reachable state.
LEMMA IInvHolds == BurstSpec => []IInv
BY InitIInv, StepIInv, PTL DEF BurstSpec

\* A merge never makes an ill-formed mode.
THEOREM WellFormed == BurstSpec => []ModesWellFormed
<1>1. IInv => ModesWellFormed
  BY DEF IInv, ModesWellFormed
<1>2. QED BY <1>1, IInvHolds, PTL

\* The order in which copies meet is irrelevant, but for a blasted timestamp among
\* different ones: servers that burst along different paths of the network compute
\* the same copy (m_sjoin, channel.c:4733-4810).
THEOREM MergeOrderIrrelevant == BurstSpec => []OrderIrrelevant
<1>1. IInv => OrderIrrelevant
  <2> SUFFICES ASSUME IInv, NEW c \in {copy[s] : s \in Servers},
                      NEW d \in {copy[s] : s \in Servers}, NEW e \in {copy[s] : s \in Servers}
               PROVE  /\ Apply(Apply(c, d), e).ts = Apply(c, Apply(d, e)).ts
                      /\ \/ Blasted({c.ts, d.ts, e.ts})
                         \/ Apply(Apply(c, d), e).mode = Apply(c, Apply(d, e)).mode
    BY Zenon DEF OrderIrrelevant
  <2>1. c \in Copies /\ d \in Copies /\ e \in Copies
    BY DEF IInv
  <2> QED BY <2>1, ApplyAssociates, Zenon
<1>2. QED BY <1>1, IInvHolds, PTL

\* The two ends of a burst agree afterwards.
THEOREM BurstsAgree == BurstSpec => BurstAgrees
<1>1. IInv /\ [BurstNext]_copy => [\E s, t \in Servers : s # t /\ copy'[s] = copy'[t]]_copy
  <2> SUFFICES ASSUME IInv, NEW s \in Servers, NEW t \in Servers, Exchange(s, t)
               PROVE  s # t /\ copy'[s] = copy'[t]
    BY DEF BurstNext
  <2>1. Apply(copy[s], copy[t]) = Apply(copy[t], copy[s])
    BY ApplyCommutes DEF IInv
  <2>2. QED BY <2>1 DEF IInv, Exchange
<1>2. QED BY <1>1, IInvHolds, PTL DEF BurstSpec, BurstAgrees

\* The merge rules of m_sjoin keep modes well formed and do not depend on order,
\* but for a blasted timestamp among different ones.
THEOREM MergeLawsHold == BurstSpec => []MergeLaws
BY WellFormed, MergeOrderIrrelevant, PTL DEF MergeLaws
----------------------------------------------------------------------------
(* The stream of a link: the invariant.                                    *)

\* What end e wants of encryption and compression, and what comes of it.
Wants == {v \in [Sides -> SUBSET {"dkey", "zip"}] : "zip" \notin v["acc"]}
Keyed(v)    == "dkey" \in v["con"] /\ "dkey" \in v["acc"]
Zips(v, e)  == "zip" \in v[e]

\* The lines of the negotiation up to where SVINFO ZIP may follow, and the
\* characters after which the stream is compressed.
Agreed(v) == IF Keyed(v) THEN 7 ELSE 2
ZBase(v)  == IF Keyed(v) THEN 16 ELSE 6
PingAt(v, e) == Agreed(v) + (IF Zips(v, e) THEN 2 ELSE 1)

\* The i-th line that end e sends.
Line(v, e, i) ==
  IF i = 1 THEN Greeting(v[e])
  ELSE IF i = 2 THEN "SVINFO"
  ELSE IF Keyed(v) /\ i = 3 THEN "DKEY START"
  ELSE IF Keyed(v) /\ i = 4 THEN "DKEY PUB I"
  ELSE IF Keyed(v) /\ i = 5 THEN "DKEY PUB O"
  ELSE IF Keyed(v) /\ i = 6 THEN "DKEY DONE"
  ELSE IF Keyed(v) /\ i = 7 THEN "DKEY EXIT"
  ELSE IF Zips(v, e) /\ i = Agreed(v) + 1 THEN "SVINFO ZIP"
  ELSE IF i = PingAt(v, e) THEN "PING"
  ELSE "data"

Lines == {"SERVER DKEY", "SERVER", "SVINFO", "DKEY START", "DKEY PUB I", "DKEY PUB O",
          "DKEY DONE", "DKEY EXIT", "SVINFO ZIP", "PING", "data"}

\* The p-th character that end e sends, with the codings M.
Codes == {"zip", "rc4"}
LineAt(v, e, p) == Line(v, e, (p + 1) \div 2)
Part(p)         == IF p % 2 = 1 THEN "body" ELSE "eol"
ZipAt(v, e, p)  == IF Zips(v, e) /\ p > ZBase(v) THEN p - ZBase(v) ELSE 0
KeyAt(v, p)     == IF Keyed(v) /\ p > 12 THEN p - 12 ELSE 0
Code(v, e, p, M) == [line |-> LineAt(v, e, p), part |-> Part(p),
                     zip |-> IF "zip" \in M THEN ZipAt(v, e, p) ELSE 0,
                     key |-> IF "rc4" \in M THEN KeyAt(v, p) ELSE 0]

\* s is the characters after the first b that end e sends, with the codings M.
LinkChars == [line : Lines, part : {"body", "eol"}, zip : Nat, key : Nat]
Coded(v, e, s, b, M) == /\ s \in Seq(LinkChars)
                        /\ \A i \in 1 .. Len(s) : s[i] = Code(v, e, b + i, M)

Outs == [mode : SUBSET Codes, kout : Nat, zout : Nat, zbuf : Seq(LinkChars),
         wire : Seq(LinkChars), sent : Seq(Lines)]
Ins  == [mode : SUBSET Codes, kin : Nat, zin : Nat, rest : Seq(LinkChars),
         nbuf : Seq(LinkChars), count : Seq(LinkChars), parsed : Seq(Lines)]
LinkFlags  == {"dkey", "dozip", "dh", "keyed"}
LinkStates == {"closed", "connecting", "unknown", "handshake", "nego", "server", "gone"}
Ends == [st : LinkStates, flags : SUBSET LinkFlags, got : SUBSET {"I", "O"}, w : Outs, r : Ins]

\* What end e has written, of which the other has read b characters.
Writes(v, e, w, b) ==
  /\ b + Len(w.wire) + Len(w.zbuf) = 2 * Len(w.sent)
  /\ Coded(v, e, w.wire, b, Codes)
  /\ Coded(v, e, w.zbuf, b + Len(w.wire), {})
  /\ "rc4" \in w.mode => Keyed(v) /\ b + Len(w.wire) = 12 + w.kout
  /\ "rc4" \notin w.mode => w.kout = 0 /\ (Keyed(v) => Len(w.sent) <= 6)
  /\ "zip" \in w.mode => Zips(v, e) /\ b + Len(w.wire) = ZBase(v) + w.zout
  /\ "zip" \notin w.mode => /\ w.zout = 0 /\ Len(w.zbuf) = 0
                            /\ Zips(v, e) => 2 * Len(w.sent) <= ZBase(v)
  /\ Len(w.zbuf) = 0 \/ Len(w.zbuf) < ZipMax - LineRoom
  /\ \A i \in 1 .. Len(w.sent) : w.sent[i] = Line(v, e, i)

\* What is read of what end e sends, up to the end of a line.
Looked(r)   == 2 * Len(r.parsed) + Len(r.count)
Unzipped(r) == Looked(r) + Len(r.rest)
ReadUpTo(r) == Unzipped(r) + Len(r.nbuf)
Read(v, e, r) ==
  /\ Coded(v, e, r.count, 2 * Len(r.parsed), {}) /\ Len(r.count) <= 1
  /\ Coded(v, e, r.rest, Looked(r), Codes \ r.mode)
  /\ Coded(v, e, r.nbuf, Unzipped(r), {"zip"})
  /\ "rc4" \in r.mode => Keyed(v) /\ Len(r.parsed) >= 6 /\ ReadUpTo(r) = 12 + r.kin
  /\ "rc4" \notin r.mode => r.kin = 0 /\ (Keyed(v) => Len(r.parsed) <= 6)
  /\ "zip" \in r.mode => /\ Zips(v, e) /\ 2 * Len(r.parsed) >= ZBase(v)
                         /\ Unzipped(r) = ZBase(v) + r.zin
  /\ "zip" \notin r.mode => /\ r.zin = 0 /\ Len(r.nbuf) = 0
                            /\ Zips(v, e) => 2 * Len(r.parsed) <= ZBase(v)
  /\ \A i \in 1 .. Len(r.parsed) : r.parsed[i] = Line(v, e, i)

\* The reader is in the form of what it reads next.
Ready(v, e, r) == /\ Keyed(v) /\ Len(r.parsed) = 6 => "rc4" \in r.mode
                  /\ Zips(v, e) /\ 2 * Len(r.parsed) = ZBase(v) => "zip" \in r.mode

\* What end e knows when it has parsed n lines and sent m.
Caps(v, e) == dokey(v[e]) \cup dozip(v[e])
Opening(v, e, s, n, m) ==
  /\ n = 0 /\ s.got = {}
  /\ \/ m = 0 /\ s.flags = {} /\ s.st = "closed"
     \/ m = 0 /\ s.flags = {} /\ e = "con" /\ s.st = "connecting"
     \/ m = 0 /\ s.flags = {} /\ e = "acc" /\ s.st = "unknown"
     \/ m = 1 /\ s.flags = Caps(v, e) /\ e = "con" /\ s.st = "handshake"
Keying(v, e, s, n, m) ==
  /\ Keyed(v) /\ s.st = "nego"
  /\ \/ n \in 1 .. 2 /\ m = 3 /\ s.flags = Caps(v, e) /\ s.got = {}
     \/ n = 3 /\ m = 5 /\ s.flags = Caps(v, e) \cup {"dh"} /\ s.got = {}
     \/ n = 4 /\ m = 5 /\ s.flags = Caps(v, e) \cup {"dh"} /\ s.got = {"I"}
     \/ /\ n = 5 /\ m = 6 /\ s.flags = Caps(v, e) \cup {"keyed"} /\ s.got = {"I", "O"}
        /\ "rc4" \in s.w.mode
     \/ n = 6 /\ m = 7 /\ s.flags = Caps(v, e) \cup {"keyed"} /\ s.got = {"I", "O"}
Serving(v, e, s, n, m) ==
  s.st = "server" /\ n >= 1 /\ (Keyed(v) => n >= 7) /\ m >= PingAt(v, e)
Knows(v, e, s, n, m) == Opening(v, e, s, n, m) \/ Keying(v, e, s, n, m) \/ Serving(v, e, s, n, m)

\* Nothing is read before the connection is there.
Quiet(s) == s.st \in {"closed", "connecting"} => Len(s.r.rest) = 0 /\ Len(s.r.nbuf) = 0

\* The end e, when what the other has read of it ends at b.
EndOK(v, e, s, b) ==
  /\ s \in Ends /\ Quiet(s)
  /\ Writes(v, e, s.w, b)
  /\ Read(v, Other(e), s.r) /\ Ready(v, Other(e), s.r)
  /\ Knows(v, e, s, Len(s.r.parsed), Len(s.w.sent))

\* The two ends of a link: the characters on their way are, by place and coding, exactly
\* those between what one has sent and what the other has parsed; each is in the form
\* that the next character needs, and as far in the negotiation as the lines it has
\* parsed and sent say.
LinkInv == /\ want \in Wants /\ DOMAIN end = Sides
           /\ end["con"].st = "closed" <=> end["acc"].st = "closed"
           /\ \A e \in Sides : EndOK(want, e, end[e], ReadUpTo(end[Other(e)].r))

----------------------------------------------------------------------------

\* Every line is one of the lines of a link.
LEMMA LineType ==
  ASSUME NEW v, NEW e, NEW i PROVE Line(v, e, i) \in Lines
BY DEF Line, Lines, Greeting

\* The body and the end of the i-th line.
LEMMA Halves ==
  ASSUME NEW v, NEW e, NEW i \in Nat
  PROVE  /\ LineAt(v, e, 2 * i + 1) = Line(v, e, i + 1) /\ Part(2 * i + 1) = "body"
         /\ LineAt(v, e, 2 * i + 2) = Line(v, e, i + 1) /\ Part(2 * i + 2) = "eol"
<1>1. ((2 * i + 1) + 1) \div 2 = i + 1 /\ ((2 * i + 2) + 1) \div 2 = i + 1
  OBVIOUS
<1>2. (2 * i + 1) % 2 = 1 /\ (2 * i + 2) % 2 = 0
  OBVIOUS
<1> QED BY <1>1, <1>2 DEF LineAt, Part

\* Every character is well formed.
LEMMA CodeType ==
  ASSUME NEW v, NEW e, NEW p \in Nat, NEW M PROVE Code(v, e, p, M) \in LinkChars
<1>1. LineAt(v, e, p) \in Lines
  BY LineType DEF LineAt
<1>2. Part(p) \in {"body", "eol"}
  BY DEF Part
<1>3. ZBase(v) \in Nat
  BY DEF ZBase
<1>4. ZipAt(v, e, p) \in Nat
  BY <1>3 DEF ZipAt
<1>5. KeyAt(v, p) \in Nat
  BY DEF KeyAt
<1> QED BY <1>1, <1>2, <1>4, <1>5 DEF Code, LinkChars

\* The fields of a character.
LEMMA CodeFields ==
  ASSUME NEW v, NEW e, NEW p, NEW M
  PROVE  LET c == Code(v, e, p, M)
         IN /\ c.line = LineAt(v, e, p) /\ c.part = Part(p)
            /\ c.zip = IF "zip" \in M THEN ZipAt(v, e, p) ELSE 0
            /\ c.key = IF "rc4" \in M THEN KeyAt(v, p) ELSE 0
BY DEF Code

\* A coding is put on, and taken off.
LEMMA CodeZip ==
  ASSUME NEW v, NEW e, NEW p, NEW M, NEW N, N = M \cup {"zip"}
  PROVE  [Code(v, e, p, M) EXCEPT !.zip = ZipAt(v, e, p)] = Code(v, e, p, N)
BY DEF Code

\* rc4_process_stream_to_buf puts the next place in the key stream on it.
LEMMA CodeKey ==
  ASSUME NEW v, NEW e, NEW p, NEW M, NEW N, N = M \cup {"rc4"}
  PROVE  [Code(v, e, p, M) EXCEPT !.key = KeyAt(v, p)] = Code(v, e, p, N)
BY DEF Code

\* zip_input takes the place in the compressed stream off again.
LEMMA CodeUnzip ==
  ASSUME NEW v, NEW e, NEW p, NEW M, NEW N, N = M \ {"zip"}
  PROVE  [Code(v, e, p, M) EXCEPT !.zip = 0] = Code(v, e, p, N)
BY DEF Code

\* rc4_process_stream takes the place in the key stream off again.
LEMMA CodeUnkey ==
  ASSUME NEW v, NEW e, NEW p, NEW M, NEW N, N = M \ {"rc4"}
  PROVE  [Code(v, e, p, M) EXCEPT !.key = 0] = Code(v, e, p, N)
BY DEF Code

\* Codings that agree wherever they have begun give the same character.
LEMMA CodeModes ==
  ASSUME NEW v, NEW e, NEW p, NEW M, NEW N,
         ("zip" \in M <=> "zip" \in N) \/ ZipAt(v, e, p) = 0,
         ("rc4" \in M <=> "rc4" \in N) \/ KeyAt(v, p) = 0
  PROVE  Code(v, e, p, M) = Code(v, e, p, N)
BY DEF Code

\* Pieces of the stream.
LEMMA CodedNone ==
  ASSUME NEW v, NEW e, NEW b, NEW M, NEW s, s = << >>
  PROVE  Coded(v, e, s, b, M) /\ Len(s) = 0 /\ s \in Seq(LinkChars)
BY DEF Coded

\* A piece of the stream and the one after it are a piece.
LEMMA CodedJoin ==
  ASSUME NEW v, NEW e, NEW b \in Nat, NEW M, NEW s, NEW t, Coded(v, e, s, b, M),
         NEW c, c = b + Len(s), Coded(v, e, t, c, M), NEW u, u = s \o t
  PROVE  Coded(v, e, u, b, M) /\ Len(u) = Len(s) + Len(t) /\ u \in Seq(LinkChars)
<1>1. s \in Seq(LinkChars) /\ t \in Seq(LinkChars) /\ Len(s) \in Nat /\ Len(t) \in Nat
  BY DEF Coded
<1>2. /\ u \in Seq(LinkChars) /\ Len(u) = Len(s) + Len(t)
      /\ \A i \in 1 .. Len(s) : u[i] = s[i]
      /\ \A i \in 1 .. Len(t) : u[Len(s) + i] = t[i]
  BY <1>1, Concats
<1>3. ASSUME NEW i \in 1 .. Len(u) PROVE u[i] = Code(v, e, b + i, M)
  <2>1. CASE i <= Len(s)
    <3>1. i \in 1 .. Len(s)
      BY <1>1, <1>2, <2>1
    <3> QED BY <1>2, <3>1 DEF Coded
  <2>2. CASE ~ (i <= Len(s))
    <3>1. PICK j : j = i - Len(s)
      OBVIOUS
    <3>2. j \in 1 .. Len(t) /\ i = Len(s) + j /\ c + j = b + i
      BY <1>1, <1>2, <2>2, <3>1
    <3>3. u[i] = t[j]
      BY <1>2, <3>2
    <3>4. t[j] = Code(v, e, c + j, M)
      BY <3>2 DEF Coded
    <3> QED BY <3>2, <3>3, <3>4
  <2> QED BY <2>1, <2>2
<1> QED BY <1>2, <1>3 DEF Coded

\* The front of a piece is a piece.
LEMMA CodedFront ==
  ASSUME NEW v, NEW e, NEW b \in Nat, NEW M, NEW s, Coded(v, e, s, b, M), NEW k \in 0 .. Len(s),
         NEW t, t = SubSeq(s, 1, k)
  PROVE  Coded(v, e, t, b, M)
<1>1. s \in Seq(LinkChars) /\ Len(s) \in Nat /\ k \in Nat
  BY DEF Coded
<1>2. t \in Seq(LinkChars) /\ Len(t) = k /\ \A i \in 1 .. k : t[i] = s[i]
  BY <1>1
<1>3. ASSUME NEW i \in 1 .. k PROVE t[i] = Code(v, e, b + i, M)
  BY <1>1, <1>2 DEF Coded
<1> QED BY <1>2, <1>3 DEF Coded

\* So is what is left after its front.
LEMMA CodedBack ==
  ASSUME NEW v, NEW e, NEW b \in Nat, NEW M, NEW s, Coded(v, e, s, b, M), NEW k \in 0 .. Len(s),
         NEW u, u = SubSeq(s, k + 1, Len(s)), NEW c, c = b + k
  PROVE  Coded(v, e, u, c, M)
<1>1. s \in Seq(LinkChars) /\ Len(s) \in Nat /\ k \in Nat
  BY DEF Coded
<1>3. u \in Seq(LinkChars) /\ Len(u) = Len(s) - k /\ \A i \in 1 .. Len(s) - k : u[i] = s[k + i]
  BY <1>1, AfterFront
<1>5. ASSUME NEW i \in 1 .. Len(s) - k PROVE u[i] = Code(v, e, (b + k) + i, M)
  <2>1. k + i \in 1 .. Len(s) /\ b + (k + i) = (b + k) + i
    BY <1>1
  <2>2. s[k + i] = Code(v, e, b + (k + i), M)
    BY <2>1 DEF Coded
  <2> QED BY <1>3, <2>1, <2>2
<1> QED BY <1>3, <1>5 DEF Coded

\* A function on 1 .. n is a sequence of length n.
LEMMA IsSeq ==
  ASSUME NEW S, NEW n \in Nat, NEW t \in [1 .. n -> S] PROVE t \in Seq(S) /\ Len(t) = n
OBVIOUS

\* A sequence with the domain 1 .. n has length n.
LEMMA MapLen ==
  ASSUME NEW S, NEW n \in Nat, NEW t \in Seq(S), DOMAIN t = 1 .. n PROVE Len(t) = n
OBVIOUS

\* The same characters with other codings.
LEMMA CodedMap ==
  ASSUME NEW v, NEW e, NEW b \in Nat, NEW M, NEW n \in Nat, NEW t,
         t = [i \in 1 .. n |-> Code(v, e, b + i, M)]
  PROVE  Coded(v, e, t, b, M) /\ Len(t) = n /\ t \in Seq(LinkChars)
<1>1. ASSUME NEW i \in 1 .. n PROVE t[i] \in LinkChars
  <2>1. b + i \in Nat
    OBVIOUS
  <2> QED BY <2>1, CodeType
<1>2. t \in [1 .. n -> LinkChars]
  BY <1>1
<1>3. t \in Seq(LinkChars) /\ Len(t) = n
  BY <1>2, IsSeq
<1> QED BY <1>3 DEF Coded

\* A piece that ends before a coding begins is the same with or without it.
LEMMA CodedModes ==
  ASSUME NEW v, NEW e, NEW b \in Nat, NEW M, NEW N, NEW s, Coded(v, e, s, b, M),
         ("zip" \in M <=> "zip" \in N) \/ (Zips(v, e) => b + Len(s) <= ZBase(v)),
         ("rc4" \in M <=> "rc4" \in N) \/ (Keyed(v) => b + Len(s) <= 12)
  PROVE  Coded(v, e, s, b, N)
<1>1. s \in Seq(LinkChars) /\ Len(s) \in Nat /\ ZBase(v) \in Nat
  BY DEF Coded, ZBase
<1>2. ASSUME NEW i \in 1 .. Len(s) PROVE s[i] = Code(v, e, b + i, N)
  <2>1. (Zips(v, e) => b + Len(s) <= ZBase(v)) => ZipAt(v, e, b + i) = 0
    BY <1>1 DEF ZipAt
  <2>2. (Keyed(v) => b + Len(s) <= 12) => KeyAt(v, b + i) = 0
    BY <1>1 DEF KeyAt
  <2>3. Code(v, e, b + i, M) = Code(v, e, b + i, N)
    BY <2>1, <2>2, CodeModes
  <2> QED BY <2>3 DEF Coded
<1> QED BY <1>1, <1>2 DEF Coded

\* The characters of the next line.
LEMMA CharsCoded ==
  ASSUME NEW v, NEW e, NEW m \in Nat, NEW l, l = Line(v, e, m + 1), NEW c, c = Chars(l)
  PROVE  Coded(v, e, c, 2 * m, {}) /\ Len(c) = 2 /\ c \in Seq(LinkChars)
<1>1. c = [i \in 1 .. 2 |-> c[i]] /\ Len(c) = 2
  BY DEF Chars
<1>2. /\ c[1] = [line |-> l, part |-> "body", zip |-> 0, key |-> 0]
      /\ c[2] = [line |-> l, part |-> "eol", zip |-> 0, key |-> 0]
  BY DEF Chars
<1>3. c[1] = Code(v, e, 2 * m + 1, {})
  BY <1>2, Halves DEF Code
<1>4. c[2] = Code(v, e, 2 * m + 2, {})
  BY <1>2, Halves DEF Code
<1>5. \A i \in 1 .. 2 : c[i] = Code(v, e, 2 * m + i, {})
  BY <1>3, <1>4
<1>6. 2 * m + 1 \in Nat /\ 2 * m + 2 \in Nat
  OBVIOUS
<1>7. c[1] \in LinkChars /\ c[2] \in LinkChars
  BY <1>3, <1>4, <1>6, CodeType
<1>8. c \in Seq(LinkChars)
  <2>1. PICK n \in Nat : n = 2
    OBVIOUS
  <2>2. \A i \in 1 .. n : c[i] \in LinkChars
    BY <1>7, <2>1
  <2>3. c \in [1 .. n -> LinkChars]
    BY <1>1, <2>1, <2>2
  <2> QED BY <2>3
<1> QED BY <1>1, <1>5, <1>8 DEF Coded

\* The key stream begins after DKEY DONE, twelve characters.
LEMMA KeyNext ==
  ASSUME NEW v, Keyed(v), NEW k \in Nat, NEW i \in Nat, i >= 1, NEW p, p = (12 + k) + i
  PROVE  KeyAt(v, p) = k + i
BY DEF KeyAt

\* The compressed stream begins after SVINFO ZIP.
LEMMA ZipNext ==
  ASSUME NEW v, NEW e, Zips(v, e), NEW k \in Nat, NEW i \in Nat, i >= 1, NEW p, p = (ZBase(v) + k) + i
  PROVE  ZipAt(v, e, p) = k + i
<1>1. PICK z \in Nat : z = ZBase(v)
  BY DEF ZBase
<1> QED BY <1>1 DEF ZipAt

\* Encrypting the next characters, and compressing them.
LEMMA Encrypted ==
  ASSUME NEW v, NEW e, NEW cs, NEW k \in Nat, NEW c \in Nat, Coded(v, e, cs, c, {"zip"}), Keyed(v), c = 12 + k,
         NEW t, t = [i \in 1 .. Len(cs) |-> [cs[i] EXCEPT !.key = k + i]]
  PROVE  Coded(v, e, t, c, Codes) /\ Len(t) = Len(cs)
<1>1. cs \in Seq(LinkChars) /\ Len(cs) \in Nat
  BY DEF Coded
<1>2. PICK n \in Nat : n = Len(cs)
  BY <1>1
<1>3. ASSUME NEW i \in 1 .. n PROVE t[i] = Code(v, e, c + i, Codes)
  <2>1. KeyAt(v, c + i) = k + i
    BY KeyNext
  <2>2. t[i] = [cs[i] EXCEPT !.key = k + i]
    BY <1>2
  <2>3. cs[i] = Code(v, e, c + i, {"zip"})
    BY <1>2 DEF Coded
  <2>4. {"zip"} \cup {"rc4"} = Codes
    BY DEF Codes
  <2>5. PICK p : p = c + i
    OBVIOUS
  <2>6. t[i] = [Code(v, e, p, {"zip"}) EXCEPT !.key = KeyAt(v, p)]
    BY <2>1, <2>2, <2>3, <2>5
  <2>7. [Code(v, e, p, {"zip"}) EXCEPT !.key = KeyAt(v, p)] = Code(v, e, p, Codes)
    BY <2>4, CodeKey
  <2> QED BY <2>5, <2>6, <2>7
<1>4. t = [i \in 1 .. n |-> Code(v, e, c + i, Codes)]
  BY <1>2, <1>3
<1>5. Coded(v, e, t, c, Codes) /\ Len(t) = n
  BY <1>4, CodedMap
<1> QED BY <1>2, <1>5

\* zip_output puts the next places in the compressed stream on what it held back.
LEMMA Compressed ==
  ASSUME NEW v, NEW e, NEW cs, NEW k \in Nat, NEW c \in Nat, Coded(v, e, cs, c, {}), Zips(v, e),
         c = ZBase(v) + k, NEW t, t = [i \in 1 .. Len(cs) |-> [cs[i] EXCEPT !.zip = k + i]]
  PROVE  Coded(v, e, t, c, {"zip"}) /\ Len(t) = Len(cs)
<1>1. cs \in Seq(LinkChars) /\ Len(cs) \in Nat
  BY DEF Coded
<1>2. PICK n \in Nat : n = Len(cs)
  BY <1>1
<1>3. ASSUME NEW i \in 1 .. n PROVE t[i] = Code(v, e, c + i, {"zip"})
  <2>1. ZipAt(v, e, c + i) = k + i
    BY ZipNext
  <2>2. t[i] = [cs[i] EXCEPT !.zip = k + i]
    BY <1>2
  <2>3. cs[i] = Code(v, e, c + i, {})
    BY <1>2 DEF Coded
  <2>4. {} \cup {"zip"} = {"zip"}
    OBVIOUS
  <2>5. PICK p : p = c + i
    OBVIOUS
  <2>6. t[i] = [Code(v, e, p, {}) EXCEPT !.zip = ZipAt(v, e, p)]
    BY <2>1, <2>2, <2>3, <2>5
  <2>7. [Code(v, e, p, {}) EXCEPT !.zip = ZipAt(v, e, p)] = Code(v, e, p, {"zip"})
    BY <2>4, CodeZip
  <2> QED BY <2>5, <2>6, <2>7
<1>4. t = [i \in 1 .. n |-> Code(v, e, c + i, {"zip"})]
  BY <1>2, <1>3
<1>5. Coded(v, e, t, c, {"zip"}) /\ Len(t) = n
  BY <1>4, CodedMap, SMTT(30)
<1> QED BY <1>2, <1>5

\* Both counts of what was written grow alike.
LEMMA Shift ==
  ASSUME NEW b \in Nat, NEW l \in Nat, NEW n \in Nat, NEW k \in Nat, NEW z \in Nat, b + l = z + k
  PROVE  b + (l + n) = z + (k + n)
OBVIOUS

\* The fields of what an end knows of its writing.
LEMMA OutFields ==
  ASSUME NEW w \in Outs
  PROVE  /\ w.mode \in SUBSET Codes /\ w.kout \in Nat /\ w.zout \in Nat /\ w.zbuf \in Seq(LinkChars)
         /\ w.wire \in Seq(LinkChars) /\ w.sent \in Seq(Lines)
         /\ Len(w.wire) \in Nat /\ Len(w.zbuf) \in Nat /\ Len(w.sent) \in Nat
BY DEF Outs

\* The characters cs come next on the wire.
Comes(v, e, w, b, cs) ==
  /\ Coded(v, e, w.wire, b, Codes) /\ Coded(v, e, cs, b + Len(w.wire), {"zip"})
  /\ "rc4" \in w.mode => Keyed(v) /\ b + Len(w.wire) = 12 + w.kout
  /\ "rc4" \notin w.mode => w.kout = 0 /\ (Keyed(v) => b + Len(w.wire) + Len(cs) <= 12)

\* u is w with the characters cs on the wire.
Longer(v, e, w, b, cs, u) ==
  /\ u \in Outs /\ u.mode = w.mode /\ u.zout = w.zout /\ u.zbuf = w.zbuf /\ u.sent = w.sent
  /\ Coded(v, e, u.wire, b, Codes) /\ Len(u.wire) = Len(w.wire) + Len(cs)
  /\ "rc4" \in w.mode => b + Len(u.wire) = 12 + u.kout
  /\ "rc4" \notin w.mode => u.kout = 0

\* deliver continues the wire.
LEMMA Delivered ==
  ASSUME NEW v, NEW e, NEW b \in Nat, NEW w \in Outs, NEW cs, Comes(v, e, w, b, cs),
         NEW u, u = deliver(w, cs)
  PROVE  Longer(v, e, w, b, cs, u)
<1>1. /\ w.mode \in SUBSET Codes /\ w.kout \in Nat /\ w.wire \in Seq(LinkChars) /\ Len(w.wire) \in Nat
  BY OutFields
<1>a. PICK a \in Seq(LinkChars), k \in Nat : a = w.wire /\ k = w.kout
  BY <1>1
<1>2. PICK n \in Nat : n = Len(a)
  BY <1>1, <1>a
<1>b. PICK c : c = b + n
  OBVIOUS
<1>3. c \in Nat /\ c = b + n /\ Coded(v, e, a, b, Codes) /\ Coded(v, e, cs, c, {"zip"})
  BY <1>a, <1>b, <1>2 DEF Comes
<1>4. Len(cs) \in Nat
  BY <1>3 DEF Coded
<1>5. ASSUME NEW t, Coded(v, e, t, c, Codes), Len(t) = Len(cs), NEW x, x = a \o t
      PROVE  Coded(v, e, x, b, Codes) /\ Len(x) = n + Len(cs) /\ x \in Seq(LinkChars)
  <2>1. c = b + Len(a)
    BY <1>2, <1>3
  <2>2. Coded(v, e, x, b, Codes)
    BY <1>3, <1>5, <2>1, CodedJoin
  <2>a. t \in Seq(LinkChars)
    BY <1>5 DEF Coded
  <2>b. x = a \o t
    BY <1>5
  <2>3. Len(x) = Len(a) + Len(t)
    BY <2>a, <2>b, Concats, ZenonT(40)
  <2>4. x \in Seq(LinkChars)
    BY <2>2 DEF Coded
  <2> QED BY <1>2, <1>5, <2>2, <2>3, <2>4
<1>6. CASE "rc4" \in w.mode
  <2>1. PICK t : t = [i \in 1 .. Len(cs) |-> [cs[i] EXCEPT !.key = k + i]]
    OBVIOUS
  <2>2. PICK x, h : x = a \o t /\ h = k + Len(cs)
    OBVIOUS
  <2>3. u = [w EXCEPT !.kout = h, !.wire = x]
    BY <1>a, <1>2, <1>6, <2>1, <2>2, Zenon DEF deliver
  <2>4. Keyed(v) /\ c = 12 + k
    BY <1>a, <1>b, <1>2, <1>6 DEF Comes
  <2>a. Coded(v, e, t, c, Codes)
    BY <1>3, <2>1, <2>4, Encrypted
  <2>b. Len(t) = Len(cs)
    BY <1>3, <2>1, <2>4, Encrypted
  <2>5. Coded(v, e, t, c, Codes) /\ Len(t) = Len(cs)
    BY <2>a, <2>b
  <2>6. Coded(v, e, x, b, Codes) /\ Len(x) = n + Len(cs) /\ x \in Seq(LinkChars)
    BY <1>5, <2>2, <2>5
  <2>7. h \in Nat /\ b + Len(x) = 12 + h
    BY <1>3, <1>4, <2>2, <2>4, <2>6
  <2>8. /\ u \in Outs /\ u.mode = w.mode /\ u.zout = w.zout /\ u.zbuf = w.zbuf /\ u.sent = w.sent
        /\ u.wire = x /\ u.kout = h
    BY <2>3, <2>6, <2>7 DEF Outs
  <2> QED BY <1>a, <1>2, <1>6, <2>6, <2>7, <2>8 DEF Longer
<1>7. CASE "rc4" \notin w.mode
  <2>a. w.kout = 0 /\ (Keyed(v) => c + Len(cs) <= 12)
    BY <1>a, <1>b, <1>2, <1>7 DEF Comes
  <2>1. Coded(v, e, cs, c, Codes)
    BY <1>3, <2>a, CodedModes DEF Codes
  <2>2. PICK x : x = a \o cs
    OBVIOUS
  <2>3. Coded(v, e, x, b, Codes) /\ Len(x) = n + Len(cs) /\ x \in Seq(LinkChars)
    BY <1>5, <2>1, <2>2
  <2>4. u = [w EXCEPT !.wire = x]
    BY <1>a, <1>7, <2>2, Zenon DEF deliver
  <2>5. /\ u \in Outs /\ u.mode = w.mode /\ u.zout = w.zout /\ u.zbuf = w.zbuf /\ u.sent = w.sent
        /\ u.wire = x /\ u.kout = w.kout
    BY <2>3, <2>4 DEF Outs
  <2> QED BY <1>a, <1>2, <1>7, <2>a, <2>3, <2>5 DEF Longer
<1> QED BY <1>6, <1>7

\* What is held back comes next on the wire.
Held(v, e, w, b) ==
  /\ Coded(v, e, w.wire, b, Codes) /\ Coded(v, e, w.zbuf, b + Len(w.wire), {})
  /\ Zips(v, e) /\ b + Len(w.wire) = ZBase(v) + w.zout
  /\ "rc4" \in w.mode => Keyed(v) /\ b + Len(w.wire) = 12 + w.kout
  /\ "rc4" \notin w.mode => w.kout = 0 /\ (Keyed(v) => b + Len(w.wire) + Len(w.zbuf) <= 12)

\* u is w with all that was held back on the wire.
Emptied(v, e, w, b, u) ==
  /\ u \in Outs /\ u.mode = w.mode /\ Len(u.zbuf) = 0 /\ u.sent = w.sent
  /\ Coded(v, e, u.wire, b, Codes) /\ Len(u.wire) = Len(w.wire) + Len(w.zbuf)
  /\ Coded(v, e, u.zbuf, b + Len(u.wire), {})
  /\ "rc4" \in w.mode => b + Len(u.wire) = 12 + u.kout
  /\ "rc4" \notin w.mode => u.kout = 0
  /\ b + Len(u.wire) = ZBase(v) + u.zout

\* deflated gives up what was held back.
LEMMA Deflated ==
  ASSUME NEW v, NEW e, NEW b \in Nat, NEW w \in Outs, Held(v, e, w, b), NEW u, u = deflated(w)
  PROVE  Emptied(v, e, w, b, u)
<1>1. /\ w.kout \in Nat /\ w.zout \in Nat /\ w.zbuf \in Seq(LinkChars)
      /\ w.wire \in Seq(LinkChars) /\ Len(w.wire) \in Nat /\ Len(w.zbuf) \in Nat
  BY OutFields
<1>a. PICK g \in Seq(LinkChars), k \in Nat : g = w.zbuf /\ k = w.zout
  BY <1>1
<1>b. PICK z0 \in Nat : z0 = ZBase(v)
  BY DEF ZBase
<1>c. PICK n \in Nat : n = Len(g)
  BY <1>1, <1>a
<1>2. g = w.zbuf /\ n = Len(g) /\ k = w.zout /\ z0 = ZBase(v)
  BY <1>a, <1>b, <1>c
<1>d. PICK l \in Nat, c \in Nat : l = Len(w.wire) /\ c = b + l
  BY <1>1
<1>3. c \in Nat /\ c = z0 + k /\ Coded(v, e, g, c, {}) /\ Zips(v, e)
  BY <1>2, <1>d DEF Held
<1>4. PICK t : t = [i \in 1 .. Len(g) |-> [g[i] EXCEPT !.zip = k + i]]
  OBVIOUS
<1>5. Coded(v, e, t, c, {"zip"}) /\ Len(t) = n
  <2>1. c = ZBase(v) + k
    BY <1>2, <1>3
  <2> QED BY <1>2, <1>3, <1>4, <2>1, Compressed, SMTT(30)
<1>6. PICK z, y : z = << >> /\ y = k + n
  OBVIOUS
<1>7. z \in Seq(LinkChars) /\ Len(z) = 0 /\ y \in Nat
  BY <1>6
<1>8. PICK x : x = [w EXCEPT !.zbuf = z, !.zout = y]
  OBVIOUS
<1>9. u = deliver(x, t)
  BY <1>2, <1>4, <1>6, <1>8, Zenon DEF deflated
<1>10. /\ x \in Outs /\ x.mode = w.mode /\ x.kout = w.kout /\ x.wire = w.wire /\ x.sent = w.sent
       /\ x.zbuf = z /\ x.zout = y
  BY <1>7, <1>8 DEF Outs
<1>11. Comes(v, e, x, b, t)
  BY <1>2, <1>5, <1>10, <1>d DEF Held, Comes
<1>12. /\ u \in Outs /\ u.mode = x.mode /\ u.zout = x.zout /\ u.zbuf = x.zbuf /\ u.sent = x.sent
       /\ Coded(v, e, u.wire, b, Codes) /\ Len(u.wire) = Len(x.wire) + Len(t)
       /\ "rc4" \in x.mode => b + Len(u.wire) = 12 + u.kout
       /\ "rc4" \notin x.mode => u.kout = 0
  <2>1. Longer(v, e, x, b, t, u)
    BY <1>9, <1>10, <1>11, Delivered
  <2> QED BY <2>1, Zenon DEF Longer
<1>13. Coded(v, e, u.zbuf, b + Len(u.wire), {})
  BY <1>6, <1>10, <1>12, CodedNone
<1>14. b + Len(u.wire) = ZBase(v) + u.zout
  <2>1. Len(u.wire) = Len(w.wire) + n /\ u.zout = k + n
    BY <1>5, <1>6, <1>10, <1>12
  <2>2. b + l = z0 + k
    BY <1>3, <1>d
  <2>3. b + (l + n) = z0 + (k + n)
    BY <2>2, Shift
  <2> QED BY <1>2, <1>d, <2>1, <2>3, Zenon
<1> QED BY <1>2, <1>5, <1>7, <1>10, <1>12, <1>13, <1>14 DEF Emptied

\* Nothing is a piece of the stream anywhere.
LEMMA CodedEmpty ==
  ASSUME NEW v, NEW e, NEW b, NEW M, NEW s \in Seq(LinkChars), Len(s) = 0
  PROVE  Coded(v, e, s, b, M)
BY DEF Coded

\* Compression begins after the line that follows the negotiation.
LEMMA ZBaseIs ==
  ASSUME NEW v
  PROVE  /\ ZBase(v) \in Nat /\ ZBase(v) = 2 * (Agreed(v) + 1) /\ Agreed(v) \in Nat
         /\ Keyed(v) => Agreed(v) = 7
         /\ ~ Keyed(v) => Agreed(v) = 2
BY DEF ZBase, Agreed

\* The list of lines sent, one longer.
LEMMA LinesAppend ==
  ASSUME NEW v, NEW e, NEW s \in Seq(Lines), \A i \in 1 .. Len(s) : s[i] = Line(v, e, i),
         NEW l, l = Line(v, e, Len(s) + 1), NEW x, x = Append(s, l)
  PROVE  /\ x \in Seq(Lines) /\ Len(x) = Len(s) + 1
         /\ \A i \in 1 .. Len(x) : x[i] = Line(v, e, i)
<1>1. l \in Lines /\ Len(s) \in Nat
  BY LineType
<1>2. /\ x \in Seq(Lines) /\ Len(x) = Len(s) + 1 /\ x[Len(x)] = l
      /\ \A i \in 1 .. Len(s) : x[i] = s[i]
  BY <1>1, AppendSpec
<1>3. ASSUME NEW i \in 1 .. Len(x) PROVE x[i] = Line(v, e, i)
  <2>1. CASE i = Len(x)
    BY <1>2, <2>1
  <2>2. CASE i # Len(x)
    <3>1. i \in 1 .. Len(s)
      BY <1>1, <1>2, <2>2
    <3> QED BY <1>2, <3>1
  <2> QED BY <2>1, <2>2
<1> QED BY <1>2, <1>3

\* The next line is sent in the form that the other end expects.
Formed(v, e, w) == /\ "rc4" \notin w.mode => (Keyed(v) => Len(w.sent) < 6)
                   /\ "zip" \notin w.mode => (Zips(v, e) => 2 * Len(w.sent) < ZBase(v))
\* u is w with one line more.
Wrote(v, e, w, b, u) == u \in Outs /\ Writes(v, e, u, b) /\ u.mode = w.mode /\ Len(u.sent) = Len(w.sent) + 1

\* Writing the next line keeps all that is written a piece of the stream, whether
\* it is held back to be compressed, encrypted or neither.
LEMMA Written ==
  ASSUME NEW v, NEW e, NEW b \in Nat, NEW w \in Outs, Writes(v, e, w, b), Formed(v, e, w),
         NEW l, l = Line(v, e, Len(w.sent) + 1), NEW u, u = written(w, l)
  PROVE  Wrote(v, e, w, b, u)
<1>1. /\ w.mode \in SUBSET Codes /\ w.kout \in Nat /\ w.zout \in Nat /\ w.zbuf \in Seq(LinkChars)
      /\ w.wire \in Seq(LinkChars) /\ w.sent \in Seq(Lines)
      /\ Len(w.wire) \in Nat /\ Len(w.zbuf) \in Nat /\ Len(w.sent) \in Nat
  BY OutFields
<1>2. PICK m \in Nat, p \in Nat, q \in Nat : m = Len(w.sent) /\ p = Len(w.wire) /\ q = Len(w.zbuf)
  BY <1>1
<1>3. PICK x : x = Append(w.sent, l)
  OBVIOUS
<1>4. x \in Seq(Lines) /\ Len(x) = m + 1 /\ \A i \in 1 .. Len(x) : x[i] = Line(v, e, i)
  <2>1. \A i \in 1 .. Len(w.sent) : w.sent[i] = Line(v, e, i)
    BY DEF Writes
  <2> QED BY <1>1, <1>2, <1>3, <2>1, LinesAppend, SMTT(30)
<1>5. PICK cs : cs = Chars(l)
  OBVIOUS
<1>6. Coded(v, e, cs, 2 * m, {})
  BY <1>2, <1>5, CharsCoded
<1>7. Len(cs) = 2
  BY <1>2, <1>5, CharsCoded
<1>8. PICK t : t = [w EXCEPT !.sent = x]
  OBVIOUS
<1>9. /\ t \in Outs /\ t.mode = w.mode /\ t.kout = w.kout /\ t.zout = w.zout /\ t.zbuf = w.zbuf
      /\ t.wire = w.wire /\ t.sent = x
  BY <1>4, <1>8 DEF Outs
<1>10. /\ b + p + q = 2 * m /\ Coded(v, e, w.wire, b, Codes) /\ Coded(v, e, w.zbuf, b + p, {})
  BY <1>2 DEF Writes
<1>11. /\ "rc4" \in w.mode => Keyed(v) /\ b + p = 12 + w.kout
       /\ "rc4" \notin w.mode => w.kout = 0 /\ (Keyed(v) => m + 1 <= 6)
  BY <1>2 DEF Writes, Formed
<1>12. CASE "zip" \in w.mode
  <2>1. PICK g : g = w.zbuf \o cs
    OBVIOUS
  <2>2. Coded(v, e, g, b + p, {})
    <3>1. PICK c \in Nat, d \in Nat : c = b + p /\ d = 2 * m
      OBVIOUS
    <3>2. d = c + Len(w.zbuf)
      BY <1>2, <1>10, <3>1
    <3>3. Coded(v, e, w.zbuf, c, {}) /\ Coded(v, e, cs, d, {})
      BY <1>6, <1>10, <3>1
    <3>4. Coded(v, e, g, c, {})
      BY <2>1, <3>2, <3>3, CodedJoin
    <3> QED BY <3>1, <3>4
  <2>3. g \in Seq(LinkChars) /\ Len(g) = q + 2
    <3>1. cs \in Seq(LinkChars)
      BY <1>6 DEF Coded
    <3>2. Len(g) = Len(w.zbuf) + Len(cs) /\ g \in Seq(LinkChars)
      BY <1>1, <2>1, <3>1, Concats
    <3> QED BY <1>2, <1>7, <3>2
  <2>4. PICK h : h = [t EXCEPT !.zbuf = g]
    OBVIOUS
  <2>5. /\ h \in Outs /\ h.mode = w.mode /\ h.kout = w.kout /\ h.zout = w.zout /\ h.zbuf = g
        /\ h.wire = w.wire /\ h.sent = x
    BY <1>9, <2>3, <2>4 DEF Outs
  <2>6. u = IF Len(h.zbuf) < ZipMax - LineRoom THEN h ELSE deflated(h)
    <3>1. u = zip_output(t, cs)
      BY <1>3, <1>5, <1>8, <1>12, Zenon DEF written
    <3>2. h = [t EXCEPT !.zbuf = t.zbuf \o cs]
      BY <1>9, <2>1, <2>4, Zenon
    <3> QED BY <3>1, <3>2, Zenon DEF zip_output
  <2>7. Zips(v, e) /\ b + p = ZBase(v) + w.zout
    BY <1>2, <1>12 DEF Writes
  <2>8. b + p + (q + 2) = 2 * (m + 1)
    BY <1>10, SMTT(30)
  <2>9. CASE Len(g) < ZipMax - LineRoom
    <3>1. u = h
      BY <2>5, <2>6, <2>9
    <3>2. Writes(v, e, h, b)
      BY <1>2, <1>4, <1>10, <1>11, <1>12, <2>2, <2>3, <2>5, <2>7, <2>8, <2>9 DEF Writes
    <3> QED BY <1>2, <1>4, <2>5, <3>1, <3>2 DEF Wrote
  <2>10. CASE ~ (Len(g) < ZipMax - LineRoom)
    <3>1. u = deflated(h)
      BY <2>5, <2>6, <2>10
    <3>2. Held(v, e, h, b)
      <4>1. "rc4" \notin w.mode => w.kout = 0 /\ (Keyed(v) => b + p + (q + 2) <= 12)
        BY <1>11, <2>8
      <4> QED BY <1>2, <1>10, <1>11, <2>2, <2>3, <2>5, <2>7, <4>1 DEF Held
    <3>3. Emptied(v, e, h, b, u)
      BY <2>5, <3>1, <3>2, Deflated
    <3>4. /\ u \in Outs /\ u.mode = h.mode /\ Len(u.zbuf) = 0 /\ u.sent = h.sent
          /\ Coded(v, e, u.wire, b, Codes) /\ Len(u.wire) = Len(h.wire) + Len(h.zbuf)
          /\ Coded(v, e, u.zbuf, b + Len(u.wire), {})
          /\ "rc4" \in h.mode => b + Len(u.wire) = 12 + u.kout
          /\ "rc4" \notin h.mode => u.kout = 0
          /\ b + Len(u.wire) = ZBase(v) + u.zout
      BY <3>3, Zenon DEF Emptied
    <3>5. Len(u.wire) = p + (q + 2)
      BY <1>2, <2>3, <2>5, <3>4
    <3>6. b + Len(u.wire) + Len(u.zbuf) = 2 * Len(u.sent)
      <4>1. b + (p + (q + 2)) + 0 = 2 * (m + 1)
      BY <2>8
    <4>2. Len(u.zbuf) = 0 /\ Len(u.sent) = m + 1
      BY <1>4, <2>5, <3>4
    <4> QED BY <3>5, <4>1, <4>2, Zenon
    <3>7. Writes(v, e, u, b)
      BY <1>4, <1>11, <1>12, <2>5, <2>7, <3>4, <3>6 DEF Writes
    <3> QED BY <1>2, <1>4, <2>5, <3>4, <3>7 DEF Wrote
  <2> QED BY <2>9, <2>10
<1>13. CASE "zip" \notin w.mode
  <2>1. q = 0 /\ w.zout = 0 /\ (Zips(v, e) => 2 * m + 2 <= ZBase(v))
    <3>1. q = 0 /\ w.zout = 0 /\ (Zips(v, e) => 2 * m < ZBase(v))
      BY <1>2, <1>13 DEF Writes, Formed
    <3> QED BY <3>1, ZBaseIs
  <2>2. u = deliver(t, cs)
    BY <1>3, <1>5, <1>8, <1>13, Zenon DEF written
  <2>3. PICK d \in Nat : d = 2 * m
    OBVIOUS
  <2>4. d = b + p /\ Coded(v, e, cs, d, {})
    BY <1>6, <1>10, <2>1, <2>3
  <2>5. Coded(v, e, cs, d, {"zip"})
    <3>1. Zips(v, e) => d + Len(cs) <= ZBase(v)
      BY <1>7, <2>1, <2>3
    <3> QED BY <2>4, <3>1, CodedModes
  <2>6. Comes(v, e, t, b, cs)
    <3>1. "rc4" \notin w.mode => w.kout = 0 /\ (Keyed(v) => b + p + 2 <= 12)
      BY <1>11, <2>3, <2>4
    <3> QED BY <1>2, <1>7, <1>9, <1>10, <1>11, <2>4, <2>5, <3>1 DEF Comes
  <2>7. Longer(v, e, t, b, cs, u)
    BY <1>9, <2>2, <2>6, Delivered
  <2>8. /\ u \in Outs /\ u.mode = t.mode /\ u.zout = t.zout /\ u.zbuf = t.zbuf /\ u.sent = t.sent
        /\ Coded(v, e, u.wire, b, Codes) /\ Len(u.wire) = Len(t.wire) + Len(cs)
        /\ "rc4" \in t.mode => b + Len(u.wire) = 12 + u.kout
        /\ "rc4" \notin t.mode => u.kout = 0
    BY <2>7, Zenon DEF Longer
  <2>9. Len(u.wire) = p + 2 /\ Len(u.zbuf) = 0 /\ u.zbuf \in Seq(LinkChars)
    BY <1>1, <1>2, <1>7, <1>9, <2>1, <2>8
  <2>10. Coded(v, e, u.zbuf, b + Len(u.wire), {})
    BY <2>9, CodedEmpty
  <2>11. b + Len(u.wire) + Len(u.zbuf) = 2 * (m + 1)
    <3>1. b + (p + 2) + 0 = 2 * (m + 1)
      BY <2>3, <2>4
    <3> QED BY <2>9, <3>1, Zenon
  <2>12. Zips(v, e) => 2 * (m + 1) <= ZBase(v)
    BY <2>1, ZBaseIs
  <2>13. u.sent = x /\ u.mode = w.mode /\ u.zout = 0 /\ Len(u.sent) = m + 1
    BY <1>4, <1>9, <2>1, <2>8
  <2>14. Writes(v, e, u, b)
    BY <1>4, <1>9, <1>11, <1>13, <2>8, <2>9, <2>10, <2>11, <2>12, <2>13 DEF Writes
  <2> QED BY <1>2, <2>8, <2>13, <2>14 DEF Wrote
<1> QED BY <1>12, <1>13

\* What is held back is forced out.
Flushed(v, e, w, b, u) == u \in Outs /\ Writes(v, e, u, b) /\ u.sent = w.sent /\ u.mode = w.mode

\* So does forcing out what zip_output holds back.
LEMMA WroteOut ==
  ASSUME NEW v, NEW e, NEW b \in Nat, NEW w \in Outs, Writes(v, e, w, b), "zip" \in w.mode,
         NEW u, u = deflated(w)
  PROVE  Flushed(v, e, w, b, u)
<1>1. /\ Len(w.wire) \in Nat /\ Len(w.zbuf) \in Nat /\ Len(w.sent) \in Nat
  BY OutFields
<1>2. PICK m \in Nat, p \in Nat, q \in Nat : m = Len(w.sent) /\ p = Len(w.wire) /\ q = Len(w.zbuf)
  BY <1>1
<1>3. b + p + q = 2 * m /\ Zips(v, e) /\ b + p = ZBase(v) + w.zout
  BY <1>2 DEF Writes
<1>4. Held(v, e, w, b)
  <2>1. m <= 6 => b + p + q <= 12
    BY <1>3
  <2>2. "rc4" \notin w.mode => w.kout = 0 /\ (Keyed(v) => m <= 6)
    BY <1>2 DEF Writes
  <2>3. "rc4" \in w.mode => Keyed(v) /\ b + Len(w.wire) = 12 + w.kout
    BY DEF Writes
  <2>4. Coded(v, e, w.wire, b, Codes) /\ Coded(v, e, w.zbuf, b + Len(w.wire), {})
    BY DEF Writes
  <2> QED BY <1>2, <1>3, <2>1, <2>2, <2>3, <2>4, Zenon DEF Held
<1>5. Emptied(v, e, w, b, u)
  BY <1>4, Deflated
<1>6. /\ u \in Outs /\ u.mode = w.mode /\ Len(u.zbuf) = 0 /\ u.sent = w.sent
      /\ Coded(v, e, u.wire, b, Codes) /\ Len(u.wire) = Len(w.wire) + Len(w.zbuf)
      /\ Coded(v, e, u.zbuf, b + Len(u.wire), {})
      /\ "rc4" \in w.mode => b + Len(u.wire) = 12 + u.kout
      /\ "rc4" \notin w.mode => u.kout = 0
      /\ b + Len(u.wire) = ZBase(v) + u.zout
  BY <1>5, Zenon DEF Emptied
<1>7. b + Len(u.wire) + Len(u.zbuf) = 2 * Len(u.sent)
  <2>1. b + (p + q) + 0 = 2 * m
    BY <1>3
  <2>2. Len(u.wire) = p + q /\ Len(u.zbuf) = 0 /\ Len(u.sent) = m
    BY <1>2, <1>6
  <2> QED BY <2>1, <2>2, Zenon
<1>8. /\ "rc4" \in w.mode => Keyed(v)
      /\ "rc4" \notin w.mode => (Keyed(v) => Len(w.sent) <= 6)
      /\ \A i \in 1 .. Len(w.sent) : w.sent[i] = Line(v, e, i)
  BY DEF Writes
<1>9. Writes(v, e, u, b)
  BY <1>3, <1>6, <1>7, <1>8 DEF Writes
<1> QED BY <1>6, <1>9 DEF Flushed

\* The writer begins to encrypt.
LEMMA WritesKeyed ==
  ASSUME NEW v, NEW e, NEW b \in Nat, NEW w \in Outs, Writes(v, e, w, b), "rc4" \notin w.mode,
         "zip" \notin w.mode, Keyed(v), Len(w.sent) = 6, NEW u, u = out_mode(w, "rc4")
  PROVE  u \in Outs /\ Writes(v, e, u, b) /\ u.sent = w.sent /\ u.mode = w.mode \cup {"rc4"}
<1>1. /\ w.mode \in SUBSET Codes /\ Len(w.wire) \in Nat /\ Len(w.zbuf) \in Nat /\ Len(w.sent) \in Nat
  BY OutFields
<1>2. PICK N : N = w.mode \cup {"rc4"}
  OBVIOUS
<1>3. N \in SUBSET Codes /\ "rc4" \in N /\ "zip" \notin N
  BY <1>1, <1>2 DEF Codes
<1>4. u = [w EXCEPT !.mode = N]
  BY <1>2 DEF out_mode
<1>5. /\ u \in Outs /\ u.mode = N /\ u.kout = w.kout /\ u.zout = w.zout /\ u.zbuf = w.zbuf
      /\ u.wire = w.wire /\ u.sent = w.sent
  BY <1>3, <1>4 DEF Outs
<1>6. /\ b + Len(w.wire) + Len(w.zbuf) = 2 * Len(w.sent) /\ w.kout = 0 /\ Len(w.zbuf) = 0
      /\ Coded(v, e, w.wire, b, Codes)
      /\ Coded(v, e, w.zbuf, b + Len(w.wire), {}) /\ w.zout = 0
      /\ Zips(v, e) => 2 * Len(w.sent) <= ZBase(v)
      /\ \A i \in 1 .. Len(w.sent) : w.sent[i] = Line(v, e, i)
  BY DEF Writes
<1>7. b + Len(w.wire) = 12 + w.kout
  BY <1>1, <1>6
<1>8. Writes(v, e, u, b)
  BY <1>3, <1>5, <1>6, <1>7 DEF Writes
<1> QED BY <1>2, <1>5, <1>8

\* The writer begins to compress.
LEMMA WritesZipped ==
  ASSUME NEW v, NEW e, NEW b \in Nat, NEW w \in Outs, Writes(v, e, w, b),
         "zip" \notin w.mode, Zips(v, e), 2 * Len(w.sent) = ZBase(v), NEW u, u = out_mode(w, "zip")
  PROVE  u \in Outs /\ Writes(v, e, u, b) /\ u.sent = w.sent /\ u.mode = w.mode \cup {"zip"}
<1>1. /\ w.mode \in SUBSET Codes /\ Len(w.wire) \in Nat /\ Len(w.zbuf) \in Nat /\ Len(w.sent) \in Nat
  BY OutFields
<1>2. PICK N : N = w.mode \cup {"zip"}
  OBVIOUS
<1>3. N \in SUBSET Codes /\ "zip" \in N /\ ("rc4" \in N <=> "rc4" \in w.mode)
  BY <1>1, <1>2 DEF Codes
<1>4. u = [w EXCEPT !.mode = N]
  BY <1>2 DEF out_mode
<1>5. /\ u \in Outs /\ u.mode = N /\ u.kout = w.kout /\ u.zout = w.zout /\ u.zbuf = w.zbuf
      /\ u.wire = w.wire /\ u.sent = w.sent
  BY <1>3, <1>4 DEF Outs
<1>6. /\ b + Len(w.wire) + Len(w.zbuf) = 2 * Len(w.sent) /\ w.zout = 0 /\ Len(w.zbuf) = 0
      /\ Coded(v, e, w.wire, b, Codes)
      /\ Coded(v, e, w.zbuf, b + Len(w.wire), {})
      /\ "rc4" \in w.mode => Keyed(v) /\ b + Len(w.wire) = 12 + w.kout
      /\ "rc4" \notin w.mode => w.kout = 0 /\ (Keyed(v) => Len(w.sent) <= 6)
      /\ \A i \in 1 .. Len(w.sent) : w.sent[i] = Line(v, e, i)
  BY DEF Writes
<1>7. b + Len(w.wire) = ZBase(v) + w.zout
  <2>1. PICK z \in Nat : z = ZBase(v)
    BY ZBaseIs
  <2>2. b + Len(w.wire) = z + 0
    BY <1>1, <1>6, <2>1
  <2> QED BY <1>6, <2>1, <2>2
<1>8. Writes(v, e, u, b)
  BY <1>3, <1>5, <1>6, <1>7 DEF Writes
<1> QED BY <1>2, <1>5, <1>8

\* The other end has read k more characters.
LEMMA WritesTaken ==
  ASSUME NEW v, NEW e, NEW b \in Nat, NEW w \in Outs, Writes(v, e, w, b), NEW k \in 0 .. Len(w.wire),
         NEW u, u = taken(w, k), NEW c, c = b + k
  PROVE  Writes(v, e, u, c)
<1>1. w.wire \in Seq(LinkChars) /\ Len(w.wire) \in Nat /\ Len(w.zbuf) \in Nat /\ Len(w.sent) \in Nat
  BY OutFields
<1>2. PICK x : x = SubSeq(w.wire, k + 1, Len(w.wire))
  OBVIOUS
<1>3. x \in Seq(LinkChars) /\ Len(x) = Len(w.wire) - k
  BY <1>1, <1>2, AfterFront
<1>4. Coded(v, e, w.wire, b, Codes)
  BY DEF Writes
<1>5. k \in Nat /\ c \in Nat /\ c = b + k
  BY <1>1
<1>a. Coded(v, e, x, c, Codes)
  BY <1>2, <1>4, <1>5, CodedBack
<1>6. u = [w EXCEPT !.wire = x]
  BY <1>2 DEF taken
<1>7. /\ u \in Outs /\ u.mode = w.mode /\ u.kout = w.kout /\ u.zout = w.zout /\ u.zbuf = w.zbuf
      /\ u.wire = x /\ u.sent = w.sent
  BY <1>3, <1>6 DEF Outs
<1>8. c + Len(x) = b + Len(w.wire)
  <2>1. PICK l \in Nat : l = Len(w.wire)
    BY <1>1
  <2>2. k \in Nat
    BY <1>1
  <2>3. c + (l - k) = b + l
    BY <1>5, <2>2
  <2> QED BY <1>3, <2>1, <2>3
<1>b. /\ b + Len(w.wire) + Len(w.zbuf) = 2 * Len(w.sent)
      /\ Coded(v, e, w.zbuf, b + Len(w.wire), {})
      /\ "rc4" \in w.mode => Keyed(v) /\ b + Len(w.wire) = 12 + w.kout
      /\ "rc4" \notin w.mode => w.kout = 0 /\ (Keyed(v) => Len(w.sent) <= 6)
      /\ "zip" \in w.mode => Zips(v, e) /\ b + Len(w.wire) = ZBase(v) + w.zout
      /\ "zip" \notin w.mode => /\ w.zout = 0 /\ Len(w.zbuf) = 0
                                /\ Zips(v, e) => 2 * Len(w.sent) <= ZBase(v)
      /\ Len(w.zbuf) = 0 \/ Len(w.zbuf) < ZipMax - LineRoom
      /\ \A i \in 1 .. Len(w.sent) : w.sent[i] = Line(v, e, i)
  BY Zenon DEF Writes
<1> QED BY <1>a, <1>b, <1>7, <1>8, Zenon DEF Writes

\* The fields of what an end knows.
LEMMA EndFields ==
  ASSUME NEW s \in Ends
  PROVE  /\ s.st \in LinkStates /\ s.flags \in SUBSET LinkFlags /\ s.got \in SUBSET {"I", "O"}
         /\ s.w \in Outs /\ s.r \in Ins
BY DEF Ends

\* t is s after one more line, of which the other end has read b characters.
Sent(v, e, s, b, t) ==
  /\ t \in Ends /\ t.st = s.st /\ t.flags = s.flags /\ t.got = s.got /\ t.r = s.r
  /\ Wrote(v, e, s.w, b, t.w)

\* send_message of the next line changes only what is written.
LEMMA Sends ==
  ASSUME NEW v, NEW e, NEW b \in Nat, NEW s \in Ends, Writes(v, e, s.w, b), Formed(v, e, s.w),
         NEW l, l = Line(v, e, Len(s.w.sent) + 1), NEW t, t = send_message(s, l)
  PROVE  Sent(v, e, s, b, t)
<1>1. s.w \in Outs
  BY EndFields
<1>2. PICK u : u = written(s.w, l)
  OBVIOUS
<1>3. Wrote(v, e, s.w, b, u)
  BY <1>1, <1>2, Written
<1>4. u \in Outs
  BY <1>3 DEF Wrote
<1>5. t = [s EXCEPT !.w = u]
  BY <1>2 DEF send_message
<1>6. /\ t \in Ends /\ t.st = s.st /\ t.flags = s.flags /\ t.got = s.got /\ t.r = s.r /\ t.w = u
  BY <1>4, <1>5 DEF Ends
<1> QED BY <1>3, <1>6 DEF Sent

\* The end e has sent m lines, in the form F.
Stands(v, e, s, b, m, F) == s \in Ends /\ Writes(v, e, s.w, b) /\ Len(s.w.sent) = m /\ s.w.mode = F

\* t is as s in all but what is written.
Same(s, t) == t.st = s.st /\ t.flags = s.flags /\ t.got = s.got /\ t.r = s.r

\* The next line may be sent in the form F.
Fits(v, e, m, F) == /\ "rc4" \in F \/ ~ Keyed(v) \/ m < 6
                    /\ "zip" \in F \/ ~ Zips(v, e) \/ m <= Agreed(v)

\* The same, with the number of lines and the form of the writing.
LEMMA Sending ==
  ASSUME NEW v, NEW e, NEW b \in Nat, NEW s, NEW m \in Nat, NEW F, Stands(v, e, s, b, m, F), Fits(v, e, m, F),
         NEW l, l = Line(v, e, m + 1), NEW t, t = send_message(s, l), NEW k, k = m + 1
  PROVE  Stands(v, e, t, b, k, F) /\ Same(s, t)
<1>1. s \in Ends /\ Writes(v, e, s.w, b) /\ Len(s.w.sent) = m /\ s.w.mode = F
  BY DEF Stands
<1>2. Agreed(v) \in Nat /\ ZBase(v) = 2 * (Agreed(v) + 1)
  BY ZBaseIs
<1>3. m <= Agreed(v) => 2 * m < ZBase(v)
  BY <1>2
<1>4. Formed(v, e, s.w)
  BY <1>1, <1>3, Zenon DEF Formed, Fits
<1>5. Sent(v, e, s, b, t)
  BY <1>1, <1>4, Sends
<1>6. Wrote(v, e, s.w, b, t.w) /\ t \in Ends /\ t.st = s.st /\ t.flags = s.flags /\ t.got = s.got /\ t.r = s.r
  BY <1>5 DEF Sent
<1>7. Writes(v, e, t.w, b) /\ t.w.mode = s.w.mode /\ Len(t.w.sent) = Len(s.w.sent) + 1
  BY <1>6 DEF Wrote
<1> QED BY <1>1, <1>6, <1>7, Zenon DEF Stands, Same

\* The other fields of an end do not matter to what it writes.
LEMMA StandsAlike ==
  ASSUME NEW v, NEW e, NEW b, NEW s, NEW m, NEW F, Stands(v, e, s, b, m, F), NEW t \in Ends, t.w = s.w
  PROVE  Stands(v, e, t, b, m, F)
BY DEF Stands

\* After DKEY DONE the end encrypts.
LEMMA StandsKeyed ==
  ASSUME NEW v, NEW e, NEW b \in Nat, NEW s, Stands(v, e, s, b, 6, {}), Keyed(v),
         NEW t, t = [s EXCEPT !.w = out_mode(@, "rc4")]
  PROVE  Stands(v, e, t, b, 6, {"rc4"}) /\ Same(s, t)
<1>1. s \in Ends /\ Writes(v, e, s.w, b) /\ Len(s.w.sent) = 6 /\ s.w.mode = {}
  BY DEF Stands
<1>2. s.w \in Outs
  BY <1>1, EndFields
<1>3. PICK u : u = out_mode(s.w, "rc4")
  OBVIOUS
<1>4. u \in Outs /\ Writes(v, e, u, b) /\ u.sent = s.w.sent /\ u.mode = s.w.mode \cup {"rc4"}
  BY <1>1, <1>2, <1>3, WritesKeyed
<1>5. t = [s EXCEPT !.w = u]
  BY <1>3
<1>6. t \in Ends /\ t.w = u /\ t.st = s.st /\ t.flags = s.flags /\ t.got = s.got /\ t.r = s.r
  BY <1>1, <1>4, <1>5 DEF Ends
<1>7. u.mode = {"rc4"}
  BY <1>1, <1>4
<1> QED BY <1>1, <1>4, <1>6, <1>7, Zenon DEF Stands, Same

\* After SVINFO ZIP the end compresses.
LEMMA StandsZipped ==
  ASSUME NEW v, NEW e, NEW b \in Nat, NEW s, NEW m \in Nat, NEW F, Stands(v, e, s, b, m, F), m = Agreed(v) + 1,
         "zip" \notin F, Zips(v, e), NEW t, t = [s EXCEPT !.w = out_mode(@, "zip")]
  PROVE  Stands(v, e, t, b, m, F \cup {"zip"}) /\ Same(s, t)
<1>1. s \in Ends /\ Writes(v, e, s.w, b) /\ Len(s.w.sent) = m /\ s.w.mode = F
  BY DEF Stands
<1>2. s.w \in Outs
  BY <1>1, EndFields
<1>3. PICK u : u = out_mode(s.w, "zip")
  OBVIOUS
<1>a. 2 * Len(s.w.sent) = ZBase(v)
  BY <1>1, ZBaseIs
<1>4. u \in Outs /\ Writes(v, e, u, b) /\ u.sent = s.w.sent /\ u.mode = s.w.mode \cup {"zip"}
  BY <1>1, <1>2, <1>3, <1>a, WritesZipped
<1>5. t = [s EXCEPT !.w = u]
  BY <1>3
<1>6. t \in Ends /\ t.w = u /\ t.st = s.st /\ t.flags = s.flags /\ t.got = s.got /\ t.r = s.r
  BY <1>1, <1>4, <1>5 DEF Ends
<1> QED BY <1>1, <1>4, <1>6, Zenon DEF Stands, Same

\* The form of what is sent follows from how much was sent.
LEMMA FormOf ==
  ASSUME NEW v, NEW e, NEW b \in Nat, NEW s, NEW m \in Nat, NEW F, Stands(v, e, s, b, m, F)
  PROVE  /\ F \in SUBSET Codes
         /\ "rc4" \in F => Keyed(v) /\ m >= 6
         /\ "rc4" \notin F => (Keyed(v) => m <= 6)
         /\ "zip" \in F => Zips(v, e) /\ m > Agreed(v)
         /\ "zip" \notin F => (Zips(v, e) => m <= Agreed(v) + 1)
<1>1. s \in Ends /\ Writes(v, e, s.w, b) /\ Len(s.w.sent) = m /\ s.w.mode = F
  BY DEF Stands
<1>2. s.w \in Outs
  BY <1>1, EndFields
<1>3. /\ s.w.mode \in SUBSET Codes /\ s.w.kout \in Nat /\ s.w.zout \in Nat
      /\ Len(s.w.wire) \in Nat /\ Len(s.w.zbuf) \in Nat
  BY <1>2, OutFields
<1>4. PICK k \in Nat, z \in Nat, p \in Nat, q \in Nat :
        k = s.w.kout /\ z = s.w.zout /\ p = Len(s.w.wire) /\ q = Len(s.w.zbuf)
  BY <1>3
<1>5. PICK a \in Nat : a = Agreed(v)
  BY ZBaseIs
<1>6. ZBase(v) = 2 * (a + 1)
  BY <1>5, ZBaseIs
<1>7. /\ b + p + q = 2 * m
      /\ "rc4" \in F => Keyed(v) /\ b + p = 12 + k
      /\ "rc4" \notin F => (Keyed(v) => m <= 6)
      /\ "zip" \in F => Zips(v, e) /\ b + p = 2 * (a + 1) + z
      /\ "zip" \notin F => (Zips(v, e) => 2 * m <= 2 * (a + 1))
  BY <1>1, <1>4, <1>6, Zenon DEF Writes
<1>8. b + p = 12 + k => m >= 6
  BY <1>7
<1>9. b + p = 2 * (a + 1) + z => m > a
  BY <1>7
<1>10. 2 * m <= 2 * (a + 1) => m <= a + 1
  OBVIOUS
<1> QED BY <1>1, <1>3, <1>5, <1>7, <1>8, <1>9, <1>10, Zenon

\* The line before compression.
LEMMA ZipLine ==
  ASSUME NEW v, NEW e, Zips(v, e), NEW i, i = Agreed(v) + 1 PROVE Line(v, e, i) = "SVINFO ZIP"
<1>1. CASE Keyed(v)
  BY <1>1 DEF Line, Agreed
<1>2. CASE ~ Keyed(v)
  BY <1>2 DEF Line, Agreed
<1> QED BY <1>1, <1>2

\* The line that ends the burst.
LEMMA PingLine ==
  ASSUME NEW v, NEW e PROVE Line(v, e, PingAt(v, e)) = "PING"
<1>1. CASE Keyed(v)
  BY <1>1 DEF Line, Agreed, PingAt
<1>2. CASE ~ Keyed(v)
  BY <1>2 DEF Line, Agreed, PingAt
<1> QED BY <1>1, <1>2

\* The lines of the negotiation.
LEMMA KeyLines ==
  ASSUME NEW v, NEW e, Keyed(v)
  PROVE  /\ Line(v, e, 2) = "SVINFO" /\ Line(v, e, 3) = "DKEY START" /\ Line(v, e, 4) = "DKEY PUB I"
         /\ Line(v, e, 5) = "DKEY PUB O" /\ Line(v, e, 6) = "DKEY DONE" /\ Line(v, e, 7) = "DKEY EXIT"
BY DEF Line

\* The first two lines.
LEMMA FirstLines ==
  ASSUME NEW v, NEW e PROVE Line(v, e, 1) = Greeting(v[e]) /\ Line(v, e, 2) = "SVINFO"
BY DEF Line

\* to_state changes the state alone.
LEMMA Stated ==
  ASSUME NEW s \in Ends, NEW x \in LinkStates, NEW t, t = to_state(s, x)
  PROVE  t \in Ends /\ t.st = x /\ t.flags = s.flags /\ t.got = s.got /\ t.w = s.w /\ t.r = s.r
BY DEF to_state, Ends

\* to_flags changes the flags alone.
LEMMA Flagged ==
  ASSUME NEW s \in Ends, NEW x \in SUBSET LinkFlags, NEW t, t = to_flags(s, x)
  PROVE  t \in Ends /\ t.st = s.st /\ t.flags = x /\ t.got = s.got /\ t.w = s.w /\ t.r = s.r
BY DEF to_flags, Ends

\* Noting a half of the key exchange changes dkey_flags alone.
LEMMA Gotten ==
  ASSUME NEW s \in Ends, NEW x \in SUBSET {"I", "O"}, NEW t, t = [s EXCEPT !.got = x]
  PROVE  t \in Ends /\ t.st = s.st /\ t.flags = s.flags /\ t.got = x /\ t.w = s.w /\ t.r = s.r
BY DEF Ends

\* The negotiation is over: the end has sent its PING.
Served(v, e, s, b, t) ==
  /\ t \in Ends /\ Writes(v, e, t.w, b) /\ t.st = "server" /\ t.r = s.r /\ Len(t.w.sent) = PingAt(v, e)

\* do_server_estab after the negotiation: SVINFO ZIP if the end compresses, and PING
\* in the new form.
LEMMA Estab ==
  ASSUME NEW v, NEW e, NEW b \in Nat, NEW s, NEW m \in Nat, NEW F, Stands(v, e, s, b, m, F), m = Agreed(v),
         "dozip" \in s.flags <=> Zips(v, e), Keyed(v) => "rc4" \in F, NEW t, t = do_server_estab(s)
  PROVE  Served(v, e, s, b, t)
<1>1. "zip" \notin F
  <2>1. "zip" \in F => m > Agreed(v)
    BY FormOf
  <2>2. ~ (m > Agreed(v))
    OBVIOUS
  <2> QED BY <2>1, <2>2
<1>2. Line(v, e, PingAt(v, e)) = "PING"
  BY PingLine
<1>3. CASE Zips(v, e)
  <2>1. PICK a, c : a = send_message(s, "SVINFO ZIP") /\ c = [a EXCEPT !.w = out_mode(@, "zip")]
    OBVIOUS
  <2>2. PICK k \in Nat : k = m + 1
    OBVIOUS
  <2>3. Line(v, e, m + 1) = "SVINFO ZIP"
    BY <1>3, ZipLine
  <2>4. Fits(v, e, m, F)
    BY DEF Fits
  <2>5. Stands(v, e, a, b, k, F) /\ Same(s, a)
    BY <2>1, <2>2, <2>3, <2>4, Sending
  <2>6. Stands(v, e, c, b, k, F \cup {"zip"}) /\ Same(a, c)
    BY <1>1, <1>3, <2>1, <2>2, <2>5, StandsZipped
  <2>7. c \in Ends
    BY <2>6 DEF Stands
  <2>8. PICK d : d = to_state(c, "server")
    OBVIOUS
  <2>9. d \in Ends /\ d.st = "server" /\ d.w = c.w /\ d.r = c.r
    <3>1. "server" \in LinkStates
      BY DEF LinkStates
    <3> QED BY <2>7, <2>8, <3>1, Stated
  <2>10. Stands(v, e, d, b, k, F \cup {"zip"})
    BY <2>6, <2>9, StandsAlike
  <2>11. t = send_message(d, "PING")
    BY <1>3, <2>1, <2>8, Zenon DEF do_server_estab, zip_starts
  <2>12. PICK h \in Nat : h = k + 1
    OBVIOUS
  <2>13. h = PingAt(v, e)
    BY <1>3, <2>2, <2>12, ZBaseIs DEF PingAt
  <2>14. Fits(v, e, k, F \cup {"zip"})
    <3>1. "zip" \in F \cup {"zip"} /\ ("rc4" \in F => "rc4" \in F \cup {"zip"})
      OBVIOUS
    <3> QED BY <3>1, Zenon DEF Fits
  <2>a. "PING" = Line(v, e, k + 1)
    BY <1>2, <2>12, <2>13
  <2>15. Stands(v, e, t, b, h, F \cup {"zip"}) /\ Same(d, t)
    BY <2>10, <2>11, <2>12, <2>14, <2>a, Sending
  <2>16. t.r = s.r
    BY <2>5, <2>6, <2>9, <2>15, Zenon DEF Same
  <2> QED BY <2>9, <2>13, <2>15, <2>16, Zenon DEF Served, Stands, Same
<1>4. CASE ~ Zips(v, e)
  <2>8. PICK d : d = to_state(s, "server")
    OBVIOUS
  <2>9. d \in Ends /\ d.st = "server" /\ d.w = s.w /\ d.r = s.r
    <3>1. "server" \in LinkStates /\ s \in Ends
      BY DEF LinkStates, Stands
    <3> QED BY <2>8, <3>1, Stated
  <2>10. Stands(v, e, d, b, m, F)
    BY <2>9, StandsAlike
  <2>11. t = send_message(d, "PING")
    BY <1>4, <2>8, Zenon DEF do_server_estab
  <2>12. PICK h \in Nat : h = m + 1
    OBVIOUS
  <2>13. h = PingAt(v, e)
    BY <1>4, <2>12, ZBaseIs DEF PingAt
  <2>14. Fits(v, e, m, F)
    BY <1>4, Zenon DEF Fits
  <2>a. "PING" = Line(v, e, m + 1)
    BY <1>2, <2>12, <2>13
  <2>15. Stands(v, e, t, b, h, F) /\ Same(d, t)
    BY <2>10, <2>11, <2>12, <2>14, <2>a, Sending
  <2> QED BY <2>9, <2>13, <2>15, Zenon DEF Served, Stands, Same
<1> QED BY <1>3, <1>4

\* What the capabilities of an end say.
LEMMA CapsIs ==
  ASSUME NEW v, NEW e
  PROVE  /\ Caps(v, e) \in SUBSET LinkFlags
         /\ "dkey" \in Caps(v, e) <=> "dkey" \in v[e]
         /\ "dozip" \in Caps(v, e) <=> Zips(v, e)
         /\ "dh" \notin Caps(v, e) /\ "keyed" \notin Caps(v, e)
BY DEF Caps, dokey, dozip, Zips, LinkFlags

\* A link is encrypted when either end and the other want it.
LEMMA KeyedIs ==
  ASSUME NEW v, NEW e \in Sides PROVE Keyed(v) <=> "dkey" \in v[e] /\ "dkey" \in v[Other(e)]
BY DEF Keyed, Sides, Other

\* parse finds the handler of a line.
LEMMA ParseServer ==
  ASSUME NEW s, NEW conn
  PROVE  /\ parse_at(s, conn, "SERVER") = server_estab(s, conn, "plain")
         /\ parse_at(s, conn, "SERVER DKEY") = server_estab(s, conn, "DKEY")
BY DEF parse_at, DkeyLines

\* The lines of the key exchange, while it goes on.
LEMMA ParseDkey ==
  ASSUME NEW s, NEW conn, s.st = "nego"
  PROVE  /\ parse_at(s, conn, "DKEY START") = dkey_start(s)
         /\ parse_at(s, conn, "DKEY PUB I") = dkey_pub(s, "I")
         /\ parse_at(s, conn, "DKEY PUB O") = dkey_pub(s, "O")
         /\ parse_at(s, conn, "DKEY DONE") = dkey_done(s)
         /\ parse_at(s, conn, "DKEY EXIT") = dkey_exit(s)
         /\ parse_at(s, conn, "SVINFO") = s
BY DEF parse_at, DkeyLines

\* The lines of an established link.
LEMMA ParseServed ==
  ASSUME NEW s, NEW conn, s.st = "server"
  PROVE  /\ parse_at(s, conn, "SVINFO ZIP") = [s EXCEPT !.r = in_mode(@, "zip")]
         /\ parse_at(s, conn, "SVINFO") = s /\ parse_at(s, conn, "PING") = s
         /\ parse_at(s, conn, "data") = s
BY DEF parse_at, DkeyLines

\* t is the end e when it has parsed n lines.
Answered(v, e, b, t, n) ==
  /\ t \in Ends /\ Writes(v, e, t.w, b) /\ Knows(v, e, t, n, Len(t.w.sent))
  /\ t.st \notin {"closed", "connecting"}

\* Before DKEY DONE and the end of the negotiation nothing is coded.
LEMMA FormPlain ==
  ASSUME NEW v, NEW e, NEW b \in Nat, NEW s, NEW m \in Nat, NEW F, Stands(v, e, s, b, m, F), m < 6, m <= Agreed(v)
  PROVE  F = {}
<1>1. F \in SUBSET Codes /\ ("rc4" \in F => m >= 6)
  BY FormOf
<1>2. "zip" \in F => m > Agreed(v)
  BY FormOf
<1>3. Agreed(v) \in Nat
  BY ZBaseIs
<1> QED BY <1>1, <1>2, <1>3 DEF Codes

\* And a plain line may follow.
LEMMA FitsPlain ==
  ASSUME NEW v, NEW e, NEW m \in Nat, m < 6, m <= Agreed(v) PROVE Fits(v, e, m, {})
BY DEF Fits

\* Where an end stands in what it writes.
LEMMA StandsAt ==
  ASSUME NEW v, NEW e, NEW b, NEW s \in Ends, Writes(v, e, s.w, b), NEW m, m = Len(s.w.sent)
  PROVE  Stands(v, e, s, b, m, s.w.mode)
BY DEF Stands

\* The first line.
LEMMA Greeted ==
  ASSUME NEW v \in Wants, NEW e \in Sides, NEW b \in Nat, NEW s \in Ends, Writes(v, e, s.w, b),
         Opening(v, e, s, 0, Len(s.w.sent)), s.st \notin {"closed", "connecting"},
         NEW g, g = greeted(s, v[e])
  PROVE  Stands(v, e, g, b, 1, {}) /\ g.r = s.r /\ g.got = {} /\ s.flags \cup dokey(v[e]) = Caps(v, e)
<1>1. Agreed(v) >= 2 /\ Agreed(v) \in Nat
  BY ZBaseIs
<1>2. s.got = {}
  BY DEF Opening
<1>3. \/ Len(s.w.sent) = 0 /\ s.flags = {} /\ e = "acc" /\ s.st = "unknown"
      \/ Len(s.w.sent) = 1 /\ s.flags = Caps(v, e) /\ e = "con" /\ s.st = "handshake"
  BY DEF Opening
<1>4. CASE Len(s.w.sent) = 0 /\ s.flags = {} /\ e = "acc" /\ s.st = "unknown"
  <2>1. PICK m \in Nat : m = 0
    OBVIOUS
  <2>2. Stands(v, e, s, b, m, s.w.mode)
    BY <1>4, <2>1, StandsAt
  <2>3. m < 6 /\ m <= Agreed(v)
    BY <1>1, <2>1
  <2>4. s.w.mode = {}
    BY <2>2, <2>3, FormPlain
  <2>5. g = send_message(s, Greeting(v[e]))
    BY <1>4, Zenon DEF greeted
  <2>6. Fits(v, e, m, {})
    BY <2>3, FitsPlain
  <2>7. 1 = m + 1 /\ Line(v, e, m + 1) = Greeting(v[e])
    BY <2>1, FirstLines
  <2>8. Stands(v, e, g, b, 1, {}) /\ Same(s, g)
    BY <2>2, <2>4, <2>5, <2>6, <2>7, Sending
  <2>9. "zip" \notin v["acc"]
    BY DEF Wants
  <2>10. s.flags \cup dokey(v[e]) = Caps(v, e)
    BY <1>4, <2>9 DEF Caps, dozip
  <2> QED BY <1>2, <2>8, <2>10, Zenon DEF Same
<1>5. CASE Len(s.w.sent) = 1 /\ s.flags = Caps(v, e) /\ e = "con" /\ s.st = "handshake"
  <2>1. PICK m \in Nat : m = 1
    OBVIOUS
  <2>2. Stands(v, e, s, b, m, s.w.mode)
    BY <1>5, <2>1, StandsAt
  <2>3. m < 6 /\ m <= Agreed(v)
    BY <1>1, <2>1
  <2>4. s.w.mode = {}
    BY <2>2, <2>3, FormPlain
  <2>5. g = s
    BY <1>5 DEF greeted
  <2>6. s.flags \cup dokey(v[e]) = Caps(v, e)
    BY <1>5 DEF Caps
  <2> QED BY <1>2, <2>1, <2>2, <2>4, <2>5, <2>6, Zenon
<1> QED BY <1>3, <1>4, <1>5

\* The first line: m_server_estab answers with the greeting, if it has not sent it,
\* SVINFO, and DKEY START or the burst.
LEMMA ParseFirst ==
  ASSUME NEW v \in Wants, NEW e \in Sides, NEW b \in Nat, NEW s \in Ends, Writes(v, e, s.w, b),
         Opening(v, e, s, 0, Len(s.w.sent)), s.st \notin {"closed", "connecting"},
         NEW t, t = parse_at(s, v[e], Line(v, Other(e), 1))
  PROVE  Answered(v, e, b, t, 1) /\ t.r = s.r
<1>1. PICK theirs : /\ t = server_estab(s, v[e], theirs)
                    /\ theirs = "DKEY" <=> "dkey" \in v[Other(e)]
  <2>1. Line(v, Other(e), 1) = Greeting(v[Other(e)])
    BY FirstLines
  <2>2. CASE "dkey" \in v[Other(e)]
    <3>1. t = server_estab(s, v[e], "DKEY")
      BY <2>1, <2>2, ParseServer DEF Greeting
    <3> QED BY <2>2, <3>1
  <2>3. CASE "dkey" \notin v[Other(e)]
    <3>1. t = server_estab(s, v[e], "plain")
      BY <2>1, <2>3, ParseServer DEF Greeting
    <3>2. "plain" # "DKEY"
      OBVIOUS
    <3> QED BY <2>3, <3>1, <3>2
  <2> QED BY <2>2, <2>3
<1>2. PICK g : g = greeted(s, v[e])
  OBVIOUS
<1>3. Stands(v, e, g, b, 1, {}) /\ g.r = s.r /\ g.got = {} /\ s.flags \cup dokey(v[e]) = Caps(v, e)
  BY <1>2, Greeted
<1>4. PICK h : h = to_flags(g, Caps(v, e))
  OBVIOUS
<1>5. h \in Ends /\ h.flags = Caps(v, e) /\ h.got = {} /\ h.w = g.w /\ h.r = s.r
  <2>1. g \in Ends /\ Caps(v, e) \in SUBSET LinkFlags
    BY <1>3, CapsIs DEF Stands
  <2> QED BY <1>3, <1>4, <2>1, Flagged
<1>6. Stands(v, e, h, b, 1, {})
  BY <1>3, <1>5, StandsAlike
<1>7. PICK q : q = send_message(h, "SVINFO")
  OBVIOUS
<1>8. PICK one \in Nat, two \in Nat, three \in Nat : one = 1 /\ two = 2 /\ three = 3
  OBVIOUS
<1>9. Agreed(v) \in Nat /\ Agreed(v) >= 2
  BY ZBaseIs
<1>10. Stands(v, e, q, b, two, {}) /\ Same(h, q)
  <2>1. "SVINFO" = Line(v, e, one + 1) /\ two = one + 1
    BY <1>8, FirstLines
  <2>2. one < 6 /\ one <= Agreed(v)
    BY <1>8, <1>9
  <2>3. Fits(v, e, one, {})
    BY <2>2, FitsPlain
  <2>4. Stands(v, e, h, b, one, {})
    BY <1>6, <1>8
  <2> QED BY <1>7, <2>1, <2>3, <2>4, Sending
<1>11. q \in Ends
  BY <1>10 DEF Stands
<1>12. t = IF theirs = "DKEY" /\ "dkey" \in Caps(v, e)
           THEN send_message(to_state(q, "nego"), "DKEY START") ELSE do_server_estab(q)
  BY <1>1, <1>2, <1>3, <1>4, <1>7, Zenon DEF server_estab
<1>13. Keyed(v) <=> theirs = "DKEY" /\ "dkey" \in Caps(v, e)
  BY <1>1, CapsIs, KeyedIs
<1>14. q.flags = Caps(v, e) /\ q.got = {} /\ q.r = s.r
  BY <1>5, <1>10 DEF Same
<1>15. CASE Keyed(v)
  <2>1. PICK d : d = to_state(q, "nego")
    OBVIOUS
  <2>2. d \in Ends /\ d.st = "nego" /\ d.flags = Caps(v, e) /\ d.got = {} /\ d.w = q.w /\ d.r = s.r
    <3>1. "nego" \in LinkStates
      BY DEF LinkStates
    <3> QED BY <1>11, <1>14, <2>1, <3>1, Stated
  <2>3. Stands(v, e, d, b, two, {})
    BY <1>10, <2>2, StandsAlike
  <2>4. t = send_message(d, "DKEY START")
    BY <1>12, <1>13, <1>15, <2>1, Zenon
  <2>5. "DKEY START" = Line(v, e, two + 1) /\ three = two + 1
    <3>1. three = two + 1
      BY <1>8
    <3>2. Line(v, e, 3) = "DKEY START"
      BY <1>15, KeyLines
    <3> QED BY <1>8, <3>1, <3>2, Zenon
  <2>6. two < 6 /\ two <= Agreed(v)
    BY <1>8, <1>9
  <2>7. Fits(v, e, two, {})
    BY <2>6, FitsPlain
  <2>8. Stands(v, e, t, b, three, {}) /\ Same(d, t)
    BY <2>3, <2>4, <2>5, <2>7, Sending
  <2>9. t \in Ends /\ Writes(v, e, t.w, b) /\ Len(t.w.sent) = 3
    BY <1>8, <2>8 DEF Stands
  <2>10. t.st = "nego" /\ t.flags = Caps(v, e) /\ t.got = {} /\ t.r = s.r
    BY <2>2, <2>8 DEF Same
  <2>11. Knows(v, e, t, 1, 3)
    <3>1. 1 \in 1 .. 2
      OBVIOUS
    <3> QED BY <1>15, <2>10, <3>1 DEF Knows, Keying
  <2> QED BY <2>9, <2>10, <2>11 DEF Answered
<1>16. CASE ~ Keyed(v)
  <2>1. t = do_server_estab(q)
    BY <1>12, <1>13, <1>16, Zenon
  <2>2. two = Agreed(v)
    BY <1>8, <1>16, ZBaseIs
  <2>3. "dozip" \in q.flags <=> Zips(v, e)
    BY <1>14, CapsIs
  <2>4. Served(v, e, q, b, t)
    BY <1>10, <1>16, <2>1, <2>2, <2>3, Estab
  <2>5. /\ t \in Ends /\ Writes(v, e, t.w, b) /\ t.st = "server" /\ t.r = q.r
        /\ Len(t.w.sent) = PingAt(v, e)
    BY <2>4 DEF Served
  <2>6. PingAt(v, e) >= PingAt(v, e)
    BY <1>9 DEF PingAt
  <2>7. Knows(v, e, t, 1, Len(t.w.sent))
    BY <1>16, <2>5, <2>6 DEF Knows, Serving
  <2> QED BY <1>14, <2>5, <2>7 DEF Answered
<1> QED BY <1>15, <1>16

\* DKEY START: the end sends its two halves of the exchange.
LEMMA AnswersStart ==
  ASSUME NEW v, NEW e, Keyed(v), NEW b \in Nat, NEW s, Stands(v, e, s, b, 3, {}), s.st = "nego",
         s.flags = Caps(v, e), s.got = {}, NEW t, t = dkey_start(s)
  PROVE  Answered(v, e, b, t, 3) /\ t.r = s.r
<1>1. s \in Ends
  BY DEF Stands
<1>2. Caps(v, e) \in SUBSET LinkFlags /\ "dh" \notin Caps(v, e)
  BY CapsIs
<1>3. PICK x : x = Caps(v, e) \cup {"dh"}
  OBVIOUS
<1>4. x \in SUBSET LinkFlags
  BY <1>2, <1>3 DEF LinkFlags
<1>5. PICK h, g : h = to_flags(s, x) /\ g = send_message(h, "DKEY PUB I")
  OBVIOUS
<1>6. h \in Ends /\ h.st = s.st /\ h.flags = x /\ h.got = s.got /\ h.w = s.w /\ h.r = s.r
  BY <1>1, <1>4, <1>5 DEF to_flags, Ends
<1>7. t = send_message(g, "DKEY PUB O")
  BY <1>2, <1>3, <1>5, Zenon DEF dkey_start
<1>8. PICK a \in Nat, c \in Nat, d \in Nat : a = 3 /\ c = 4 /\ d = 5
  OBVIOUS
<1>9. c = a + 1 /\ d = c + 1
  BY <1>8
<1>10. Line(v, e, 4) = "DKEY PUB I" /\ Line(v, e, 5) = "DKEY PUB O"
  BY KeyLines
<1>11. Fits(v, e, a, {}) /\ Fits(v, e, c, {})
  <2>1. Agreed(v) = 7
    BY ZBaseIs
  <2> QED BY <1>8, <2>1, FitsPlain
<1>12. Stands(v, e, h, b, a, {})
  BY <1>6, <1>8, StandsAlike
<1>13. Stands(v, e, g, b, c, {}) /\ Same(h, g)
  <2>1. "DKEY PUB I" = Line(v, e, a + 1)
    BY <1>8, <1>9, <1>10, Zenon
  <2> QED BY <1>5, <1>9, <1>11, <1>12, <2>1, Sending
<1>14. Stands(v, e, t, b, d, {}) /\ Same(g, t)
  <2>1. "DKEY PUB O" = Line(v, e, c + 1)
    BY <1>8, <1>9, <1>10, Zenon
  <2> QED BY <1>7, <1>9, <1>11, <1>13, <2>1, Sending
<1>15. t.st = "nego" /\ t.flags = Caps(v, e) \cup {"dh"} /\ t.got = {} /\ t.r = s.r
  BY <1>3, <1>6, <1>13, <1>14, Zenon DEF Same
<1>16. t \in Ends /\ Writes(v, e, t.w, b) /\ Len(t.w.sent) = 5
  BY <1>8, <1>14 DEF Stands
<1>17. Knows(v, e, t, 3, 5)
  BY <1>15 DEF Knows, Keying
<1> QED BY <1>15, <1>16, <1>17 DEF Answered

\* DKEY PUB I: the first half.
LEMMA AnswersHalf ==
  ASSUME NEW v, NEW e, Keyed(v), NEW b \in Nat, NEW s, Stands(v, e, s, b, 5, {}), s.st = "nego",
         s.flags = Caps(v, e) \cup {"dh"}, s.got = {}, NEW t, t = dkey_pub(s, "I")
  PROVE  Answered(v, e, b, t, 4) /\ t.r = s.r
<1>1. s \in Ends
  BY DEF Stands
<1>2. "dh" \in s.flags
  OBVIOUS
<1>3. PICK x : x = s.got \cup {"I"}
  OBVIOUS
<1>4. x = {"I"} /\ x # {"I", "O"} /\ x \in SUBSET {"I", "O"}
  BY <1>3
<1>5. PICK h : h = [s EXCEPT !.got = x]
  OBVIOUS
<1>6. h \in Ends /\ h.st = s.st /\ h.flags = s.flags /\ h.got = x /\ h.w = s.w /\ h.r = s.r
  BY <1>1, <1>4, <1>5, Gotten
<1>7. t = h
  BY <1>2, <1>3, <1>4, <1>5, <1>6, Zenon DEF dkey_pub
<1>8. Writes(v, e, t.w, b) /\ Len(t.w.sent) = 5
  BY <1>6, <1>7 DEF Stands
<1>9. Knows(v, e, t, 4, 5)
  BY <1>4, <1>6, <1>7 DEF Knows, Keying
<1> QED BY <1>6, <1>7, <1>8, <1>9 DEF Answered

\* DKEY PUB O: the key is agreed, and all after DKEY DONE is encrypted.
LEMMA AnswersWhole ==
  ASSUME NEW v, NEW e, Keyed(v), NEW b \in Nat, NEW s, Stands(v, e, s, b, 5, {}), s.st = "nego",
         s.flags = Caps(v, e) \cup {"dh"}, s.got = {"I"}, NEW t, t = dkey_pub(s, "O")
  PROVE  Answered(v, e, b, t, 5) /\ t.r = s.r
<1>1. s \in Ends
  BY DEF Stands
<1>2. "dh" \in s.flags
  OBVIOUS
<1>3. PICK x : x = s.got \cup {"O"}
  OBVIOUS
<1>4. x = {"I", "O"} /\ x \in SUBSET {"I", "O"}
  BY <1>3
<1>5. PICK h : h = [s EXCEPT !.got = x]
  OBVIOUS
<1>6. h \in Ends /\ h.st = s.st /\ h.flags = s.flags /\ h.got = x /\ h.w = s.w /\ h.r = s.r
  BY <1>1, <1>4, <1>5, Gotten
<1>7. PICK g, k, y : /\ g = send_message(h, "DKEY DONE") /\ k = [g EXCEPT !.w = out_mode(@, "rc4")]
                     /\ y = (s.flags \ {"dh"}) \cup {"keyed"}
  OBVIOUS
<1>8. t = to_flags(k, y)
  BY <1>2, <1>3, <1>4, <1>5, <1>6, <1>7, Zenon DEF dkey_pub, rc4_starts
<1>9. y = Caps(v, e) \cup {"keyed"} /\ y \in SUBSET LinkFlags
  <2>1. Caps(v, e) \in SUBSET LinkFlags /\ "dh" \notin Caps(v, e)
    BY CapsIs
  <2>2. y = Caps(v, e) \cup {"keyed"}
    BY <1>7, <2>1
  <2> QED BY <2>1, <2>2 DEF LinkFlags
<1>10. PICK a \in Nat, c \in Nat : a = 5 /\ c = 6
  OBVIOUS
<1>11. Stands(v, e, g, b, c, {}) /\ Same(h, g)
  <2>1. c = a + 1
    BY <1>10
  <2>2. Line(v, e, 6) = "DKEY DONE"
    BY KeyLines
  <2>3. "DKEY DONE" = Line(v, e, a + 1)
    BY <1>10, <2>1, <2>2, Zenon
  <2>4. Agreed(v) = 7
    BY ZBaseIs
  <2>5. Fits(v, e, a, {})
    BY <1>10, <2>4, FitsPlain
  <2>6. Stands(v, e, h, b, a, {})
    BY <1>6, <1>10, StandsAlike
  <2> QED BY <1>7, <2>1, <2>3, <2>5, <2>6, Sending
<1>12. Stands(v, e, k, b, 6, {"rc4"}) /\ Same(g, k)
  BY <1>7, <1>10, <1>11, StandsKeyed
<1>13. k \in Ends
  BY <1>12 DEF Stands
<1>14. t \in Ends /\ t.st = k.st /\ t.flags = y /\ t.got = k.got /\ t.w = k.w /\ t.r = k.r
  BY <1>8, <1>9, <1>13, Flagged
<1>15. t.st = "nego" /\ t.flags = Caps(v, e) \cup {"keyed"} /\ t.got = {"I", "O"} /\ t.r = s.r
  BY <1>4, <1>6, <1>9, <1>11, <1>12, <1>14, Zenon DEF Same
<1>16. Writes(v, e, t.w, b) /\ Len(t.w.sent) = 6 /\ "rc4" \in t.w.mode
  BY <1>12, <1>14 DEF Stands
<1>17. Knows(v, e, t, 5, 6)
  BY <1>15, <1>16 DEF Knows, Keying
<1> QED BY <1>14, <1>15, <1>16, <1>17 DEF Answered

\* DKEY DONE: the other end encrypts what follows.
LEMMA AnswersDone ==
  ASSUME NEW v, NEW e, Keyed(v), NEW b \in Nat, NEW s, NEW F, Stands(v, e, s, b, 6, F), "rc4" \in F,
         s.st = "nego", s.flags = Caps(v, e) \cup {"keyed"}, s.got = {"I", "O"}, NEW t, t = dkey_done(s)
  PROVE  Answered(v, e, b, t, 6) /\ t.r = in_mode(s.r, "rc4")
<1>1. s \in Ends
  BY DEF Stands
<1>2. "dh" \notin s.flags /\ "keyed" \in s.flags
  BY CapsIs
<1>3. PICK x, h : x = in_mode(s.r, "rc4") /\ h = [s EXCEPT !.r = x]
  OBVIOUS
<1>4. s.r \in Ins
  BY <1>1, EndFields
<1>5. x \in Ins
  BY <1>3, <1>4 DEF in_mode, Ins, Codes
<1>6. h \in Ends /\ h.st = s.st /\ h.flags = s.flags /\ h.got = s.got /\ h.w = s.w /\ h.r = x
  BY <1>1, <1>3, <1>5 DEF Ends
<1>7. t = send_message(h, "DKEY EXIT")
  BY <1>2, <1>3, Zenon DEF dkey_done
<1>8. PICK a \in Nat, c \in Nat : a = 6 /\ c = 7
  OBVIOUS
<1>9. Stands(v, e, t, b, c, F) /\ Same(h, t)
  <2>1. c = a + 1
    BY <1>8
  <2>2. Line(v, e, 7) = "DKEY EXIT"
    BY KeyLines
  <2>3. "DKEY EXIT" = Line(v, e, a + 1)
    BY <1>8, <2>1, <2>2, Zenon
  <2>4. Agreed(v) = 7
    BY ZBaseIs
  <2>5. Fits(v, e, a, F)
    BY <1>8, <2>4 DEF Fits
  <2>6. Stands(v, e, h, b, a, F)
    BY <1>6, <1>8, StandsAlike
  <2> QED BY <1>7, <2>1, <2>3, <2>5, <2>6, Sending
<1>10. t.st = "nego" /\ t.flags = Caps(v, e) \cup {"keyed"} /\ t.got = {"I", "O"} /\ t.r = x
  BY <1>6, <1>9 DEF Same
<1>11. t \in Ends /\ Writes(v, e, t.w, b) /\ Len(t.w.sent) = 7
  BY <1>8, <1>9 DEF Stands
<1>12. Knows(v, e, t, 6, 7)
  BY <1>10 DEF Knows, Keying
<1> QED BY <1>3, <1>10, <1>11, <1>12 DEF Answered

\* DKEY EXIT: both directions are encrypted.
LEMMA AnswersExit ==
  ASSUME NEW v, NEW e, Keyed(v), NEW b \in Nat, NEW s, NEW F, Stands(v, e, s, b, 7, F), "rc4" \in s.r.mode,
         s.flags = Caps(v, e) \cup {"keyed"}, NEW t, t = dkey_exit(s)
  PROVE  Answered(v, e, b, t, 7) /\ t.r = s.r
<1>1. PICK a \in Nat : a = 7
  OBVIOUS
<1>2. Stands(v, e, s, b, a, F)
  BY <1>1
<1>3. "rc4" \in F
  <2>1. "rc4" \notin F => a <= 6
    BY <1>2, FormOf
  <2> QED BY <1>1, <2>1
<1>4. t = do_server_estab(s)
  BY <1>3 DEF Stands, dkey_exit
<1>5. a = Agreed(v)
  BY <1>1, ZBaseIs
<1>6. "dozip" \in s.flags <=> Zips(v, e)
  BY CapsIs
<1>7. Served(v, e, s, b, t)
  BY <1>2, <1>3, <1>4, <1>5, <1>6, Estab
<1>8. /\ t \in Ends /\ Writes(v, e, t.w, b) /\ t.st = "server" /\ t.r = s.r
      /\ Len(t.w.sent) = PingAt(v, e)
  BY <1>7 DEF Served
<1>9. PingAt(v, e) >= PingAt(v, e)
  BY ZBaseIs DEF PingAt
<1>10. Knows(v, e, t, 7, Len(t.w.sent))
  BY <1>8, <1>9 DEF Knows, Serving
<1> QED BY <1>8, <1>10 DEF Answered

\* How the reader's form changes with the n-th line of end o.
Turn(v, o, n, r, q) ==
  \/ Keyed(v) /\ n = 6 /\ q = in_mode(r, "rc4")
  \/ Zips(v, o) /\ 2 * n = ZBase(v) /\ q = in_mode(r, "zip")
  \/ ~ (Keyed(v) /\ n = 6) /\ ~ (Zips(v, o) /\ 2 * n = ZBase(v)) /\ q = r

\* A line that changes no form.
LEMMA TurnNone ==
  ASSUME NEW v, NEW o, NEW n \in Nat, ~ (Keyed(v) /\ n = 6), ~ (Zips(v, o) /\ n = Agreed(v) + 1), NEW r
  PROVE  Turn(v, o, n, r, r)
<1>1. PICK a \in Nat : a = Agreed(v)
  BY ZBaseIs
<1>2. ZBase(v) = 2 * (a + 1)
  BY <1>1, ZBaseIs
<1>3. 2 * n = 2 * (a + 1) => n = a + 1
  OBVIOUS
<1> QED BY <1>1, <1>2, <1>3, Zenon DEF Turn

\* The lines of an established link that change no form.
LEMMA ServedLine ==
  ASSUME NEW v, NEW o, NEW i \in Nat, i >= 2, Keyed(v) => i >= 8, ~ (Zips(v, o) /\ i = Agreed(v) + 1)
  PROVE  Line(v, o, i) \in {"SVINFO", "PING", "data"}
<1>1. i # 1 /\ (Keyed(v) => i \notin {3, 4, 5, 6, 7})
  OBVIOUS
<1> QED BY <1>1 DEF Line

\* An established link takes every line that may still come.
LEMMA ParseServing ==
  ASSUME NEW v, NEW e, NEW o, NEW b \in Nat, NEW s \in Ends, Writes(v, e, s.w, b), NEW n \in Nat,
         Serving(v, e, s, n, Len(s.w.sent)), NEW i \in Nat, i = n + 1, NEW t, t = parse_at(s, v[e], Line(v, o, i))
  PROVE  Answered(v, e, b, t, i) /\ Turn(v, o, i, s.r, t.r)
<1>1. s.st = "server" /\ n >= 1 /\ (Keyed(v) => n >= 7) /\ Len(s.w.sent) >= PingAt(v, e)
  BY DEF Serving
<1>2. i >= 2 /\ (Keyed(v) => i >= 8)
  BY <1>1
<1>3. ASSUME NEW u \in Ends, u.st = s.st, u.w = s.w PROVE Answered(v, e, b, u, i)
  <2>1. i >= 1 /\ (Keyed(v) => i >= 7)
    BY <1>2
  <2>2. Serving(v, e, u, i, Len(u.w.sent))
    BY <1>1, <1>3, <2>1 DEF Serving
  <2>3. u.st \notin {"closed", "connecting"}
    BY <1>1, <1>3
  <2> QED BY <1>3, <2>2, <2>3, Zenon DEF Answered, Knows
<1>4. CASE Zips(v, o) /\ i = Agreed(v) + 1
  <2>1. Line(v, o, i) = "SVINFO ZIP"
    BY <1>4, ZipLine
  <2>2. PICK x : x = in_mode(s.r, "zip")
    OBVIOUS
  <2>3. t = [s EXCEPT !.r = x]
    <3>1. t = parse_at(s, v[e], "SVINFO ZIP")
      BY <2>1, Zenon
    <3>2. t = [s EXCEPT !.r = in_mode(@, "zip")]
      BY <1>1, <3>1, ParseServed, Zenon
    <3> QED BY <2>2, <3>2
  <2>4. s.r \in Ins
    BY EndFields
  <2>5. x \in Ins
    BY <2>2, <2>4 DEF in_mode, Ins, Codes
  <2>6. t \in Ends /\ t.st = s.st /\ t.w = s.w /\ t.r = x
    BY <2>3, <2>5 DEF Ends
  <2>7. 2 * i = ZBase(v)
    BY <1>4, ZBaseIs
  <2>8. Turn(v, o, i, s.r, t.r)
    BY <1>4, <2>2, <2>6, <2>7, Zenon DEF Turn
  <2> QED BY <1>3, <2>6, <2>8
<1>5. CASE ~ (Zips(v, o) /\ i = Agreed(v) + 1)
  <2>1. Line(v, o, i) \in {"SVINFO", "PING", "data"}
    BY <1>2, <1>5, ServedLine
  <2>2. t = s
    BY <1>1, <2>1, ParseServed
  <2>3. ~ (Keyed(v) /\ i = 6)
    BY <1>2
  <2>4. Turn(v, o, i, s.r, t.r)
    BY <1>5, <2>2, <2>3, TurnNone
  <2> QED BY <1>3, <2>2, <2>4
<1> QED BY <1>4, <1>5

\* The key exchange takes each line that comes next and never drops the link.
LEMMA ParseKeying ==
  ASSUME NEW v, NEW e, NEW o, NEW b \in Nat, NEW s \in Ends, Writes(v, e, s.w, b), NEW n \in Nat,
         Keying(v, e, s, n, Len(s.w.sent)), n = 6 => "rc4" \in s.r.mode,
         NEW i \in Nat, i = n + 1, NEW t, t = parse_at(s, v[e], Line(v, o, i))
  PROVE  Answered(v, e, b, t, i) /\ Turn(v, o, i, s.r, t.r)
<1>1. Keyed(v) /\ s.st = "nego"
  BY DEF Keying
<1>2. \/ n \in 1 .. 2 /\ Len(s.w.sent) = 3 /\ s.flags = Caps(v, e) /\ s.got = {}
      \/ n = 3 /\ Len(s.w.sent) = 5 /\ s.flags = Caps(v, e) \cup {"dh"} /\ s.got = {}
      \/ n = 4 /\ Len(s.w.sent) = 5 /\ s.flags = Caps(v, e) \cup {"dh"} /\ s.got = {"I"}
      \/ /\ n = 5 /\ Len(s.w.sent) = 6 /\ s.flags = Caps(v, e) \cup {"keyed"} /\ s.got = {"I", "O"}
         /\ "rc4" \in s.w.mode
      \/ n = 6 /\ Len(s.w.sent) = 7 /\ s.flags = Caps(v, e) \cup {"keyed"} /\ s.got = {"I", "O"}
  BY DEF Keying
<1>3. Agreed(v) = 7
  BY <1>1, ZBaseIs
<1>4. Stands(v, e, s, b, Len(s.w.sent), s.w.mode)
  BY StandsAt
<1>5. Len(s.w.sent) \in Nat
  BY EndFields, OutFields
<1>6. Len(s.w.sent) < 6 => s.w.mode = {}
  <2>1. PICK m \in Nat : m = Len(s.w.sent)
    BY <1>5
  <2>2. m < 6 => m <= Agreed(v)
    BY <1>3
  <2> QED BY <1>4, <2>1, <2>2, FormPlain
<1>7. i # 6 /\ i <= 7 /\ t.r = s.r => Turn(v, o, i, s.r, t.r)
  <2>1. i <= 7 => i # Agreed(v) + 1
    BY <1>3
  <2> QED BY <2>1, TurnNone
<1>8. CASE n = 1
  <2>1. /\ Len(s.w.sent) = 3 /\ s.flags = Caps(v, e) /\ s.got = {} /\ i = 2
    BY <1>2, <1>8
  <2>2. t = s
    <3>1. Line(v, o, 2) = "SVINFO"
      BY <1>1, KeyLines
    <3>2. t = parse_at(s, v[e], "SVINFO")
      BY <2>1, <3>1, Zenon
    <3> QED BY <1>1, <3>2, ParseDkey, Zenon
  <2>3. Knows(v, e, t, 2, 3)
    <3>1. 2 \in 1 .. 2
      OBVIOUS
    <3> QED BY <1>1, <2>1, <2>2, <3>1 DEF Knows, Keying
  <2>4. Answered(v, e, b, t, 2)
    BY <1>1, <2>1, <2>2, <2>3 DEF Answered
  <2> QED BY <1>7, <2>1, <2>2, <2>4
<1>9. CASE n = 2
  <2>1. /\ Len(s.w.sent) = 3 /\ s.flags = Caps(v, e) /\ s.got = {} /\ i = 3
    BY <1>2, <1>9
  <2>2. t = dkey_start(s)
    <3>1. Line(v, o, 3) = "DKEY START"
      BY <1>1, KeyLines
    <3>2. t = parse_at(s, v[e], "DKEY START")
      BY <2>1, <3>1, Zenon
    <3> QED BY <1>1, <3>2, ParseDkey, Zenon
  <2>3. Stands(v, e, s, b, 3, {})
    <3>1. s.w.mode = {}
      BY <1>6, <2>1
    <3> QED BY <1>4, <2>1, <3>1, Zenon
  <2>4. Answered(v, e, b, t, 3) /\ t.r = s.r
    BY <1>1, <2>1, <2>2, <2>3, AnswersStart
  <2> QED BY <1>7, <2>1, <2>4
<1>10. CASE n = 3
  <2>1. /\ Len(s.w.sent) = 5 /\ s.flags = Caps(v, e) \cup {"dh"} /\ s.got = {} /\ i = 4
    BY <1>2, <1>10
  <2>2. t = dkey_pub(s, "I")
    <3>1. Line(v, o, 4) = "DKEY PUB I"
      BY <1>1, KeyLines
    <3>2. t = parse_at(s, v[e], "DKEY PUB I")
      BY <2>1, <3>1, Zenon
    <3> QED BY <1>1, <3>2, ParseDkey, Zenon
  <2>3. Stands(v, e, s, b, 5, {})
    <3>1. s.w.mode = {}
      BY <1>6, <2>1
    <3> QED BY <1>4, <2>1, <3>1, Zenon
  <2>4. Answered(v, e, b, t, 4) /\ t.r = s.r
    BY <1>1, <2>1, <2>2, <2>3, AnswersHalf
  <2> QED BY <1>7, <2>1, <2>4
<1>11. CASE n = 4
  <2>1. /\ Len(s.w.sent) = 5 /\ s.flags = Caps(v, e) \cup {"dh"} /\ s.got = {"I"} /\ i = 5
    BY <1>2, <1>11
  <2>2. t = dkey_pub(s, "O")
    <3>1. Line(v, o, 5) = "DKEY PUB O"
      BY <1>1, KeyLines
    <3>2. t = parse_at(s, v[e], "DKEY PUB O")
      BY <2>1, <3>1, Zenon
    <3> QED BY <1>1, <3>2, ParseDkey, Zenon
  <2>3. Stands(v, e, s, b, 5, {})
    <3>1. s.w.mode = {}
      BY <1>6, <2>1
    <3> QED BY <1>4, <2>1, <3>1, Zenon
  <2>4. Answered(v, e, b, t, 5) /\ t.r = s.r
    BY <1>1, <2>1, <2>2, <2>3, AnswersWhole
  <2> QED BY <1>7, <2>1, <2>4
<1>12. CASE n = 5
  <2>1. /\ Len(s.w.sent) = 6 /\ s.flags = Caps(v, e) \cup {"keyed"} /\ s.got = {"I", "O"} /\ i = 6
        /\ "rc4" \in s.w.mode
    BY <1>2, <1>12
  <2>2. t = dkey_done(s)
    <3>1. Line(v, o, 6) = "DKEY DONE"
      BY <1>1, KeyLines
    <3>2. t = parse_at(s, v[e], "DKEY DONE")
      BY <2>1, <3>1, Zenon
    <3> QED BY <1>1, <3>2, ParseDkey, Zenon
  <2>3. Stands(v, e, s, b, 6, s.w.mode)
    BY <1>4, <2>1
  <2>4. Answered(v, e, b, t, 6) /\ t.r = in_mode(s.r, "rc4")
    BY <1>1, <2>1, <2>2, <2>3, AnswersDone
  <2> QED BY <1>1, <2>1, <2>4 DEF Turn
<1>13. CASE n = 6
  <2>1. /\ Len(s.w.sent) = 7 /\ s.flags = Caps(v, e) \cup {"keyed"} /\ i = 7
    BY <1>2, <1>13
  <2>2. t = dkey_exit(s)
    <3>1. Line(v, o, 7) = "DKEY EXIT"
      BY <1>1, KeyLines
    <3>2. t = parse_at(s, v[e], "DKEY EXIT")
      BY <2>1, <3>1, Zenon
    <3> QED BY <1>1, <3>2, ParseDkey, Zenon
  <2>3. Stands(v, e, s, b, 7, s.w.mode)
    BY <1>4, <2>1
  <2>4. Answered(v, e, b, t, 7) /\ t.r = s.r
    BY <1>1, <1>13, <2>1, <2>2, <2>3, AnswersExit
  <2> QED BY <1>7, <2>1, <2>4
<1>14. n \in {1, 2, 3, 4, 5, 6}
  BY <1>2
<1> QED BY <1>8, <1>9, <1>10, <1>11, <1>12, <1>13, <1>14

\* The handler of each line leaves the end as it should be.
LEMMA Parsed ==
  ASSUME NEW v \in Wants, NEW e \in Sides, NEW b \in Nat, NEW s \in Ends, Writes(v, e, s.w, b), NEW n \in Nat,
         Knows(v, e, s, n, Len(s.w.sent)), s.st \notin {"closed", "connecting"},
         Keyed(v) /\ n = 6 => "rc4" \in s.r.mode,
         NEW i \in Nat, i = n + 1, NEW t, t = parse_at(s, v[e], Line(v, Other(e), i))
  PROVE  Answered(v, e, b, t, i) /\ Turn(v, Other(e), i, s.r, t.r)
<1>1. CASE Opening(v, e, s, n, Len(s.w.sent))
  <2>1. n = 0 /\ i = 1
    BY <1>1 DEF Opening
  <2>2. Answered(v, e, b, t, 1) /\ t.r = s.r
    BY <1>1, <2>1, ParseFirst
  <2>3. i # 6 /\ i # Agreed(v) + 1
    <3>1. Agreed(v) = 7 \/ Agreed(v) = 2
      BY ZBaseIs
    <3> QED BY <2>1, <3>1
  <2>4. Turn(v, Other(e), i, s.r, t.r)
    BY <2>2, <2>3, TurnNone
  <2> QED BY <2>1, <2>2, <2>4
<1>2. CASE Keying(v, e, s, n, Len(s.w.sent))
  <2>1. Keyed(v)
    BY <1>2 DEF Keying
  <2> QED BY <1>2, <2>1, ParseKeying
<1>3. CASE Serving(v, e, s, n, Len(s.w.sent))
  BY <1>3, ParseServing
<1> QED BY <1>1, <1>2, <1>3 DEF Knows

\* The fields of what an end knows of its reading.
LEMMA InFields ==
  ASSUME NEW r \in Ins
  PROVE  /\ r.mode \in SUBSET Codes /\ r.kin \in Nat /\ r.zin \in Nat /\ r.rest \in Seq(LinkChars)
         /\ r.nbuf \in Seq(LinkChars) /\ r.count \in Seq(LinkChars) /\ r.parsed \in Seq(Lines)
         /\ Len(r.rest) \in Nat /\ Len(r.nbuf) \in Nat /\ Len(r.count) \in Nat /\ Len(r.parsed) \in Nat
BY DEF Ins

\* Two pieces of the same length from the same place are equal.
LEMMA CodedSame ==
  ASSUME NEW v, NEW e, NEW b, NEW M, NEW s, NEW t, Coded(v, e, s, b, M), Coded(v, e, t, b, M), Len(s) = Len(t)
  PROVE  s = t
<1>1. s \in Seq(LinkChars) /\ t \in Seq(LinkChars)
  BY DEF Coded
<1>2. \A i \in 1 .. Len(s) : s[i] = t[i]
  BY DEF Coded
<1> QED BY <1>1, <1>2

\* The first end of a line.
LEMMA EolAt ==
  ASSUME NEW s, Len(s) \in Nat, NEW i \in 1 .. Len(s), s[i].part = "eol",
         \A j \in 1 .. (i - 1) : s[j].part # "eol"
  PROVE  UpToEol(s) = i
<1>1. PICK n \in Nat : n = Len(s)
  OBVIOUS
<1>2. \A k \in 1 .. n : s[k].part = "eol" /\ (\A j \in 1 .. (k - 1) : s[j].part # "eol") => k = i
  <2>1. SUFFICES ASSUME NEW k \in 1 .. n, s[k].part = "eol", \A j \in 1 .. (k - 1) : s[j].part # "eol"
                 PROVE  k = i
    OBVIOUS
  <2>2. ~ (k < i)
    <3>1. k < i => k \in 1 .. (i - 1)
      BY <1>1
    <3> QED BY <2>1, <3>1
  <2>3. ~ (i < k)
    <3>1. i < k => i \in 1 .. (k - 1)
      BY <1>1
    <3> QED BY <2>1, <3>1
  <2> QED BY <1>1, <2>2, <2>3
<1>3. UpToEol(s) = CHOOSE k \in 1 .. n : s[k].part = "eol" /\ \A j \in 1 .. (k - 1) : s[j].part # "eol"
  BY <1>1, Zenon DEF UpToEol
<1> QED BY <1>1, <1>2, <1>3

\* What is read up to the end of the line: the rest of it, or all there is.
LEMMA Upto ==
  ASSUME NEW v, NEW o, NEW M, NEW s, NEW n \in Nat, NEW c \in {0, 1}, NEW b, b = 2 * n + c,
         Coded(v, o, s, b, M), Len(s) # 0, NEW k, k = UpToEol(s)
  PROVE  /\ k \in 1 .. Len(s) /\ c + k \in {1, 2}
<1>1. s \in Seq(LinkChars) /\ Len(s) \in Nat
  BY DEF Coded
<1>2. ASSUME NEW i \in 1 .. Len(s) PROVE s[i].part = Part(b + i)
  <2>1. s[i] = Code(v, o, b + i, M)
    BY DEF Coded
  <2> QED BY <2>1, CodeFields
<1>3. Part(2 * n + 1) = "body" /\ Part(2 * n + 2) = "eol"
  BY Halves
<1>4. 1 \in 1 .. Len(s)
  BY <1>1
<1>5. CASE c = 1
  <2>1. b + 1 = 2 * n + 2
    BY <1>5
  <2>2. s[1].part = "eol"
    BY <1>2, <1>3, <1>4, <2>1
  <2>3. \A j \in 1 .. (1 - 1) : s[j].part # "eol"
    OBVIOUS
  <2>4. k = 1
    BY <1>1, <1>4, <2>2, <2>3, EolAt
  <2> QED BY <1>4, <1>5, <2>4
<1>6. CASE c = 0
  <2>1. b + 1 = 2 * n + 1 /\ b + 2 = 2 * n + 2
    BY <1>6
  <2>2. s[1].part = "body"
    BY <1>2, <1>3, <1>4, <2>1
  <2>3. CASE Len(s) = 1
    <3>1. ~ \E i \in 1 .. Len(s) : s[i].part = "eol"
      BY <2>2, <2>3
    <3>2. k = Len(s)
      BY <3>1, Zenon DEF UpToEol
    <3> QED BY <1>6, <2>3, <3>2
  <2>4. CASE Len(s) # 1
    <3>1. 2 \in 1 .. Len(s)
      <4>1. PICK l \in Nat : l = Len(s)
        BY <1>1
      <4>2. l # 0 /\ l # 1
        BY <2>4, <4>1
      <4>3. 2 \in 1 .. l
        BY <4>2
      <4> QED BY <4>1, <4>3
    <3>2. s[2].part = "eol"
      BY <1>2, <1>3, <2>1, <3>1
    <3>3. \A j \in 1 .. (2 - 1) : s[j].part # "eol"
      BY <2>2
    <3>4. k = 2
      BY <1>1, <3>1, <3>2, <3>3, EolAt
    <3> QED BY <1>6, <3>1, <3>4
  <2> QED BY <2>3, <2>4
<1> QED BY <1>5, <1>6

\* What is left of the line that is being read is plain.
Plain(v, o, r) == /\ "rc4" \notin r.mode => (Keyed(v) => Len(r.parsed) + 1 <= 6)
                  /\ "zip" \notin r.mode => (Zips(v, o) => 2 * (Len(r.parsed) + 1) <= ZBase(v))

\* What the loop of dopacket looks at next is decrypted and decompressed.
LEMMA IsPlain ==
  ASSUME NEW v, NEW o, NEW r \in Ins, Read(v, o, r), Ready(v, o, r) PROVE Plain(v, o, r)
<1>1. PICK n \in Nat : n = Len(r.parsed)
  BY InFields
<1>2. PICK a \in Nat : a = Agreed(v)
  BY ZBaseIs
<1>3. ZBase(v) = 2 * (a + 1)
  BY <1>2, ZBaseIs
<1>4. /\ "rc4" \notin r.mode => (Keyed(v) => n <= 6 /\ n # 6)
      /\ "zip" \notin r.mode => (Zips(v, o) => 2 * n <= 2 * (a + 1) /\ 2 * n # 2 * (a + 1))
  BY <1>1, <1>3, Zenon DEF Read, Ready
<1>5. n <= 6 /\ n # 6 => n + 1 <= 6
  OBVIOUS
<1>6. 2 * n <= 2 * (a + 1) /\ 2 * n # 2 * (a + 1) => 2 * (n + 1) <= 2 * (a + 1)
  OBVIOUS
<1> QED BY <1>1, <1>3, <1>4, <1>5, <1>6, Zenon DEF Plain

\* g is r with what dopacket gathers of the line.
Gathers(v, o, r, g) ==
  /\ g \in Ins /\ g.mode = r.mode /\ g.kin = r.kin /\ g.zin = r.zin /\ g.nbuf = r.nbuf /\ g.parsed = r.parsed
  /\ Coded(v, o, g.count, 2 * Len(r.parsed), {}) /\ Len(g.count) \in {1, 2}
  /\ Coded(v, o, g.rest, 2 * Len(r.parsed) + Len(g.count), Codes \ r.mode)
  /\ Len(g.count) + Len(g.rest) = Len(r.count) + Len(r.rest)

\* It takes the characters up to the end of a line.
LEMMA Gathered ==
  ASSUME NEW v, NEW o, NEW r \in Ins, Read(v, o, r), Ready(v, o, r), Len(r.rest) # 0, NEW g, g = gather(r)
  PROVE  Gathers(v, o, r, g)
<1>1. PICK n \in Nat, c \in Nat, l \in Nat, x \in Seq(LinkChars), y \in Seq(LinkChars) :
        n = Len(r.parsed) /\ c = Len(r.count) /\ l = Len(r.rest) /\ x = r.count /\ y = r.rest
  BY InFields
<1>a. PICK b \in Nat : b = 2 * n + c
  OBVIOUS
<1>b. PICK M : M = Codes \ r.mode
  OBVIOUS
<1>2. b = 2 * n + c /\ M = Codes \ r.mode
  BY <1>a, <1>b
<1>3. Coded(v, o, x, 2 * n, {}) /\ c <= 1 /\ Coded(v, o, y, b, M)
  BY <1>1, <1>2, Zenon DEF Read, Looked
<1>4. c \in {0, 1}
  BY <1>3
<1>5. PICK k : k = UpToEol(y)
  OBVIOUS
<1>6. k \in 1 .. l /\ c + k \in {1, 2}
  <2>1. Len(y) # 0
    BY <1>1
  <2>2. k \in 1 .. Len(y) /\ c + k \in {1, 2}
    BY <1>2, <1>3, <1>4, <1>5, <2>1, Upto
  <2> QED BY <1>1, <2>2
<1>7. k \in Nat /\ k \in 0 .. Len(y) /\ k <= l
  BY <1>1, <1>6
<1>8. PICK t, u, h : t = SubSeq(y, 1, k) /\ u = SubSeq(y, k + 1, Len(y)) /\ h = x \o t
  OBVIOUS
<1>9. g = [r EXCEPT !.rest = u, !.count = h]
  BY <1>1, <1>5, <1>8, Zenon DEF gather
<1>10. t \in Seq(LinkChars) /\ Len(t) = k
  BY <1>7, <1>8
<1>11. u \in Seq(LinkChars) /\ Len(u) = l - k
  BY <1>1, <1>7, <1>8, AfterFront, SMTT(30)
<1>12. h \in Seq(LinkChars) /\ Len(h) = c + k
  <2>1. h \in Seq(LinkChars) /\ Len(h) = Len(x) + Len(t)
    BY <1>8, <1>10, Concats
  <2> QED BY <1>1, <1>10, <2>1
<1>13. Coded(v, o, t, b, M)
  BY <1>3, <1>7, <1>8, CodedFront
<1>14. Coded(v, o, t, b, {})
  <2>1. PICK a \in Nat : a = Agreed(v)
    BY ZBaseIs
  <2>2. ZBase(v) = 2 * (a + 1)
    BY <2>1, ZBaseIs
  <2>3. /\ "rc4" \notin r.mode => (Keyed(v) => n + 1 <= 6)
        /\ "zip" \notin r.mode => (Zips(v, o) => 2 * (n + 1) <= 2 * (a + 1))
    BY <1>1, <2>2, IsPlain DEF Plain
  <2>4. b + k <= 2 * (n + 1)
    BY <1>2, <1>6, <1>7
  <2>5. n + 1 <= 6 => b + k <= 12
    BY <1>7, <2>4
  <2>6. 2 * (n + 1) <= 2 * (a + 1) => b + k <= 2 * (a + 1)
    BY <1>7, <2>4
  <2>7. /\ "rc4" \in M => "rc4" \notin r.mode
        /\ "zip" \in M => "zip" \notin r.mode
    BY <1>2
  <2>8. ("zip" \in M <=> "zip" \in {}) \/ (Zips(v, o) => b + Len(t) <= ZBase(v))
    BY <1>10, <2>2, <2>3, <2>6, <2>7
  <2>9. ("rc4" \in M <=> "rc4" \in {}) \/ (Keyed(v) => b + Len(t) <= 12)
    BY <1>10, <2>3, <2>5, <2>7
  <2> QED BY <1>13, <2>8, <2>9, CodedModes
<1>15. Coded(v, o, h, 2 * n, {})
  <2>1. PICK d \in Nat : d = 2 * n
    OBVIOUS
  <2>2. b = d + Len(x)
    BY <1>1, <1>2, <2>1
  <2>3. Coded(v, o, x, d, {})
    BY <1>3, <2>1
  <2>4. Coded(v, o, h, d, {})
    BY <1>8, <1>14, <2>2, <2>3, CodedJoin
  <2> QED BY <2>1, <2>4
<1>16. Coded(v, o, u, 2 * n + Len(h), M)
  <2>1. PICK d : d = b + k
    OBVIOUS
  <2>2. Coded(v, o, u, d, M)
    BY <1>3, <1>7, <1>8, <2>1, CodedBack
  <2>3. d = 2 * n + (c + k)
    BY <1>2, <1>7, <2>1
  <2> QED BY <1>12, <2>2, <2>3
<1>17. /\ g \in Ins /\ g.mode = r.mode /\ g.kin = r.kin /\ g.zin = r.zin /\ g.nbuf = r.nbuf
       /\ g.parsed = r.parsed /\ g.count = h /\ g.rest = u
  BY <1>9, <1>11, <1>12 DEF Ins
<1>18. Len(h) + Len(u) = c + l /\ Len(h) \in {1, 2}
  BY <1>6, <1>7, <1>11, <1>12
<1> QED BY <1>1, <1>2, <1>15, <1>16, <1>17, <1>18, Zenon DEF Gathers

\* A line that is complete is the next one that the other end sent.
LEMMA WholeLine ==
  ASSUME NEW v, NEW o, NEW n \in Nat, NEW x, Coded(v, o, x, 2 * n, {}), Len(x) = 2
  PROVE  LineOf(x) = Line(v, o, n + 1) /\ Last(x).part = "eol"
<1>1. x \in Seq(LinkChars)
  BY DEF Coded
<1>2. Last(x) = x[2]
  BY DEF Last
<1>3. x[2] = Code(v, o, 2 * n + 2, {})
  BY DEF Coded
<1>4. x[2].line = LineAt(v, o, 2 * n + 2) /\ x[2].part = Part(2 * n + 2)
  BY <1>3, CodeFields
<1>5. Last(x).line = Line(v, o, n + 1) /\ Last(x).part = "eol"
  BY <1>2, <1>4, Halves
<1>6. PICK l, y : l = Line(v, o, n + 1) /\ y = Chars(l)
  OBVIOUS
<1>7. Coded(v, o, y, 2 * n, {})
  BY <1>6, CharsCoded
<1>8. Len(y) = 2
  BY <1>6, CharsCoded
<1>9. x = y
  BY <1>7, <1>8, CodedSame
<1> QED BY <1>5, <1>6, <1>9, Zenon DEF LineOf

\* A line of one character is not complete.
LEMMA HalfLine ==
  ASSUME NEW v, NEW o, NEW n \in Nat, NEW x, Coded(v, o, x, 2 * n, {}), Len(x) = 1
  PROVE  Last(x).part # "eol"
<1>1. x \in Seq(LinkChars)
  BY DEF Coded
<1>2. Last(x) = x[1]
  BY DEF Last
<1>3. x[1] = Code(v, o, 2 * n + 1, {})
  BY DEF Coded
<1>4. x[1].part = Part(2 * n + 1)
  BY <1>3, CodeFields
<1> QED BY <1>2, <1>4, Halves

\* q is read of the stream up to where r is, in the same form.
Continues(v, o, r, q) == q \in Ins /\ Read(v, o, q) /\ q.mode = r.mode /\ ReadUpTo(q) = ReadUpTo(r)

\* A line that is not complete yet.
LEMMA ReadHalf ==
  ASSUME NEW v, NEW o, NEW r \in Ins, Read(v, o, r), NEW g, Gathers(v, o, r, g), Len(g.count) = 1
  PROVE  Continues(v, o, r, g) /\ g.parsed = r.parsed
<1>1. /\ g \in Ins /\ g.mode = r.mode /\ g.kin = r.kin /\ g.zin = r.zin /\ g.nbuf = r.nbuf
      /\ g.parsed = r.parsed /\ Coded(v, o, g.count, 2 * Len(r.parsed), {})
      /\ Coded(v, o, g.rest, 2 * Len(r.parsed) + Len(g.count), Codes \ r.mode)
      /\ Len(g.count) + Len(g.rest) = Len(r.count) + Len(r.rest)
  BY Zenon DEF Gathers
<1>2. PICK n \in Nat, c \in Nat, l \in Nat, d \in Nat :
        n = Len(r.parsed) /\ c = Len(r.count) /\ l = Len(r.rest) /\ d = Len(r.nbuf)
  BY InFields
<1>3. PICK h \in Nat, k \in Nat : h = Len(g.count) /\ k = Len(g.rest)
  BY <1>1, InFields
<1>4. h + k = c + l /\ h = 1
  BY <1>1, <1>2, <1>3
<1>5. Unzipped(g) = Unzipped(r)
  <2>1. (2 * n + h) + k = (2 * n + c) + l
    BY <1>4
  <2> QED BY <1>1, <1>2, <1>3, <2>1, Zenon DEF Unzipped, Looked
<1>6. ReadUpTo(g) = ReadUpTo(r)
  BY <1>1, <1>5, Zenon DEF ReadUpTo
<1>7. /\ Coded(v, o, r.nbuf, Unzipped(r), {"zip"})
      /\ "rc4" \in r.mode => Keyed(v) /\ Len(r.parsed) >= 6 /\ ReadUpTo(r) = 12 + r.kin
      /\ "rc4" \notin r.mode => r.kin = 0 /\ (Keyed(v) => Len(r.parsed) <= 6)
      /\ "zip" \in r.mode => /\ Zips(v, o) /\ 2 * Len(r.parsed) >= ZBase(v)
                             /\ Unzipped(r) = ZBase(v) + r.zin
      /\ "zip" \notin r.mode => /\ r.zin = 0 /\ Len(r.nbuf) = 0
                                /\ Zips(v, o) => 2 * Len(r.parsed) <= ZBase(v)
      /\ \A i \in 1 .. Len(r.parsed) : r.parsed[i] = Line(v, o, i)
  BY Zenon DEF Read
<1>8. Len(g.count) <= 1
  OBVIOUS
<1>9. Looked(g) = 2 * Len(r.parsed) + Len(g.count)
  BY <1>1 DEF Looked
<1>10. Read(v, o, g)
  BY <1>1, <1>5, <1>6, <1>7, <1>8, <1>9, Zenon DEF Read
<1> QED BY <1>1, <1>6, <1>10, Zenon DEF Continues

\* A line that is.
LEMMA ReadLine ==
  ASSUME NEW v, NEW o, NEW r \in Ins, Read(v, o, r), Plain(v, o, r), NEW g, Gathers(v, o, r, g), Len(g.count) = 2,
         NEW q, q = counted(g)
  PROVE  Continues(v, o, r, q) /\ Len(q.parsed) = Len(r.parsed) + 1 /\ Len(q.count) = 0
<1>1. /\ g \in Ins /\ g.mode = r.mode /\ g.kin = r.kin /\ g.zin = r.zin /\ g.nbuf = r.nbuf
      /\ g.parsed = r.parsed /\ Coded(v, o, g.count, 2 * Len(r.parsed), {})
      /\ Coded(v, o, g.rest, 2 * Len(r.parsed) + Len(g.count), Codes \ r.mode)
      /\ Len(g.count) + Len(g.rest) = Len(r.count) + Len(r.rest)
  BY Zenon DEF Gathers
<1>2. PICK n \in Nat, c \in Nat, l \in Nat, d \in Nat :
        n = Len(r.parsed) /\ c = Len(r.count) /\ l = Len(r.rest) /\ d = Len(r.nbuf)
  BY InFields
<1>3. PICK k \in Nat : k = Len(g.rest)
  BY <1>1, InFields
<1>4. 2 + k = c + l
  BY <1>1, <1>2, <1>3
<1>5. /\ Coded(v, o, r.nbuf, Unzipped(r), {"zip"})
      /\ "rc4" \in r.mode => Keyed(v) /\ Len(r.parsed) >= 6 /\ ReadUpTo(r) = 12 + r.kin
      /\ "rc4" \notin r.mode => r.kin = 0
      /\ "zip" \in r.mode => /\ Zips(v, o) /\ 2 * Len(r.parsed) >= ZBase(v)
                             /\ Unzipped(r) = ZBase(v) + r.zin
      /\ "zip" \notin r.mode => r.zin = 0 /\ Len(r.nbuf) = 0
  BY Zenon DEF Read
<1>6. \A i \in 1 .. Len(r.parsed) : r.parsed[i] = Line(v, o, i)
  BY DEF Read
<1>7. LineOf(g.count) = Line(v, o, n + 1)
  <2>1. Coded(v, o, g.count, 2 * n, {})
    BY <1>1, <1>2
  <2> QED BY <2>1, WholeLine
<1>8. PICK x : x = Append(r.parsed, Line(v, o, n + 1))
  OBVIOUS
<1>9. x \in Seq(Lines) /\ Len(x) = n + 1 /\ \A i \in 1 .. Len(x) : x[i] = Line(v, o, i)
  <2>1. r.parsed \in Seq(Lines)
    BY InFields
  <2>2. /\ x \in Seq(Lines) /\ Len(x) = Len(r.parsed) + 1
        /\ \A i \in 1 .. Len(x) : x[i] = Line(v, o, i)
    BY <1>2, <1>6, <1>8, <2>1, LinesAppend, SMTT(30)
  <2> QED BY <1>2, <2>2
<1>10. PICK z : z = << >>
  OBVIOUS
<1>11. z \in Seq(LinkChars) /\ Len(z) = 0
  BY <1>10
<1>12. q = [g EXCEPT !.count = z, !.parsed = x]
  BY <1>1, <1>2, <1>7, <1>8, <1>10, Zenon DEF counted
<1>13. /\ q \in Ins /\ q.mode = r.mode /\ q.kin = r.kin /\ q.zin = r.zin /\ q.nbuf = r.nbuf
       /\ q.rest = g.rest /\ q.count = z /\ q.parsed = x
  BY <1>1, <1>9, <1>11, <1>12 DEF Ins
<1>14. Looked(q) = 2 * (n + 1) + 0
  BY <1>9, <1>11, <1>13, Zenon DEF Looked
<1>15. Unzipped(q) = Unzipped(r)
  <2>1. (2 * (n + 1) + 0) + k = (2 * n + c) + l
    BY <1>4
  <2>2. Unzipped(q) = (2 * (n + 1) + 0) + k
    BY <1>3, <1>13, <1>14, Zenon DEF Unzipped
  <2> QED BY <1>2, <2>1, <2>2, Zenon DEF Unzipped, Looked
<1>16. ReadUpTo(q) = ReadUpTo(r)
  BY <1>13, <1>15, Zenon DEF ReadUpTo
<1>17. Coded(v, o, q.rest, Looked(q), Codes \ q.mode)
  <2>1. 2 * n + 2 = 2 * (n + 1) + 0
    OBVIOUS
  <2> QED BY <1>1, <1>2, <1>13, <1>14, <2>1, Zenon
<1>18. Coded(v, o, q.count, 2 * Len(q.parsed), {}) /\ Len(q.count) <= 1 /\ Len(q.count) = 0
  <2>1. Len(q.count) = 0 /\ q.count \in Seq(LinkChars)
    BY <1>11, <1>13
  <2>2. Len(q.count) <= 1
    BY <2>1
  <2> QED BY <2>1, <2>2, CodedEmpty
<1>19. /\ "rc4" \notin r.mode => (Keyed(v) => Len(x) <= 6)
       /\ "zip" \notin r.mode => (Zips(v, o) => 2 * Len(x) <= ZBase(v))
  BY <1>2, <1>9, Zenon DEF Plain
<1>20. PICK a \in Nat : a = ZBase(v)
  BY ZBaseIs
<1>21. /\ "rc4" \in r.mode => Len(x) >= 6
       /\ "zip" \in r.mode => 2 * Len(x) >= ZBase(v)
  <2>1. n >= 6 => n + 1 >= 6
    OBVIOUS
  <2>2. 2 * n >= a => 2 * (n + 1) >= a
    OBVIOUS
  <2> QED BY <1>2, <1>5, <1>9, <1>20, <2>1, <2>2, Zenon
<1>22. Read(v, o, q)
  BY <1>5, <1>9, <1>13, <1>15, <1>16, <1>17, <1>18, <1>19, <1>21, Zenon DEF Read
<1> QED BY <1>2, <1>9, <1>13, <1>16, <1>18, <1>22, Zenon DEF Continues

\* Decrypting the next characters, and decompressing them.
LEMMA Decrypted ==
  ASSUME NEW v, NEW o, NEW M, NEW s, NEW k \in Nat, NEW b \in Nat, b = 12 + k, Keyed(v), Coded(v, o, s, b, M), "rc4" \in M,
         NEW N, N = M \ {"rc4"}, NEW t, t = [i \in 1 .. Len(s) |-> IF s[i].key = k + i THEN [s[i] EXCEPT !.key = 0] ELSE Garbled]
  PROVE  Coded(v, o, t, b, N) /\ Len(t) = Len(s)
<1>1. PICK n \in Nat : n = Len(s)
  BY DEF Coded
<1>2. ASSUME NEW i \in 1 .. n PROVE t[i] = Code(v, o, b + i, N)
  <2>1. PICK p : p = b + i
    OBVIOUS
  <2>2. s[i] = Code(v, o, p, M)
    BY <1>1, <2>1 DEF Coded
  <2>3. KeyAt(v, p) = k + i
    BY <2>1, KeyNext
  <2>4. s[i].key = k + i
    BY <2>2, <2>3, CodeFields
  <2>5. t[i] = [s[i] EXCEPT !.key = 0]
    BY <1>1, <2>4
  <2>6. [Code(v, o, p, M) EXCEPT !.key = 0] = Code(v, o, p, N)
    BY CodeUnkey
  <2> QED BY <2>1, <2>2, <2>5, <2>6
<1>3. t = [i \in 1 .. n |-> Code(v, o, b + i, N)]
  BY <1>1, <1>2
<1>a. Coded(v, o, t, b, N)
  BY <1>3, CodedMap, ZenonT(40)
<1>b. Len(t) = n
  <2>1. t \in Seq(LinkChars)
    BY <1>a DEF Coded
  <2>2. DOMAIN t = 1 .. n
    BY <1>3, Zenon
  <2> QED BY <2>1, <2>2, MapLen
<1>4. Coded(v, o, t, b, N) /\ Len(t) = n
  BY <1>a, <1>b
<1> QED BY <1>1, <1>4

\* A piece of the compressed stream, k characters after its start, and what is in it.
Zipped(v, o, s, b, k) == b = ZBase(v) + k /\ Zips(v, o) /\ Coded(v, o, s, b, {"zip"})
Placed(v, o, s, b, k, i) == /\ s[i].zip = k + i /\ s[i].key = 0
                            /\ [s[i] EXCEPT !.zip = 0] = Code(v, o, b + i, {})
\* Each compressed character has the next place of the stream.
LEMMA ZipPlaces ==
  ASSUME NEW v, NEW o, NEW s, NEW k \in Nat, NEW b \in Nat, Zipped(v, o, s, b, k), NEW i \in 1 .. Len(s)
  PROVE  Placed(v, o, s, b, k, i)
<1>0. b = ZBase(v) + k /\ Zips(v, o) /\ Coded(v, o, s, b, {"zip"})
  BY DEF Zipped
<1>1. PICK p : p = b + i
  OBVIOUS
<1>2. s[i] = Code(v, o, p, {"zip"})
  BY <1>0, <1>1 DEF Coded
<1>3. i \in Nat /\ i >= 1
  <2>1. Len(s) \in Nat
    BY <1>0 DEF Coded
  <2> QED BY <2>1
<1>4. ZipAt(v, o, p) = k + i
  BY <1>0, <1>1, <1>3, ZipNext
<1>5. s[i].zip = ZipAt(v, o, p) /\ s[i].key = 0
  BY <1>2 DEF Code
<1>6. {"zip"} \ {"zip"} = {}
  OBVIOUS
<1>7. [Code(v, o, p, {"zip"}) EXCEPT !.zip = 0] = Code(v, o, p, {})
  BY <1>6, CodeUnzip
<1> QED BY <1>1, <1>2, <1>4, <1>5, <1>7, Zenon DEF Placed

\* The compressed data z comes next.
Unzips(v, o, r, z) ==
  /\ "zip" \in r.mode /\ Zips(v, o) /\ 2 * Len(r.parsed) >= ZBase(v)
  /\ Coded(v, o, z, Looked(r), {"zip"}) /\ Looked(r) = ZBase(v) + r.zin
  /\ Coded(v, o, r.count, 2 * Len(r.parsed), {}) /\ Len(r.count) <= 1
  /\ "rc4" \in r.mode => Keyed(v) /\ Len(r.parsed) >= 6 /\ Looked(r) + Len(z) = 12 + r.kin
  /\ "rc4" \notin r.mode => r.kin = 0 /\ ~ Keyed(v)
  /\ \A i \in 1 .. Len(r.parsed) : r.parsed[i] = Line(v, o, i)

\* q is r with the first part of z to look at.
Inflates(v, o, r, z, q) ==
  /\ q \in Ins /\ Read(v, o, q) /\ Ready(v, o, q) /\ q.parsed = r.parsed /\ q.mode = r.mode
  /\ ReadUpTo(q) = Looked(r) + Len(z)

\* zip_input finds the next characters of the stream, decompresses what there is
\* room for and leaves the rest in nbuf.
LEMMA Inflated ==
  ASSUME NEW v, NEW o, NEW r \in Ins, NEW z, Unzips(v, o, r, z), NEW q, q = inflated(r, z)
  PROVE  /\ Inflates(v, o, r, z, q)
         /\ ~ \E i \in 1 .. ZipRoom(z) : z[i].zip # r.zin + i \/ z[i].key # 0
<1>1. PICK n \in Nat, c \in Nat, k \in Nat : n = Len(r.parsed) /\ c = Len(r.count) /\ k = r.zin
  BY InFields
<1>2. PICK b \in Nat : b = Looked(r)
  <2>1. 2 * n + c \in Nat
    OBVIOUS
  <2> QED BY <1>1, <2>1, Zenon DEF Looked
<1>a. b = 2 * n + c
  BY <1>1, <1>2 DEF Looked
<1>3. /\ "zip" \in r.mode /\ Zips(v, o) /\ 2 * Len(r.parsed) >= ZBase(v)
      /\ Coded(v, o, z, b, {"zip"}) /\ b = ZBase(v) + k
      /\ Coded(v, o, r.count, 2 * Len(r.parsed), {}) /\ Len(r.count) <= 1
      /\ "rc4" \in r.mode => Keyed(v) /\ Len(r.parsed) >= 6 /\ b + Len(z) = 12 + r.kin
      /\ "rc4" \notin r.mode => r.kin = 0 /\ ~ Keyed(v)
      /\ \A i \in 1 .. Len(r.parsed) : r.parsed[i] = Line(v, o, i)
  BY <1>1, <1>2, Zenon DEF Unzips
<1>4. PICK l \in Nat : l = Len(z)
  BY <1>3 DEF Coded
<1>5. z \in Seq(LinkChars)
  BY <1>3 DEF Coded
<1>6. PICK j \in Nat : j = ZipRoom(z) /\ j <= l
  <2>1. ZipInBuf \in Nat
    BY LinkStreamAssumption
  <2>2. ZipRoom(z) \in Nat /\ ZipRoom(z) <= l
    BY <1>4, <2>1 DEF ZipRoom
  <2> QED BY <2>2
<1>7. PICK t, u, y : /\ t = [i \in 1 .. j |-> [z[i] EXCEPT !.zip = 0]]
                     /\ u = SubSeq(z, j + 1, Len(z)) /\ y = k + j
  OBVIOUS
<1>8. Coded(v, o, t, b, {}) /\ Len(t) = j /\ \A i \in 1 .. j : z[i].zip = k + i /\ z[i].key = 0
  <2>1. ASSUME NEW i \in 1 .. j
        PROVE  z[i].zip = k + i /\ z[i].key = 0 /\ t[i] = Code(v, o, b + i, {})
    <3>1. i \in 1 .. Len(z)
      BY <1>4, <1>6
    <3>2. z[i].zip = k + i /\ z[i].key = 0 /\ [z[i] EXCEPT !.zip = 0] = Code(v, o, b + i, {})
      <4>1. Zipped(v, o, z, b, k)
        BY <1>3 DEF Zipped
      <4>2. Placed(v, o, z, b, k, i)
        BY <3>1, <4>1, ZipPlaces
      <4> QED BY <4>2 DEF Placed
    <3>3. t[i] = [z[i] EXCEPT !.zip = 0]
      BY <1>7
    <3> QED BY <3>2, <3>3
  <2>2. t = [i \in 1 .. j |-> Code(v, o, b + i, {})]
    BY <1>7, <2>1
  <2>3. Coded(v, o, t, b, {})
    BY <2>2, CodedMap, Zenon
  <2>4. t \in Seq(LinkChars)
    BY <2>3 DEF Coded
  <2>5. DOMAIN t = 1 .. j
    BY <1>7, Zenon
  <2>6. Len(t) = j
    BY <2>4, <2>5, MapLen
  <2> QED BY <2>1, <2>3, <2>6
<1>9. PICK d \in Nat : d = b + j
  OBVIOUS
<1>10. Coded(v, o, u, d, {"zip"})
  <2>1. j \in 0 .. Len(z)
    BY <1>4, <1>6
  <2> QED BY <1>3, <1>7, <1>9, <2>1, CodedBack
<1>11. Len(u) = l - j
  BY <1>4, <1>5, <1>6, <1>7, AfterFront, SMTT(30)
<1>12. t \in Seq(LinkChars) /\ u \in Seq(LinkChars) /\ y \in Nat
  BY <1>7, <1>8, <1>10, SMTT(30) DEF Coded
<1>13. q = [r EXCEPT !.rest = t, !.nbuf = u, !.zin = y]
  BY <1>1, <1>4, <1>6, <1>7, Zenon DEF inflated
<1>14. /\ q \in Ins /\ q.mode = r.mode /\ q.kin = r.kin /\ q.zin = y /\ q.nbuf = u
       /\ q.rest = t /\ q.count = r.count /\ q.parsed = r.parsed
  BY <1>12, <1>13 DEF Ins
<1>15. Looked(q) = b
  BY <1>2, <1>14, Zenon DEF Looked
<1>16. Unzipped(q) = d
  BY <1>8, <1>9, <1>14, <1>15, Zenon DEF Unzipped
<1>17. ReadUpTo(q) = b + Len(z)
  <2>1. d + (l - j) = b + l
    BY <1>6, <1>9
  <2> QED BY <1>4, <1>11, <1>14, <1>16, <2>1, Zenon DEF ReadUpTo
<1>18. d = ZBase(v) + y
  <2>1. PICK x \in Nat : x = ZBase(v)
    BY ZBaseIs
  <2>2. b = x + k
    BY <1>3, <2>1
  <2>3. d = x + (k + j)
    BY <1>9, <2>2
  <2> QED BY <1>7, <2>1, <2>3
<1>19. Coded(v, o, t, b, Codes \ r.mode)
  <2>1. "zip" \notin Codes \ r.mode /\ ("rc4" \in Codes \ r.mode => "rc4" \notin r.mode)
    BY <1>3
  <2>2. ("zip" \in {} <=> "zip" \in Codes \ r.mode) \/ (Zips(v, o) => b + Len(t) <= ZBase(v))
    BY <2>1
  <2>3. ("rc4" \in {} <=> "rc4" \in Codes \ r.mode) \/ (Keyed(v) => b + Len(t) <= 12)
    BY <1>3, <2>1
  <2>4. PICK N : N = Codes \ r.mode
    OBVIOUS
  <2> QED BY <1>8, <2>2, <2>3, <2>4, CodedModes
<1>20. Read(v, o, q)
  BY <1>3, <1>10, <1>14, <1>15, <1>16, <1>17, <1>18, <1>19, Zenon DEF Read
<1>21. Ready(v, o, q)
  BY <1>3, <1>14, Zenon DEF Ready
<1>22. Inflates(v, o, r, z, q)
  BY <1>2, <1>14, <1>17, <1>20, <1>21, Zenon DEF Inflates
<1>23. ~ \E i \in 1 .. ZipRoom(z) : z[i].zip # r.zin + i \/ z[i].key # 0
  BY <1>1, <1>6, <1>8, Zenon
<1> QED BY <1>22, <1>23

\* t is s in all but what is read.
Reads(s, t) == t \in Ends /\ t.st = s.st /\ t.flags = s.flags /\ t.got = s.got /\ t.w = s.w

\* An end with another r is the same but for it.
LEMMA ReadsIs ==
  ASSUME NEW s \in Ends, NEW q \in Ins, NEW t, t = [s EXCEPT !.r = q] PROVE Reads(s, t) /\ t.r = q
BY DEF Ends, Reads

\* So inflate does not drop the link.
LEMMA InflateEnd ==
  ASSUME NEW v, NEW o, NEW s \in Ends, NEW z, Unzips(v, o, s.r, z), NEW t, t = inflate(s, z)
  PROVE  Reads(s, t) /\ Inflates(v, o, s.r, z, t.r)
<1>1. PICK q : q = inflated(s.r, z)
  OBVIOUS
<1>2. s.r \in Ins
  BY EndFields
<1>3. Inflates(v, o, s.r, z, q)
  BY <1>1, <1>2, Inflated
<1>4. ~ \E i \in 1 .. ZipRoom(z) : z[i].zip # s.r.zin + i \/ z[i].key # 0
  BY <1>1, <1>2, Inflated
<1>5. t = [s EXCEPT !.r = q]
  BY <1>1, <1>4, Zenon DEF inflate
<1>6. q \in Ins
  BY <1>3 DEF Inflates
<1> QED BY <1>3, <1>5, <1>6, ReadsIs

\* The reader has read as much as before, and is ready to go on.
Advances(v, o, r, q) ==
  /\ q \in Ins /\ Read(v, o, q) /\ Ready(v, o, q) /\ Len(q.parsed) = Len(r.parsed)
  /\ ReadUpTo(q) = ReadUpTo(r)

\* What was read is decrypted.
Decrypts(v, o, r, b, N, d) ==
  /\ d \in Ins /\ d.mode = r.mode /\ d.zin = r.zin /\ d.nbuf = r.nbuf /\ d.count = r.count
  /\ d.parsed = r.parsed /\ Coded(v, o, d.rest, b, N) /\ Len(d.rest) = Len(r.rest)
  /\ d.kin = r.kin + Len(r.rest)

\* Decrypting what is still to be looked at.
LEMMA DecryptRest ==
  ASSUME NEW v, NEW o, NEW r \in Ins, NEW b \in Nat, NEW M, Coded(v, o, r.rest, b, M), "rc4" \in M, Keyed(v),
         b = 12 + r.kin, NEW N, N = M \ {"rc4"}, NEW d, d = decrypt(r)
  PROVE  Decrypts(v, o, r, b, N, d)
<1>1. PICK k \in Nat : k = r.kin
  BY InFields
<1>2. PICK s : s = r.rest
  OBVIOUS
<1>3. PICK t : t = [i \in 1 .. Len(s) |-> IF s[i].key = k + i THEN [s[i] EXCEPT !.key = 0] ELSE Garbled]
  OBVIOUS
<1>4. b = 12 + k /\ Coded(v, o, s, b, M)
  BY <1>1, <1>2
<1>5. Coded(v, o, t, b, N) /\ Len(t) = Len(s)
  BY <1>3, <1>4, Decrypted, SMTT(30)
<1>6. t \in Seq(LinkChars)
  BY <1>5 DEF Coded
<1>7. PICK y : y = k + Len(s)
  OBVIOUS
<1>8. y \in Nat
  BY <1>4, <1>7 DEF Coded
<1>9. d = [r EXCEPT !.rest = t, !.kin = y]
  BY <1>1, <1>2, <1>3, <1>7, Zenon DEF decrypt
<1>10. /\ d \in Ins /\ d.mode = r.mode /\ d.zin = r.zin
       /\ d.nbuf = r.nbuf /\ d.rest = t /\ d.count = r.count /\ d.parsed = r.parsed /\ d.kin = y
  BY <1>6, <1>8, <1>9 DEF Ins
<1> QED BY <1>1, <1>2, <1>5, <1>7, <1>10, Zenon DEF Decrypts

\* in_mode changes the form of the reading alone.
LEMMA ModeIs ==
  ASSUME NEW r \in Ins, NEW m \in Codes, NEW q, q = in_mode(r, m)
  PROVE  /\ q \in Ins /\ q.mode = r.mode \cup {m} /\ q.kin = r.kin /\ q.zin = r.zin /\ q.rest = r.rest
         /\ q.nbuf = r.nbuf /\ q.count = r.count /\ q.parsed = r.parsed
BY DEF in_mode, Ins

\* Encryption begins: what has been read after the line is decrypted.
LEMMA TurnKey ==
  ASSUME NEW v, NEW o, NEW r \in Ins, Read(v, o, r), Len(r.parsed) = 6, Len(r.count) = 0, Keyed(v),
         "rc4" \notin r.mode, NEW q, q = in_mode(r, "rc4"), NEW d, d = decrypt(q)
  PROVE  Advances(v, o, r, d)
<1>1. /\ q \in Ins /\ q.mode = r.mode \cup {"rc4"} /\ q.kin = r.kin /\ q.zin = r.zin /\ q.rest = r.rest
      /\ q.nbuf = r.nbuf /\ q.count = r.count /\ q.parsed = r.parsed
  <2>1. "rc4" \in Codes
    BY DEF Codes
  <2> QED BY <2>1, ModeIs
<1>2. PICK l \in Nat, h \in Nat : l = Len(r.rest) /\ h = Len(r.nbuf)
  BY InFields
<1>3. ZBase(v) = 16
  BY DEF ZBase
<1>4. "zip" \notin r.mode
  <2>1. "zip" \in r.mode => 2 * Len(r.parsed) >= ZBase(v)
    BY Zenon DEF Read
  <2> QED BY <1>3, <2>1
<1>5. r.kin = 0 /\ r.zin = 0 /\ Len(r.nbuf) = 0
  BY <1>4, Zenon DEF Read
<1>6. Looked(r) = 12
  BY DEF Looked
<1>7. PICK M, N : M = Codes \ r.mode /\ N = Codes \ q.mode
  OBVIOUS
<1>8. N = M \ {"rc4"} /\ "rc4" \in M
  BY <1>1, <1>7 DEF Codes
<1>9. PICK b \in Nat : b = 12
  OBVIOUS
<1>10. Coded(v, o, q.rest, b, M) /\ b = 12 + q.kin
  <2>1. Coded(v, o, r.rest, Looked(r), Codes \ r.mode)
    BY DEF Read
  <2> QED BY <1>1, <1>5, <1>6, <1>7, <1>9, <2>1
<1>11. Decrypts(v, o, q, b, N, d)
  BY <1>1, <1>8, <1>10, DecryptRest
<1>12. /\ d \in Ins /\ d.mode = r.mode \cup {"rc4"} /\ d.zin = r.zin /\ d.nbuf = r.nbuf /\ d.count = r.count
       /\ d.parsed = r.parsed /\ Coded(v, o, d.rest, b, N) /\ Len(d.rest) = l
       /\ d.kin = q.kin + l
  BY <1>1, <1>2, <1>11, Zenon DEF Decrypts
<1>13. d.kin = l
  BY <1>1, <1>5, <1>12
<1>14. Looked(d) = 12 /\ Looked(d) = b
  BY <1>6, <1>9, <1>12 DEF Looked
<1>15. Unzipped(d) = Unzipped(r) /\ ReadUpTo(d) = ReadUpTo(r)
  BY <1>2, <1>6, <1>12, <1>14, Zenon DEF Unzipped, ReadUpTo
<1>16. ReadUpTo(d) = 12 + d.kin
  <2>1. ReadUpTo(d) = 12 + l + 0
    BY <1>5, <1>12, <1>14, Zenon DEF ReadUpTo, Unzipped
  <2> QED BY <1>13, <2>1
<1>17. /\ Coded(v, o, r.nbuf, Unzipped(r), {"zip"}) /\ Coded(v, o, r.count, 2 * Len(r.parsed), {})
       /\ Len(r.count) <= 1
       /\ Zips(v, o) => 2 * Len(r.parsed) <= ZBase(v)
       /\ \A i \in 1 .. Len(r.parsed) : r.parsed[i] = Line(v, o, i)
  BY <1>4, Zenon DEF Read
<1>18. "rc4" \in d.mode /\ "zip" \notin d.mode /\ Codes \ d.mode = N
  BY <1>1, <1>4, <1>7, <1>12
<1>19. Len(d.parsed) >= 6 /\ 2 * Len(d.parsed) # ZBase(v)
  <2>1. Len(d.parsed) = 6
    BY <1>12, Zenon
  <2>2. 6 >= 6 /\ 2 * 6 # 16
    OBVIOUS
  <2> QED BY <1>3, <2>1, <2>2, Zenon
<1>20. Read(v, o, d)
  BY <1>5, <1>12, <1>14, <1>15, <1>16, <1>17, <1>18, <1>19, Zenon DEF Read
<1>21. Ready(v, o, d)
  BY <1>18, <1>19, Zenon DEF Ready
<1> QED BY <1>12, <1>15, <1>20, <1>21, Zenon DEF Advances

\* Compression begins: what has been read after the line is decompressed.
LEMMA TurnZip ==
  ASSUME NEW v, NEW o, NEW r \in Ins, Read(v, o, r), 2 * Len(r.parsed) = ZBase(v), Len(r.count) = 0, Zips(v, o),
         "zip" \notin r.mode, NEW q, q = in_mode(r, "zip")
  PROVE  Unzips(v, o, q, q.rest) /\ Looked(q) + Len(q.rest) = ReadUpTo(r)
<1>1. /\ q \in Ins /\ q.mode = r.mode \cup {"zip"} /\ q.kin = r.kin /\ q.zin = r.zin /\ q.rest = r.rest
      /\ q.nbuf = r.nbuf /\ q.count = r.count /\ q.parsed = r.parsed
  <2>1. "zip" \in Codes
    BY DEF Codes
  <2> QED BY <2>1, ModeIs
<1>2. PICK l \in Nat, n \in Nat, a \in Nat : l = Len(r.rest) /\ n = Len(r.parsed) /\ a = ZBase(v)
  BY InFields, ZBaseIs
<1>3. 2 * n = a
  BY <1>2
<1>4. r.zin = 0 /\ Len(r.nbuf) = 0
  BY Zenon DEF Read
<1>5. Looked(r) = a /\ Looked(q) = a
  <2>1. 2 * n + 0 = a
    BY <1>3
  <2> QED BY <1>1, <1>2, <2>1, Zenon DEF Looked
<1>6. Looked(q) + Len(q.rest) = ReadUpTo(r)
  <2>1. ReadUpTo(r) = a + l + 0
    BY <1>2, <1>4, <1>5, Zenon DEF ReadUpTo, Unzipped
  <2> QED BY <1>1, <1>2, <1>5, <2>1
<1>7. /\ "rc4" \in r.mode => Keyed(v) /\ Len(r.parsed) >= 6 /\ ReadUpTo(r) = 12 + r.kin
      /\ "rc4" \notin r.mode => r.kin = 0 /\ (Keyed(v) => Len(r.parsed) <= 6)
      /\ Coded(v, o, r.rest, Looked(r), Codes \ r.mode)
      /\ Coded(v, o, r.count, 2 * Len(r.parsed), {}) /\ Len(r.count) <= 1
      /\ \A i \in 1 .. Len(r.parsed) : r.parsed[i] = Line(v, o, i)
  BY Zenon DEF Read
<1>8. Keyed(v) => ~ (n <= 6)
  <2>1. Keyed(v) => a = 16
    BY <1>2 DEF ZBase
  <2> QED BY <1>3, <2>1
<1>9. "rc4" \notin r.mode => r.kin = 0 /\ ~ Keyed(v)
  BY <1>2, <1>7, <1>8, Zenon
<1>10. PICK M : M = Codes \ r.mode
  OBVIOUS
<1>11. Coded(v, o, r.rest, a, {"zip"})
  <2>1. "zip" \in M /\ ("rc4" \in M => "rc4" \notin r.mode)
    BY <1>10 DEF Codes
  <2>2. ("zip" \in M <=> "zip" \in {"zip"}) \/ (Zips(v, o) => a + Len(r.rest) <= ZBase(v))
    BY <2>1
  <2>3. ("rc4" \in M <=> "rc4" \in {"zip"}) \/ (Keyed(v) => a + Len(r.rest) <= 12)
    BY <1>9, <2>1
  <2>4. Coded(v, o, r.rest, a, M)
    BY <1>5, <1>7, <1>10
  <2> QED BY <2>2, <2>3, <2>4, CodedModes
<1>12. Looked(q) = ZBase(v) + q.zin
  <2>1. a = a + 0
    OBVIOUS
  <2> QED BY <1>1, <1>2, <1>4, <1>5, <2>1, Zenon
<1>13. "zip" \in q.mode /\ ("rc4" \in q.mode <=> "rc4" \in r.mode)
  BY <1>1
<1>14. 2 * Len(q.parsed) >= ZBase(v)
  <2>1. 2 * n >= a
    BY <1>3
  <2> QED BY <1>1, <1>2, <2>1, Zenon
<1>15. Unzips(v, o, q, q.rest)
  BY <1>1, <1>5, <1>6, <1>7, <1>9, <1>11, <1>12, <1>13, <1>14, Zenon DEF Unzips
<1> QED BY <1>6, <1>15

\* After a line that changes the form, or one that does not.
LEMMA NextBuffer ==
  ASSUME NEW v, NEW o, NEW s \in Ends, NEW r \in Ins, Read(v, o, r), Len(r.count) = 0,
         Turn(v, o, Len(r.parsed), r, s.r), Keyed(v) /\ Len(r.parsed) = 6 => "rc4" \notin r.mode,
         Zips(v, o) /\ 2 * Len(r.parsed) = ZBase(v) => "zip" \notin r.mode,
         NEW t, t = next_buffer(s, r.mode)
  PROVE  Reads(s, t) /\ Advances(v, o, r, t.r)
<1>1. CASE Keyed(v) /\ Len(r.parsed) = 6 /\ s.r = in_mode(r, "rc4")
  <2>1. PICK q, d : q = in_mode(r, "rc4") /\ d = decrypt(q)
    OBVIOUS
  <2>2. Advances(v, o, r, d)
    BY <1>1, <2>1, TurnKey
  <2>3. "rc4" \in s.r.mode \ r.mode
    <3>1. q.mode = r.mode \cup {"rc4"}
      BY <2>1 DEF in_mode, Ins
    <3> QED BY <1>1, <2>1, <3>1
  <2>4. t = [s EXCEPT !.r = d]
    BY <1>1, <2>1, <2>3 DEF next_buffer
  <2>5. d \in Ins
    BY <2>2 DEF Advances
  <2> QED BY <2>2, <2>4, <2>5, ReadsIs
<1>2. CASE Zips(v, o) /\ 2 * Len(r.parsed) = ZBase(v) /\ s.r = in_mode(r, "zip")
  <2>1. PICK q : q = in_mode(r, "zip")
    OBVIOUS
  <2>2. /\ q.mode = r.mode \cup {"zip"} /\ q.parsed = r.parsed
    BY <2>1 DEF in_mode, Ins
  <2>3. "zip" \in s.r.mode \ r.mode /\ "rc4" \notin s.r.mode \ r.mode
    BY <1>2, <2>1, <2>2
  <2>4. t = inflate(s, q.rest)
    BY <1>2, <2>1, <2>3 DEF next_buffer
  <2>5. Unzips(v, o, q, q.rest)
    BY <1>2, <2>1, TurnZip
  <2>6. Looked(q) + Len(q.rest) = ReadUpTo(r)
    BY <1>2, <2>1, TurnZip
  <2>7. s.r = q
    BY <1>2, <2>1
  <2>8. Reads(s, t)
    BY <2>4, <2>5, <2>7, InflateEnd
  <2>9. Inflates(v, o, q, q.rest, t.r)
    BY <2>4, <2>5, <2>7, InflateEnd
  <2>10. /\ t.r \in Ins /\ Read(v, o, t.r) /\ Ready(v, o, t.r) /\ t.r.parsed = q.parsed
         /\ ReadUpTo(t.r) = Looked(q) + Len(q.rest)
    BY <2>9, Zenon DEF Inflates
  <2> QED BY <2>2, <2>6, <2>8, <2>10, Zenon DEF Advances
<1>3. CASE ~ (Keyed(v) /\ Len(r.parsed) = 6) /\ ~ (Zips(v, o) /\ 2 * Len(r.parsed) = ZBase(v)) /\ s.r = r
  <2>1. t = s
    BY <1>3, Zenon DEF next_buffer
  <2>2. Ready(v, o, r)
    BY <1>3, Zenon DEF Ready
  <2>3. Reads(s, t)
    BY <2>1 DEF Reads
  <2> QED BY <1>3, <2>1, <2>2, <2>3, Zenon DEF Advances
<1> QED BY <1>1, <1>2, <1>3, Zenon DEF Turn

\* A read returns the next n characters.
Arrives(v, o, r, n, q) ==
  /\ q \in Ins /\ Read(v, o, q) /\ Ready(v, o, q) /\ q.parsed = r.parsed
  /\ ReadUpTo(q) = ReadUpTo(r) + n

\* They are decrypted, d.
Fetched(v, o, r, b, n, d) ==
  /\ d \in Ins /\ d.mode = r.mode /\ d.zin = r.zin /\ d.nbuf = r.nbuf /\ d.count = r.count
  /\ d.parsed = r.parsed /\ Coded(v, o, d.rest, b, Codes \ (r.mode \cap {"rc4"})) /\ Len(d.rest) = n
  /\ "rc4" \in r.mode => b + n = 12 + d.kin
  /\ "rc4" \notin r.mode => d.kin = 0

\* What a read returned, decrypted if it was encrypted.
LEMMA Fetch ==
  ASSUME NEW v, NEW o, NEW r \in Ins, Read(v, o, r), NEW b \in Nat, b = ReadUpTo(r), NEW cs, Coded(v, o, cs, b, Codes),
         NEW x, x = [r EXCEPT !.rest = cs], NEW d, d = IF "rc4" \in r.mode THEN decrypt(x) ELSE x
  PROVE  Fetched(v, o, r, b, Len(cs), d)
<1>1. cs \in Seq(LinkChars) /\ Len(cs) \in Nat
  BY DEF Coded
<1>2. /\ x \in Ins /\ x.mode = r.mode /\ x.zin = r.zin /\ x.kin = r.kin /\ x.nbuf = r.nbuf
      /\ x.count = r.count /\ x.parsed = r.parsed /\ x.rest = cs
  BY <1>1 DEF Ins
<1>3. CASE "rc4" \in r.mode
  <2>1. Keyed(v) /\ b = 12 + r.kin
    BY <1>3, Zenon DEF Read
  <2>2. PICK N : N = Codes \ {"rc4"}
    OBVIOUS
  <2>3. "rc4" \in Codes
    BY DEF Codes
  <2>4. Decrypts(v, o, x, b, N, d)
    <3>1. Coded(v, o, x.rest, b, Codes) /\ b = 12 + x.kin /\ d = decrypt(x)
      BY <1>2, <1>3, <2>1
    <3> QED BY <1>2, <2>1, <2>2, <2>3, <3>1, DecryptRest
  <2>5. N = Codes \ (r.mode \cap {"rc4"})
    BY <1>3, <2>2
  <2>6. /\ d \in Ins /\ d.mode = r.mode /\ d.zin = r.zin /\ d.nbuf = r.nbuf /\ d.count = r.count
        /\ d.parsed = r.parsed /\ Coded(v, o, d.rest, b, N) /\ Len(d.rest) = Len(cs)
        /\ d.kin = r.kin + Len(cs)
    BY <1>2, <2>4, Zenon DEF Decrypts
  <2>7. b + Len(cs) = 12 + d.kin
    <3>1. PICK k \in Nat, l \in Nat : k = r.kin /\ l = Len(cs)
      BY <1>1, InFields
    <3>2. b + l = 12 + (k + l)
      BY <2>1, <3>1
    <3> QED BY <2>6, <3>1, <3>2, Zenon
  <2> QED BY <1>3, <2>5, <2>6, <2>7, Zenon DEF Fetched
<1>4. CASE "rc4" \notin r.mode
  <2>1. d = x
    BY <1>4
  <2>2. r.kin = 0
    BY <1>4, Zenon DEF Read
  <2>3. Codes \ (r.mode \cap {"rc4"}) = Codes
    BY <1>4
  <2> QED BY <1>2, <1>4, <2>1, <2>2, <2>3, Zenon DEF Fetched
<1> QED BY <1>3, <1>4

\* dopacket up to its loop leaves the end with the next characters of the stream.
LEMMA Arrived ==
  ASSUME NEW v, NEW o, NEW s \in Ends, Read(v, o, s.r), Ready(v, o, s.r), Len(s.r.rest) = 0, Len(s.r.nbuf) = 0,
         NEW b \in Nat, b = ReadUpTo(s.r), NEW cs, Coded(v, o, cs, b, Codes), NEW t, t = arrived(s, cs)
  PROVE  Reads(s, t) /\ Arrives(v, o, s.r, Len(cs), t.r)
<1>1. PICK r \in Ins : r = s.r
  BY EndFields
<1>2. PICK x, d, u : /\ x = [r EXCEPT !.rest = cs] /\ d = IF "rc4" \in r.mode THEN decrypt(x) ELSE x
                     /\ u = [s EXCEPT !.r = d]
  OBVIOUS
<1>3. Fetched(v, o, r, b, Len(cs), d)
  BY <1>1, <1>2, Fetch
<1>4. /\ d \in Ins /\ d.mode = r.mode /\ d.zin = r.zin /\ d.nbuf = r.nbuf /\ d.count = r.count
      /\ d.parsed = r.parsed /\ Coded(v, o, d.rest, b, Codes \ (r.mode \cap {"rc4"})) /\ Len(d.rest) = Len(cs)
      /\ "rc4" \in r.mode => b + Len(cs) = 12 + d.kin
      /\ "rc4" \notin r.mode => d.kin = 0
  BY <1>3, Zenon DEF Fetched
<1>5. Reads(s, u) /\ u.r = d
  BY <1>2, <1>4, ReadsIs
<1>6. t = IF "zip" \in r.mode THEN inflate(u, d.rest) ELSE u
  <2>1. x = [s.r EXCEPT !.rest = cs] /\ d = IF "rc4" \in s.r.mode THEN decrypt(x) ELSE x
    BY <1>1, <1>2, Zenon
  <2>2. u = [s EXCEPT !.r = IF "rc4" \in s.r.mode THEN decrypt(x) ELSE x]
    BY <1>2, <2>1, Zenon
  <2>3. t = IF "zip" \in s.r.mode THEN inflate(u, u.r.rest) ELSE u
    <3>1. t = LET y == [s.r EXCEPT !.rest = cs]
                  h == [s EXCEPT !.r = IF "rc4" \in s.r.mode THEN decrypt(y) ELSE y]
              IN IF "zip" \in s.r.mode THEN inflate(h, h.r.rest) ELSE h
      BY DEF arrived
    <3>2. t = LET h == [s EXCEPT !.r = IF "rc4" \in s.r.mode THEN decrypt(x) ELSE x]
              IN IF "zip" \in s.r.mode THEN inflate(h, h.r.rest) ELSE h
      BY <2>1, <3>1
    <3> QED BY <2>2, <3>2
  <2> QED BY <1>1, <1>5, <2>3, Zenon
<1>7. PICK n \in Nat, c \in Nat : n = Len(r.parsed) /\ c = Len(r.count)
  BY InFields
<1>8. b = Looked(r) /\ b = Unzipped(r) /\ Looked(d) = b
  <2>1. 2 * n + c + 0 = 2 * n + c /\ 2 * n + c + 0 + 0 = 2 * n + c
    OBVIOUS
  <2>2. b = 2 * n + c /\ Looked(r) = 2 * n + c /\ Unzipped(r) = 2 * n + c
    BY <1>1, <1>7, <2>1, Zenon DEF ReadUpTo, Unzipped, Looked
  <2> QED BY <1>4, <1>7, <2>2, Zenon DEF Looked
<1>9. /\ Coded(v, o, r.count, 2 * Len(r.parsed), {}) /\ Len(r.count) <= 1
      /\ Coded(v, o, r.nbuf, Unzipped(r), {"zip"})
      /\ "rc4" \in r.mode => Keyed(v) /\ Len(r.parsed) >= 6
      /\ "rc4" \notin r.mode => (Keyed(v) => Len(r.parsed) <= 6)
      /\ "zip" \in r.mode => /\ Zips(v, o) /\ 2 * Len(r.parsed) >= ZBase(v)
                             /\ Unzipped(r) = ZBase(v) + r.zin
      /\ "zip" \notin r.mode => /\ r.zin = 0
                                /\ Zips(v, o) => 2 * Len(r.parsed) <= ZBase(v)
      /\ \A i \in 1 .. Len(r.parsed) : r.parsed[i] = Line(v, o, i)
  BY <1>1, Zenon DEF Read
<1>10. PICK M : M = Codes \ (r.mode \cap {"rc4"})
  OBVIOUS
<1>11. CASE "zip" \in r.mode
  <2>1. "rc4" \notin r.mode => ~ Keyed(v)
    <3>1. PICK a \in Nat : a = ZBase(v)
      BY ZBaseIs
    <3>2. Keyed(v) => a = 16
      BY <3>1 DEF ZBase
    <3>3. 2 * n >= a
      BY <1>7, <1>9, <1>11, <3>1
    <3>4. Keyed(v) => ~ (n <= 6)
      BY <3>2, <3>3
    <3> QED BY <1>7, <1>9, <3>4, Zenon
  <2>2. Coded(v, o, d.rest, b, {"zip"})
    <3>1. "zip" \in M /\ ("rc4" \in M => "rc4" \notin r.mode)
      BY <1>10 DEF Codes
    <3>2. ("zip" \in M <=> "zip" \in {"zip"}) \/ (Zips(v, o) => b + Len(d.rest) <= ZBase(v))
      BY <3>1
    <3>3. ("rc4" \in M <=> "rc4" \in {"zip"}) \/ (Keyed(v) => b + Len(d.rest) <= 12)
      BY <2>1, <3>1
    <3>4. Coded(v, o, d.rest, b, M)
      BY <1>4, <1>10
    <3> QED BY <3>2, <3>3, <3>4, CodedModes
  <2>3. Unzips(v, o, d, d.rest)
    BY <1>4, <1>8, <1>9, <1>11, <2>1, <2>2, Zenon DEF Unzips
  <2>4. u \in Ends /\ u.r = d /\ t = inflate(u, d.rest)
    BY <1>5, <1>6, <1>11 DEF Reads
  <2>5. Reads(u, t)
    BY <2>3, <2>4, InflateEnd
  <2>6. Inflates(v, o, d, d.rest, t.r)
    BY <2>3, <2>4, InflateEnd
  <2>7. Reads(s, t)
    BY <1>5, <2>5, Zenon DEF Reads
  <2> QED BY <1>1, <1>4, <1>8, <2>6, <2>7, Zenon DEF Inflates, Arrives
<1>12. CASE "zip" \notin r.mode
  <2>1. t = u
    BY <1>6, <1>12
  <2>2. Codes \ (r.mode \cap {"rc4"}) = Codes \ r.mode
    BY <1>12 DEF Codes
  <2>3. Unzipped(d) = b + Len(cs)
    BY <1>4, <1>8, Zenon DEF Unzipped
  <2>4. ReadUpTo(d) = b + Len(cs)
    <3>1. PICK l \in Nat : l = Len(cs)
      BY DEF Coded
    <3>2. b + l + 0 = b + l
      OBVIOUS
    <3> QED BY <1>1, <1>4, <2>3, <3>1, <3>2, Zenon DEF ReadUpTo
  <2>5. Coded(v, o, d.nbuf, Unzipped(d), {"zip"})
    <3>1. r.nbuf \in Seq(LinkChars)
      BY InFields
    <3> QED BY <1>1, <1>4, <3>1, CodedEmpty
  <2>6. Read(v, o, d)
    BY <1>1, <1>4, <1>8, <1>9, <1>12, <2>2, <2>3, <2>4, <2>5, Zenon DEF Read
  <2>7. Ready(v, o, d)
    BY <1>1, <1>4, Zenon DEF Ready
  <2> QED BY <1>1, <1>4, <1>5, <2>1, <2>4, <2>6, <2>7, Zenon DEF Arrives
<1> QED BY <1>11, <1>12

\* What an end has read does not change how far its negotiation is.
LEMMA KnowsAlike ==
  ASSUME NEW v, NEW e, NEW s, NEW t, NEW n, NEW m, Knows(v, e, s, n, m), Reads(s, t)
  PROVE  Knows(v, e, t, n, m)
<1>1. t.st = s.st /\ t.flags = s.flags /\ t.got = s.got /\ t.w = s.w
  BY DEF Reads
<1>2. Opening(v, e, s, n, m) => Opening(v, e, t, n, m)
  BY <1>1, Zenon DEF Opening
<1>3. Keying(v, e, s, n, m) => Keying(v, e, t, n, m)
  BY <1>1, Zenon DEF Keying
<1>4. Serving(v, e, s, n, m) => Serving(v, e, t, n, m)
  BY <1>1, Zenon DEF Serving
<1> QED BY <1>2, <1>3, <1>4 DEF Knows

\* An end that answered and read on.
LEMMA EndIs ==
  ASSUME NEW v, NEW e, NEW b, NEW p, NEW n, Answered(v, e, b, p, n), NEW t, Reads(p, t),
         Read(v, Other(e), t.r), Ready(v, Other(e), t.r), Len(t.r.parsed) = n
  PROVE  EndOK(v, e, t, b) /\ t.st # "closed"
<1>1. /\ Writes(v, e, p.w, b) /\ Knows(v, e, p, n, Len(p.w.sent)) /\ p.st \notin {"closed", "connecting"}
  BY DEF Answered
<1>2. t \in Ends /\ t.st = p.st /\ t.w = p.w
  BY DEF Reads
<1>3. Knows(v, e, t, n, Len(p.w.sent))
  BY <1>1, KnowsAlike
<1>4. Quiet(t) /\ t.st # "closed"
  BY <1>1, <1>2 DEF Quiet
<1> QED BY <1>1, <1>2, <1>3, <1>4, Zenon DEF EndOK

\* The end e goes on: nothing more is read of the wire.
Goes(v, e, s, b, t) == /\ EndOK(v, e, t, b) /\ ReadUpTo(t.r) = ReadUpTo(s.r)
                       /\ t.st = "closed" <=> s.st = "closed"

\* A turn of dopacket's loop: the end, with all that the line makes it send, and
\* with what follows the line in its new form.
LEMMA StepRead ==
  ASSUME NEW v \in Wants, NEW e \in Sides, NEW b \in Nat, NEW s, EndOK(v, e, s, b), Len(s.r.rest) # 0,
         NEW r, r = gather(s.r),
         NEW t, t = IF Last(r.count).part = "eol" THEN parsed_line(s, v[e], r) ELSE [s EXCEPT !.r = r]
  PROVE  Goes(v, e, s, b, t)
<1>1. /\ s \in Ends /\ Quiet(s) /\ Writes(v, e, s.w, b) /\ Read(v, Other(e), s.r) /\ Ready(v, Other(e), s.r)
      /\ Knows(v, e, s, Len(s.r.parsed), Len(s.w.sent))
  BY DEF EndOK
<1>2. s.st \notin {"closed", "connecting"}
  BY <1>1 DEF Quiet
<1>3. s.r \in Ins
  BY <1>1, EndFields
<1>4. PICK o : o = Other(e)
  OBVIOUS
<1>5. PICK n \in Nat : n = Len(s.r.parsed)
  BY <1>3, InFields
<1>6. Gathers(v, o, s.r, r)
  BY <1>1, <1>3, <1>4, Gathered
<1>7. /\ r \in Ins /\ r.mode = s.r.mode /\ r.parsed = s.r.parsed /\ Coded(v, o, r.count, 2 * n, {})
      /\ Len(r.count) \in {1, 2}
  BY <1>5, <1>6, Zenon DEF Gathers
<1>8. CASE Len(r.count) = 1
  <2>1. Last(r.count).part # "eol"
    BY <1>7, <1>8, HalfLine
  <2>2. t = [s EXCEPT !.r = r]
    BY <2>1
  <2>3. Reads(s, t) /\ t.r = r
    BY <1>1, <1>7, <2>2, ReadsIs
  <2>4. Continues(v, o, s.r, r)
    BY <1>1, <1>3, <1>4, <1>6, <1>8, ReadHalf
  <2>5. Read(v, o, r) /\ ReadUpTo(r) = ReadUpTo(s.r)
    BY <2>4 DEF Continues
  <2>6. Ready(v, o, r)
    BY <1>1, <1>4, <1>7, Zenon DEF Ready
  <2>7. Answered(v, e, b, s, n)
    BY <1>1, <1>2, <1>5, Zenon DEF Answered
  <2>8. Len(t.r.parsed) = n
    BY <1>5, <1>7, <2>3, Zenon
  <2>9. EndOK(v, e, t, b) /\ t.st # "closed"
    BY <1>4, <2>3, <2>5, <2>6, <2>7, <2>8, EndIs
  <2> QED BY <1>2, <2>3, <2>5, <2>9 DEF Goes
<1>9. CASE Len(r.count) = 2
  <2>1. PICK i \in Nat : i = n + 1
    OBVIOUS
  <2>2. LineOf(r.count) = Line(v, o, i) /\ Last(r.count).part = "eol"
    BY <1>7, <1>9, <2>1, WholeLine
  <2>3. PICK q, u, p : /\ q = counted(r) /\ u = [s EXCEPT !.r = q]
                       /\ p = parse_at(u, v[e], Line(v, o, i))
    OBVIOUS
  <2>4. t = next_buffer(p, r.mode)
    BY <2>2, <2>3, Zenon DEF parsed_line
  <2>5. Plain(v, o, s.r)
    BY <1>1, <1>3, <1>4, IsPlain
  <2>6. Continues(v, o, s.r, q)
    BY <1>1, <1>3, <1>4, <1>6, <1>9, <2>3, <2>5, ReadLine
  <2>7. Len(q.parsed) = Len(s.r.parsed) + 1
    BY <1>1, <1>3, <1>4, <1>6, <1>9, <2>3, <2>5, ReadLine
  <2>8. Len(q.count) = 0
    BY <1>1, <1>3, <1>4, <1>6, <1>9, <2>3, <2>5, ReadLine
  <2>9. q \in Ins /\ Read(v, o, q) /\ q.mode = s.r.mode /\ ReadUpTo(q) = ReadUpTo(s.r)
    BY <2>6 DEF Continues
  <2>10. Len(q.parsed) = i
    BY <1>5, <2>1, <2>7
  <2>11. Reads(s, u) /\ u.r = q
    BY <1>1, <2>3, <2>9, ReadsIs
  <2>12. u \in Ends /\ u.st = s.st /\ u.w = s.w
    BY <2>11 DEF Reads
  <2>13. Knows(v, e, u, n, Len(u.w.sent))
    BY <1>1, <1>5, <2>11, <2>12, KnowsAlike
  <2>14. Keyed(v) /\ n = 6 => "rc4" \in u.r.mode
    BY <1>1, <1>5, <2>9, <2>11, Zenon DEF Ready
  <2>15. Writes(v, e, u.w, b) /\ u.st \notin {"closed", "connecting"}
    BY <1>1, <1>2, <2>12
  <2>16. Answered(v, e, b, p, i)
    BY <1>4, <2>1, <2>3, <2>12, <2>13, <2>14, <2>15, Parsed
  <2>17. Turn(v, o, i, q, p.r)
    <3>1. p = parse_at(u, v[e], Line(v, Other(e), i))
      BY <1>4, <2>3, Zenon
    <3>2. Turn(v, Other(e), i, u.r, p.r)
      BY <2>1, <2>12, <2>13, <2>14, <2>15, <3>1, Parsed
    <3> QED BY <1>4, <2>11, <3>2, Zenon
  <2>18. Keyed(v) /\ i = 6 => "rc4" \notin q.mode
    <3>1. "rc4" \in s.r.mode => n >= 6
      BY <1>1, <1>5, Zenon DEF Read
    <3>2. i = 6 => ~ (n >= 6)
      BY <2>1
    <3> QED BY <2>9, <3>1, <3>2, Zenon
  <2>19. Zips(v, o) /\ 2 * i = ZBase(v) => "zip" \notin q.mode
    <3>1. PICK a \in Nat : a = ZBase(v)
      BY ZBaseIs
    <3>2. "zip" \in s.r.mode => 2 * n >= a
      BY <1>1, <1>5, <3>1, Zenon DEF Read
    <3>3. 2 * i = a => ~ (2 * n >= a)
      BY <2>1
    <3> QED BY <2>9, <3>1, <3>2, <3>3, Zenon
  <2>20. p \in Ends
    BY <2>16 DEF Answered
  <2>21. t = next_buffer(p, q.mode)
    BY <1>7, <2>4, <2>9, Zenon
  <2>22. Reads(p, t)
    BY <2>8, <2>9, <2>10, <2>17, <2>18, <2>19, <2>20, <2>21, NextBuffer
  <2>23. Advances(v, o, q, t.r)
    BY <2>8, <2>9, <2>10, <2>17, <2>18, <2>19, <2>20, <2>21, NextBuffer
  <2>24. Read(v, o, t.r) /\ Ready(v, o, t.r) /\ Len(t.r.parsed) = i /\ ReadUpTo(t.r) = ReadUpTo(s.r)
    BY <2>9, <2>10, <2>23, Zenon DEF Advances
  <2>25. EndOK(v, e, t, b) /\ t.st # "closed"
    BY <1>4, <2>16, <2>22, <2>24, EndIs
  <2> QED BY <1>2, <2>24, <2>25 DEF Goes
<1> QED BY <1>7, <1>8, <1>9

\* Data left in nbuf is decompressed.
LEMMA StepContinue ==
  ASSUME NEW v \in Wants, NEW e \in Sides, NEW b \in Nat, NEW s, EndOK(v, e, s, b), Len(s.r.rest) = 0,
         Len(s.r.nbuf) # 0, NEW t, t = inflate(s, s.r.nbuf)
  PROVE  Goes(v, e, s, b, t)
<1>1. /\ s \in Ends /\ Quiet(s) /\ Writes(v, e, s.w, b) /\ Read(v, Other(e), s.r) /\ Ready(v, Other(e), s.r)
      /\ Knows(v, e, s, Len(s.r.parsed), Len(s.w.sent))
  BY DEF EndOK
<1>2. s.st \notin {"closed", "connecting"}
  BY <1>1 DEF Quiet
<1>a. PICK r \in Ins : r = s.r
  BY <1>1, EndFields
<1>b. PICK o : o = Other(e)
  OBVIOUS
<1>3. r = s.r /\ o = Other(e)
  BY <1>a, <1>b
<1>4. /\ Coded(v, o, r.count, 2 * Len(r.parsed), {}) /\ Len(r.count) <= 1
      /\ Coded(v, o, r.nbuf, Unzipped(r), {"zip"})
      /\ "rc4" \in r.mode => Keyed(v) /\ Len(r.parsed) >= 6 /\ ReadUpTo(r) = 12 + r.kin
      /\ "rc4" \notin r.mode => r.kin = 0 /\ (Keyed(v) => Len(r.parsed) <= 6)
      /\ "zip" \in r.mode => /\ Zips(v, o) /\ 2 * Len(r.parsed) >= ZBase(v)
                             /\ Unzipped(r) = ZBase(v) + r.zin
      /\ "zip" \notin r.mode => Len(r.nbuf) = 0
      /\ \A i \in 1 .. Len(r.parsed) : r.parsed[i] = Line(v, o, i)
  BY <1>1, <1>3, Zenon DEF Read
<1>5. "zip" \in r.mode
  BY <1>3, <1>4
<1>6. PICK n \in Nat, c \in Nat : n = Len(r.parsed) /\ c = Len(r.count)
  BY InFields
<1>7. Unzipped(r) = Looked(r)
  <2>1. 2 * n + c + 0 = 2 * n + c
    OBVIOUS
  <2> QED BY <1>3, <1>6, <2>1, Zenon DEF Unzipped, Looked
<1>8. ReadUpTo(r) = Looked(r) + Len(r.nbuf)
  BY <1>7, Zenon DEF ReadUpTo
<1>9. "rc4" \notin r.mode => ~ Keyed(v)
  <2>1. PICK a \in Nat : a = ZBase(v)
    BY ZBaseIs
  <2>2. Keyed(v) => a = 16
    BY <2>1 DEF ZBase
  <2>3. 2 * n >= a
    BY <1>4, <1>5, <1>6, <2>1
  <2>4. Keyed(v) => ~ (n <= 6)
    BY <2>2, <2>3
  <2> QED BY <1>4, <1>6, <2>4, Zenon
<1>10. Unzips(v, o, r, r.nbuf)
  BY <1>4, <1>5, <1>7, <1>8, <1>9, Zenon DEF Unzips
<1>11. Reads(s, t)
  BY <1>1, <1>3, <1>10, InflateEnd
<1>12. Inflates(v, o, r, r.nbuf, t.r)
  BY <1>1, <1>3, <1>10, InflateEnd
<1>13. Read(v, o, t.r) /\ Ready(v, o, t.r) /\ t.r.parsed = r.parsed /\ ReadUpTo(t.r) = ReadUpTo(r)
  BY <1>8, <1>12, Zenon DEF Inflates
<1>14. Answered(v, e, b, s, Len(r.parsed))
  BY <1>1, <1>2, <1>3, Zenon DEF Answered
<1>15. EndOK(v, e, t, b) /\ t.st # "closed"
  BY <1>3, <1>11, <1>13, <1>14, EndIs
<1> QED BY <1>2, <1>3, <1>13, <1>15 DEF Goes

\* How far an end has read.
LEMMA ReadUpToNat ==
  ASSUME NEW r \in Ins PROVE ReadUpTo(r) \in Nat /\ ReadUpTo(r) >= 2 * Len(r.parsed)
<1>1. PICK n \in Nat, c \in Nat, l \in Nat, d \in Nat :
        n = Len(r.parsed) /\ c = Len(r.count) /\ l = Len(r.rest) /\ d = Len(r.nbuf)
  BY InFields
<1>2. ReadUpTo(r) = 2 * n + c + l + d
  BY <1>1, Zenon DEF ReadUpTo, Unzipped, Looked
<1>3. 2 * n + c + l + d \in Nat /\ 2 * n + c + l + d >= 2 * n
  OBVIOUS
<1> QED BY <1>1, <1>2, <1>3, Zenon

\* An end that is not gone, with another w.
LEMMA EndWrites ==
  ASSUME NEW v, NEW e, NEW b, NEW s, EndOK(v, e, s, b), NEW c, NEW u \in Outs, Writes(v, e, u, c), u.mode = s.w.mode,
         NEW t, t = [s EXCEPT !.w = u], Knows(v, e, s, Len(s.r.parsed), Len(u.sent))
  PROVE  EndOK(v, e, t, c) /\ t.r = s.r /\ t.st = s.st
<1>1. /\ s \in Ends /\ Quiet(s) /\ Read(v, Other(e), s.r) /\ Ready(v, Other(e), s.r)
  BY DEF EndOK
<1>2. t \in Ends /\ t.st = s.st /\ t.flags = s.flags /\ t.got = s.got /\ t.r = s.r /\ t.w = u
  BY <1>1 DEF Ends
<1>3. Quiet(t)
  BY <1>1, <1>2, Zenon DEF Quiet
<1>4. Knows(v, e, t, Len(s.r.parsed), Len(u.sent))
  <2>1. Opening(v, e, s, Len(s.r.parsed), Len(u.sent)) => Opening(v, e, t, Len(s.r.parsed), Len(u.sent))
    BY <1>2, Zenon DEF Opening
  <2>2. Keying(v, e, s, Len(s.r.parsed), Len(u.sent)) => Keying(v, e, t, Len(s.r.parsed), Len(u.sent))
    BY <1>2, Zenon DEF Keying
  <2>3. Serving(v, e, s, Len(s.r.parsed), Len(u.sent)) => Serving(v, e, t, Len(s.r.parsed), Len(u.sent))
    BY <1>2, Zenon DEF Serving
  <2> QED BY <2>1, <2>2, <2>3 DEF Knows
<1>5. EndOK(v, e, t, c)
  BY <1>1, <1>2, <1>3, <1>4, Zenon DEF EndOK
<1> QED BY <1>2, <1>5

\* After PING there is only data.
LEMMA DataLine ==
  ASSUME NEW v, NEW e, NEW i \in Nat, i > PingAt(v, e) PROVE Line(v, e, i) = "data"
<1>1. CASE Keyed(v)
  <2>1. PingAt(v, e) \in {8, 9} /\ Agreed(v) = 7 /\ (Zips(v, e) => PingAt(v, e) = 9)
    BY <1>1 DEF PingAt, Agreed
  <2>2. i \notin {1, 2, 3, 4, 5, 6, 7} /\ i # PingAt(v, e) /\ (Zips(v, e) => i # Agreed(v) + 1)
    BY <2>1
  <2> QED BY <2>2 DEF Line
<1>2. CASE ~ Keyed(v)
  <2>1. PingAt(v, e) \in {3, 4} /\ Agreed(v) = 2 /\ (Zips(v, e) => PingAt(v, e) = 4)
    BY <1>2 DEF PingAt, Agreed
  <2>2. i \notin {1, 2} /\ i # PingAt(v, e) /\ (Zips(v, e) => i # Agreed(v) + 1)
    BY <2>1
  <2> QED BY <1>2, <2>2 DEF Line
<1> QED BY <1>1, <1>2

\* A line to an established server.
LEMMA StepSay ==
  ASSUME NEW v \in Wants, NEW e \in Sides, NEW b \in Nat, NEW s, EndOK(v, e, s, b), s.st = "server",
         NEW t, t = send_message(s, "data")
  PROVE  Goes(v, e, s, b, t)
<1>1. /\ s \in Ends /\ Writes(v, e, s.w, b) /\ Knows(v, e, s, Len(s.r.parsed), Len(s.w.sent))
  BY DEF EndOK
<1>2. s.w \in Outs
  BY <1>1, EndFields
<1>3. PICK m \in Nat : m = Len(s.w.sent)
  BY <1>2, OutFields
<1>4. Serving(v, e, s, Len(s.r.parsed), m)
  BY <1>1, <1>3 DEF Knows, Opening, Keying
<1>5. PICK p \in Nat : p = PingAt(v, e) /\ (Keyed(v) => p >= 8)
  BY DEF PingAt, Agreed
<1>6. m >= p
  BY <1>4, <1>5 DEF Serving
<1>7. Line(v, e, m + 1) = "data"
  BY <1>5, <1>6, DataLine
<1>8. PICK u : u = written(s.w, "data")
  OBVIOUS
<1>9. Formed(v, e, s.w)
  <2>1. Stands(v, e, s, b, m, s.w.mode)
    BY <1>1, <1>3, StandsAt
  <2>2. "rc4" \notin s.w.mode => (Keyed(v) => m <= 6)
    BY <2>1, FormOf, ZenonT(40)
  <2>3. "zip" \notin s.w.mode => (Zips(v, e) => m <= Agreed(v) + 1)
    BY <2>1, FormOf
  <2>4. Keyed(v) => ~ (m <= 6)
    BY <1>5, <1>6
  <2>5. Zips(v, e) => ~ (m <= Agreed(v) + 1)
    <3>1. PICK a \in Nat : a = Agreed(v)
      BY ZBaseIs
    <3>2. Zips(v, e) => p = a + 2
      BY <1>5, <3>1, Zenon DEF PingAt
    <3>3. p = a + 2 => ~ (m <= a + 1)
      BY <1>6
    <3> QED BY <3>1, <3>2, <3>3, Zenon
  <2> QED BY <2>2, <2>3, <2>4, <2>5, Zenon DEF Formed
<1>10. Wrote(v, e, s.w, b, u)
  BY <1>1, <1>2, <1>3, <1>7, <1>8, <1>9, Written
<1>11. u \in Outs /\ Writes(v, e, u, b) /\ u.mode = s.w.mode /\ Len(u.sent) = m + 1
  BY <1>3, <1>10 DEF Wrote
<1>12. t = [s EXCEPT !.w = u]
  BY <1>8 DEF send_message
<1>13. Knows(v, e, s, Len(s.r.parsed), Len(u.sent))
  <2>1. m + 1 >= p
    BY <1>6
  <2> QED BY <1>4, <1>5, <1>11, <2>1, Zenon DEF Knows, Serving
<1>14. EndOK(v, e, t, b) /\ t.r = s.r /\ t.st = s.st
  BY <1>11, <1>12, <1>13, EndWrites
<1> QED BY <1>14 DEF Goes

\* send_queued forces out what is held back.
LEMMA StepFlush ==
  ASSUME NEW v \in Wants, NEW e \in Sides, NEW b \in Nat, NEW s, EndOK(v, e, s, b), "zip" \in s.w.mode,
         NEW t, t = [s EXCEPT !.w = deflated(@)]
  PROVE  Goes(v, e, s, b, t)
<1>1. /\ s \in Ends /\ Writes(v, e, s.w, b) /\ Knows(v, e, s, Len(s.r.parsed), Len(s.w.sent))
  BY DEF EndOK
<1>2. s.w \in Outs
  BY <1>1, EndFields
<1>3. PICK u : u = deflated(s.w)
  OBVIOUS
<1>4. u \in Outs /\ Writes(v, e, u, b) /\ u.sent = s.w.sent /\ u.mode = s.w.mode
  <2>1. Flushed(v, e, s.w, b, u)
    BY <1>1, <1>2, <1>3, WroteOut
  <2> QED BY <2>1 DEF Flushed
<1>5. t = [s EXCEPT !.w = u]
  BY <1>3
<1>6. Knows(v, e, s, Len(s.r.parsed), Len(u.sent))
  BY <1>1, <1>4
<1>7. EndOK(v, e, t, b) /\ t.r = s.r /\ t.st = s.st
  BY <1>4, <1>5, <1>6, EndWrites
<1> QED BY <1>7 DEF Goes

\* The other end reads some of what was written.
LEMMA StepTaken ==
  ASSUME NEW v \in Wants, NEW e, NEW b \in Nat, NEW s, EndOK(v, e, s, b), NEW k \in 0 .. Len(s.w.wire),
         NEW t, t = [s EXCEPT !.w = taken(@, k)], NEW c, c = b + k
  PROVE  EndOK(v, e, t, c) /\ t.r = s.r /\ t.st = s.st
<1>1. /\ s \in Ends /\ Writes(v, e, s.w, b) /\ Knows(v, e, s, Len(s.r.parsed), Len(s.w.sent))
  BY DEF EndOK
<1>2. s.w \in Outs
  BY <1>1, EndFields
<1>3. PICK u : u = taken(s.w, k)
  OBVIOUS
<1>a. Writes(v, e, u, c)
  BY <1>1, <1>2, <1>3, WritesTaken
<1>4. PICK x : x = SubSeq(s.w.wire, k + 1, Len(s.w.wire))
  OBVIOUS
<1>5. s.w.wire \in Seq(LinkChars) /\ Len(s.w.wire) \in Nat /\ k \in Nat
  BY <1>2, OutFields
<1>6. x \in Seq(LinkChars)
  BY <1>4, <1>5, AfterFront
<1>7. u = [s.w EXCEPT !.wire = x]
  BY <1>3, <1>4 DEF taken
<1>8. u \in Outs /\ u.mode = s.w.mode /\ u.sent = s.w.sent
  BY <1>2, <1>6, <1>7 DEF Outs
<1>9. t = [s EXCEPT !.w = u]
  BY <1>3
<1>10. Knows(v, e, s, Len(s.r.parsed), Len(u.sent))
  BY <1>1, <1>8
<1>11. EndOK(v, e, t, c)
  BY <1>a, <1>8, <1>9, <1>10, EndWrites, Zenon
<1> QED BY <1>1, <1>9, <1>11 DEF Ends

\* The end e has read n characters more than c.
Came(v, e, b, c, n, t) == EndOK(v, e, t, b) /\ ReadUpTo(t.r) = c + n /\ t.st # "closed"

\* This end reads it.
LEMMA StepArrived ==
  ASSUME NEW v \in Wants, NEW e \in Sides, NEW b \in Nat, NEW s, EndOK(v, e, s, b),
         s.st \notin {"closed", "connecting"}, Len(s.r.rest) = 0, Len(s.r.nbuf) = 0,
         NEW c \in Nat, c = ReadUpTo(s.r), NEW cs, Coded(v, Other(e), cs, c, Codes), NEW t, t = arrived(s, cs)
  PROVE  Came(v, e, b, c, Len(cs), t)
<1>1. /\ s \in Ends /\ Quiet(s) /\ Writes(v, e, s.w, b) /\ Read(v, Other(e), s.r) /\ Ready(v, Other(e), s.r)
      /\ Knows(v, e, s, Len(s.r.parsed), Len(s.w.sent))
  BY DEF EndOK
<1>2. PICK o : o = Other(e)
  OBVIOUS
<1>3. Read(v, o, s.r) /\ Ready(v, o, s.r) /\ Coded(v, o, cs, c, Codes)
  BY <1>1, <1>2
<1>4. Reads(s, t)
  BY <1>1, <1>3, Arrived
<1>5. Arrives(v, o, s.r, Len(cs), t.r)
  BY <1>1, <1>3, Arrived
<1>6. /\ Read(v, o, t.r) /\ Ready(v, o, t.r) /\ t.r.parsed = s.r.parsed
      /\ ReadUpTo(t.r) = c + Len(cs)
  BY <1>5, Zenon DEF Arrives
<1>7. Answered(v, e, b, s, Len(s.r.parsed))
  BY <1>1, Zenon DEF Answered
<1>8. EndOK(v, e, t, b) /\ t.st # "closed"
  BY <1>2, <1>4, <1>6, <1>7, EndIs
<1> QED BY <1>6, <1>8 DEF Came

\* completed_connection sends the first line.
LEMMA StepCompleted ==
  ASSUME NEW v \in Wants, NEW b \in Nat, NEW s, EndOK(v, "con", s, b), s.st = "connecting",
         NEW t, t = send_message(to_flags(to_state(s, "handshake"), dokey(v["con"]) \cup dozip(v["con"])),
                                 Greeting(v["con"]))
  PROVE  Goes(v, "con", s, b, t)
<1>1. PICK e : e = "con"
  OBVIOUS
<1>2. /\ s \in Ends /\ Writes(v, e, s.w, b) /\ Read(v, Other(e), s.r) /\ Ready(v, Other(e), s.r)
      /\ Knows(v, e, s, Len(s.r.parsed), Len(s.w.sent))
  BY <1>1 DEF EndOK
<1>3. Opening(v, e, s, Len(s.r.parsed), Len(s.w.sent))
  BY <1>2 DEF Knows, Keying, Serving
<1>4. Len(s.r.parsed) = 0 /\ Len(s.w.sent) = 0 /\ s.got = {}
  BY <1>3 DEF Opening
<1>5. PICK g, h : g = to_state(s, "handshake") /\ h = to_flags(g, Caps(v, e))
  OBVIOUS
<1>6. g \in Ends /\ g.st = "handshake" /\ g.got = s.got /\ g.w = s.w /\ g.r = s.r
  <2>1. "handshake" \in LinkStates
    BY DEF LinkStates
  <2> QED BY <1>2, <1>5, <2>1, Stated
<1>7. h \in Ends /\ h.st = "handshake" /\ h.flags = Caps(v, e) /\ h.got = s.got /\ h.w = s.w /\ h.r = s.r
  <2>1. Caps(v, e) \in SUBSET LinkFlags
    BY CapsIs
  <2> QED BY <1>5, <1>6, <2>1, Flagged
<1>8. PICK m \in Nat, k \in Nat : m = 0 /\ k = 1
  OBVIOUS
<1>9. Stands(v, e, h, b, m, h.w.mode)
  BY <1>2, <1>4, <1>7, <1>8, StandsAt
<1>10. m < 6 /\ m <= Agreed(v)
  BY <1>8, ZBaseIs
<1>11. h.w.mode = {}
  BY <1>9, <1>10, FormPlain
<1>12. Fits(v, e, m, {})
  BY <1>10, FitsPlain
<1>13. Greeting(v[e]) = Line(v, e, m + 1) /\ k = m + 1
  BY <1>8, FirstLines
<1>14. t = send_message(h, Greeting(v[e]))
  BY <1>1, <1>5, Zenon DEF Caps
<1>15. Stands(v, e, t, b, k, {}) /\ Same(h, t)
  BY <1>9, <1>11, <1>12, <1>13, <1>14, Sending
<1>16. t \in Ends /\ Writes(v, e, t.w, b) /\ Len(t.w.sent) = 1
  BY <1>8, <1>15 DEF Stands
<1>17. t.st = "handshake" /\ t.flags = Caps(v, e) /\ t.got = {} /\ t.r = s.r
  BY <1>4, <1>7, <1>15 DEF Same
<1>18. Knows(v, e, t, 0, 1)
  BY <1>1, <1>17 DEF Knows, Opening
<1>19. Quiet(t)
  BY <1>17 DEF Quiet
<1>20. EndOK(v, e, t, b)
  BY <1>2, <1>4, <1>16, <1>17, <1>18, <1>19, Zenon DEF EndOK
<1> QED BY <1>1, <1>17, <1>20 DEF Goes

\* connect_server and accept_connection at their ends.
LEMMA StepConnect ==
  ASSUME NEW v \in Wants, NEW e \in Sides, NEW b \in Nat, NEW s, EndOK(v, e, s, b), s.st = "closed",
         NEW t, t = to_state(s, IF e = "con" THEN "connecting" ELSE "unknown")
  PROVE  EndOK(v, e, t, b) /\ t.r = s.r /\ t.st # "closed"
<1>1. /\ s \in Ends /\ Quiet(s) /\ Writes(v, e, s.w, b) /\ Read(v, Other(e), s.r) /\ Ready(v, Other(e), s.r)
      /\ Knows(v, e, s, Len(s.r.parsed), Len(s.w.sent))
  BY DEF EndOK
<1>2. PICK x : x = IF e = "con" THEN "connecting" ELSE "unknown"
  OBVIOUS
<1>3. x \in LinkStates /\ x # "closed" /\ (e = "con" => x = "connecting") /\ (e = "acc" => x = "unknown")
  BY <1>2 DEF LinkStates
<1>4. t \in Ends /\ t.st = x /\ t.flags = s.flags /\ t.got = s.got /\ t.w = s.w /\ t.r = s.r
  BY <1>1, <1>2, <1>3, Stated
<1>5. Opening(v, e, s, Len(s.r.parsed), Len(s.w.sent))
  BY <1>1 DEF Knows, Keying, Serving
<1>6. Len(s.r.parsed) = 0 /\ Len(s.w.sent) = 0 /\ s.got = {} /\ s.flags = {}
  BY <1>5 DEF Opening
<1>7. Knows(v, e, t, 0, 0)
  BY <1>3, <1>4, <1>6 DEF Knows, Opening, Sides
<1>8. Quiet(t)
  BY <1>1, <1>4, Zenon DEF Quiet
<1>9. EndOK(v, e, t, b)
  BY <1>1, <1>4, <1>6, <1>7, <1>8, Zenon DEF EndOK
<1> QED BY <1>3, <1>4, <1>9

\* The invariant holds of a link that is closed.
LEMMA LinkInitInv ==
  ASSUME LinkInit PROVE LinkInv
<1>1. want \in Wants /\ end = [e \in Sides |-> NewEnd]
  BY DEF LinkInit, Wants
<1>2. PICK z, n : z = << >> /\ n = NewEnd
  OBVIOUS
<1>3. z \in Seq(LinkChars) /\ z \in Seq(Lines) /\ Len(z) = 0
  BY <1>2
<1>4. PICK w, r : /\ w = [mode |-> {}, kout |-> 0, zout |-> 0, zbuf |-> z, wire |-> z, sent |-> z]
                  /\ r = [mode |-> {}, kin |-> 0, zin |-> 0, rest |-> z, nbuf |-> z, count |-> z, parsed |-> z]
  OBVIOUS
<1>5. w \in Outs /\ r \in Ins
  BY <1>3, <1>4 DEF Outs, Ins
<1>6. n = [st |-> "closed", flags |-> {}, got |-> {}, w |-> w, r |-> r]
  BY <1>2, <1>4 DEF NewEnd
<1>7. n \in Ends /\ n.st = "closed" /\ n.flags = {} /\ n.got = {} /\ n.w = w /\ n.r = r
  BY <1>5, <1>6 DEF Ends, LinkStates, LinkFlags
<1>8. ReadUpTo(r) = 0 /\ Looked(r) = 0 /\ Unzipped(r) = 0
  BY <1>3, <1>4 DEF ReadUpTo, Looked, Unzipped
<1>9. ASSUME NEW e \in Sides PROVE EndOK(want, e, n, 0)
  <2>1. Quiet(n)
    BY <1>3, <1>4, <1>7 DEF Quiet
  <2>2. Knows(want, e, n, 0, 0)
    BY <1>7 DEF Knows, Opening
  <2>3. \A o, b, M : Coded(want, o, z, b, M)
    BY <1>3, CodedEmpty
  <2>4. PICK a \in Nat : a = ZBase(want) /\ a # 0
    BY DEF ZBase
  <2>5. /\ w.mode = {} /\ w.kout = 0 /\ w.zout = 0 /\ w.zbuf = z /\ w.wire = z /\ w.sent = z
        /\ r.mode = {} /\ r.kin = 0 /\ r.zin = 0 /\ r.rest = z /\ r.nbuf = z /\ r.count = z /\ r.parsed = z
    BY <1>4
  <2>6. /\ 0 + 0 + 0 = 2 * 0 /\ 0 <= 6 /\ 2 * 0 <= a /\ 0 <= 1 /\ 2 * 0 # a
        /\ \A i \in 1 .. 0 : z[i] = Line(want, e, i) /\ z[i] = Line(want, Other(e), i)
    BY <2>4
  <2>7. Writes(want, e, w, 0)
    <3>1. Len(w.wire) = 0 /\ Len(w.zbuf) = 0 /\ Len(w.sent) = 0
      BY <1>3, <2>5
    <3>2. Coded(want, e, w.wire, 0, Codes) /\ Coded(want, e, w.zbuf, 0 + Len(w.wire), {})
      BY <2>3, <2>5, Zenon
    <3>3. /\ 0 + Len(w.wire) + Len(w.zbuf) = 2 * Len(w.sent) /\ Len(w.sent) <= 6
          /\ 2 * Len(w.sent) <= ZBase(want)
      BY <2>4, <2>6, <3>1
    <3>4. \A i \in 1 .. Len(w.sent) : w.sent[i] = Line(want, e, i)
      BY <2>5, <2>6, <3>1, Zenon
    <3>5. "rc4" \notin w.mode /\ "zip" \notin w.mode
      BY <2>5
    <3> QED BY <2>5, <3>1, <3>2, <3>3, <3>4, <3>5, Zenon DEF Writes
  <2>8. Read(want, Other(e), r)
    <3>1. Len(r.rest) = 0 /\ Len(r.nbuf) = 0 /\ Len(r.count) = 0 /\ Len(r.parsed) = 0
      BY <1>3, <2>5
    <3>2. /\ Coded(want, Other(e), r.count, 2 * Len(r.parsed), {})
          /\ Coded(want, Other(e), r.rest, Looked(r), Codes \ r.mode)
          /\ Coded(want, Other(e), r.nbuf, Unzipped(r), {"zip"})
      BY <2>3, <2>5, Zenon
    <3>3. Len(r.count) <= 1 /\ Len(r.parsed) <= 6 /\ 2 * Len(r.parsed) <= ZBase(want)
      BY <2>4, <2>6, <3>1
    <3>4. \A i \in 1 .. Len(r.parsed) : r.parsed[i] = Line(want, Other(e), i)
      BY <2>5, <2>6, <3>1, Zenon
    <3>5. "rc4" \notin r.mode /\ "zip" \notin r.mode
      BY <2>5
    <3> QED BY <2>5, <3>1, <3>2, <3>3, <3>4, <3>5, Zenon DEF Read
  <2>9. Ready(want, Other(e), r)
    <3>1. Len(r.parsed) = 0 /\ 2 * Len(r.parsed) # ZBase(want)
      BY <1>3, <2>4, <2>5, <2>6
    <3>2. Len(r.parsed) # 6
      BY <3>1
    <3> QED BY <3>1, <3>2, Zenon DEF Ready
  <2> QED BY <1>3, <1>7, <2>1, <2>2, <2>5, <2>7, <2>8, <2>9, Zenon DEF EndOK
<1>10. end["con"] = n /\ end["acc"] = n /\ DOMAIN end = Sides /\ \A e \in Sides : end[e] = n /\ end[Other(e)] = n
  BY <1>1, <1>2 DEF Sides, Other
<1> QED BY <1>1, <1>7, <1>8, <1>9, <1>10, Zenon DEF LinkInv

\* Each end has one other.
LEMMA Others ==
  ASSUME NEW e \in Sides
  PROVE  Other(e) \in Sides /\ Other(e) # e /\ Other(Other(e)) = e /\ \A f \in Sides : f = e \/ f = Other(e)
BY DEF Sides, Other

\* Either end of a link is as it should be.
LEMMA LinkEnd ==
  ASSUME LinkInv, NEW e \in Sides
  PROVE  /\ want \in Wants /\ EndOK(want, e, end[e], ReadUpTo(end[Other(e)].r)) /\ DOMAIN end = Sides
         /\ end[e] \in Ends /\ ReadUpTo(end[e].r) \in Nat
<1>1. want \in Wants /\ EndOK(want, e, end[e], ReadUpTo(end[Other(e)].r)) /\ DOMAIN end = Sides
  BY DEF LinkInv
<1>2. end[e] \in Ends
  BY <1>1 DEF EndOK
<1>3. end[e].r \in Ins
  BY <1>2, EndFields
<1> QED BY <1>1, <1>2, <1>3, ReadUpToNat

\* Two ends that are as they should be make up a link that is.
LEMMA LinkMade ==
  ASSUME want' \in Wants, NEW e \in Sides, DOMAIN end' = Sides, NEW s, NEW t, s = end'[e], t = end'[Other(e)],
         EndOK(want', e, s, ReadUpTo(t.r)), EndOK(want', Other(e), t, ReadUpTo(s.r)),
         s.st = "closed" <=> t.st = "closed"
  PROVE  LinkInv'
<1>1. (e = "con" /\ Other(e) = "acc") \/ (e = "acc" /\ Other(e) = "con")
  BY DEF Sides, Other
<1>2. end'["con"].st = "closed" <=> end'["acc"].st = "closed"
  BY <1>1
<1>3. \A f \in Sides : EndOK(want', f, end'[f], ReadUpTo(end'[Other(f)].r))
  BY Others
<1> QED BY <1>2, <1>3, Zenon DEF LinkInv

\* Only the end e changes.
LEMMA LinkGoes ==
  ASSUME LinkInv, NEW e \in Sides, NEW s, At(e, s), Goes(want, e, end[e], ReadUpTo(end[Other(e)].r), s)
  PROVE  LinkInv'
<1>1. Other(e) \in Sides /\ Other(e) # e /\ Other(Other(e)) = e
  BY Others
<1>2. want \in Wants /\ DOMAIN end = Sides /\ EndOK(want, Other(e), end[Other(e)], ReadUpTo(end[e].r))
  BY <1>1, LinkEnd
<1>3. /\ EndOK(want, e, s, ReadUpTo(end[Other(e)].r)) /\ ReadUpTo(s.r) = ReadUpTo(end[e].r)
      /\ s.st = "closed" <=> end[e].st = "closed"
  BY DEF Goes
<1>4. end' = [end EXCEPT ![e] = s] /\ want' = want
  BY DEF At
<1>5. DOMAIN end' = Sides /\ end'[e] = s /\ end'[Other(e)] = end[Other(e)]
  BY <1>1, <1>2, <1>4
<1>6. end[e].st = "closed" <=> end[Other(e)].st = "closed"
  BY DEF LinkInv, Sides, Other
<1>7. PICK t : t = end[Other(e)]
  OBVIOUS
<1>8. EndOK(want', e, s, ReadUpTo(t.r)) /\ EndOK(want', Other(e), t, ReadUpTo(s.r))
  BY <1>2, <1>3, <1>4, <1>7, Zenon
<1>9. s.st = "closed" <=> t.st = "closed"
  BY <1>3, <1>6, <1>7
<1>10. s = end'[e] /\ t = end'[Other(e)] /\ want' \in Wants
  BY <1>2, <1>4, <1>5, <1>7
<1> QED BY <1>5, <1>8, <1>9, <1>10, LinkMade

\* The step of connect_server keeps the invariant.
LEMMA LinkConnects ==
  ASSUME LinkInv, connect_server PROVE LinkInv'
<1>1. PICK e \in Sides : e = "con"
  BY DEF Sides
<1>2. Other(e) = "acc" /\ Other(e) \in Sides /\ Other(Other(e)) = e /\ Other(e) # e
  BY <1>1, Others DEF Other
<1>3. PICK a, c : a = end[e] /\ c = end[Other(e)]
  OBVIOUS
<1>4. a.st = "closed" /\ c.st = "closed"
  BY <1>1, <1>2, <1>3 DEF connect_server, LinkInv
<1>5. want \in Wants /\ EndOK(want, e, a, ReadUpTo(c.r)) /\ ReadUpTo(a.r) \in Nat
  BY <1>3, LinkEnd
<1>6. EndOK(want, Other(e), c, ReadUpTo(a.r)) /\ ReadUpTo(c.r) \in Nat
  BY <1>2, <1>3, LinkEnd
<1>7. PICK s, t : /\ s = to_state(a, IF e = "con" THEN "connecting" ELSE "unknown")
                  /\ t = to_state(c, IF Other(e) = "con" THEN "connecting" ELSE "unknown")
  OBVIOUS
<1>8. EndOK(want, e, s, ReadUpTo(c.r)) /\ s.r = a.r /\ s.st # "closed"
  BY <1>4, <1>5, <1>6, <1>7, StepConnect
<1>9. EndOK(want, Other(e), t, ReadUpTo(a.r)) /\ t.r = c.r /\ t.st # "closed"
  BY <1>2, <1>4, <1>5, <1>6, <1>7, StepConnect
<1>10. DOMAIN end' = Sides /\ s = end'[e] /\ t = end'[Other(e)] /\ want' = want
  BY <1>2, <1>3, <1>7 DEF connect_server
<1>11. EndOK(want', e, s, ReadUpTo(t.r)) /\ EndOK(want', Other(e), t, ReadUpTo(s.r)) /\ want' \in Wants
  BY <1>5, <1>8, <1>9, <1>10, Zenon
<1> QED BY <1>8, <1>9, <1>10, <1>11, LinkMade

\* So does read_server, for any number of characters.
LEMMA LinkReadsOn ==
  ASSUME LinkInv, NEW e \in Sides, NEW k, read_server(e, k) PROVE LinkInv'
<1>1. Other(e) \in Sides /\ Other(Other(e)) = e /\ Other(e) # e
  BY Others
<1>2. PICK a, c : a = end[e] /\ c = end[Other(e)]
  OBVIOUS
<1>3. /\ a.st \notin {"closed", "connecting", "gone"} /\ a.r.rest = << >> /\ a.r.nbuf = << >>
      /\ k \in 1 .. Len(c.w.wire) /\ want' = want
      /\ end' = [f \in Sides |-> IF f = e THEN arrived(a, SubSeq(c.w.wire, 1, k))
                                 ELSE [end[f] EXCEPT !.w = taken(@, k)]]
  BY <1>2, Zenon DEF read_server, Waits
<1>4. want \in Wants /\ EndOK(want, e, a, ReadUpTo(c.r)) /\ ReadUpTo(a.r) \in Nat
  BY <1>2, LinkEnd
<1>5. EndOK(want, Other(e), c, ReadUpTo(a.r)) /\ ReadUpTo(c.r) \in Nat /\ c \in Ends
  BY <1>1, <1>2, LinkEnd
<1>6. PICK b \in Nat, d \in Nat : b = ReadUpTo(c.r) /\ d = ReadUpTo(a.r)
  BY <1>4, <1>5
<1>7. PICK cs, s, t : cs = SubSeq(c.w.wire, 1, k) /\ s = arrived(a, cs) /\ t = [c EXCEPT !.w = taken(@, k)]
  OBVIOUS
<1>8. c.w.wire \in Seq(LinkChars) /\ Len(c.w.wire) \in Nat
  BY <1>5, EndFields, OutFields
<1>9. k \in Nat /\ k \in 0 .. Len(c.w.wire)
  BY <1>3, <1>8
<1>10. Len(cs) = k
  BY <1>7, <1>8, <1>9
<1>11. Coded(want, Other(e), cs, d, Codes)
  <2>1. Writes(want, Other(e), c.w, d)
    BY <1>5, <1>6 DEF EndOK
  <2>2. Coded(want, Other(e), c.w.wire, d, Codes)
    BY <2>1 DEF Writes
  <2> QED BY <1>7, <1>9, <2>2, CodedFront
<1>12. PICK h : h = d + k
  OBVIOUS
<1>13. Came(want, e, b, d, Len(cs), s)
  <2>1. Len(a.r.rest) = 0 /\ Len(a.r.nbuf) = 0 /\ a.st \notin {"closed", "connecting"}
    BY <1>3
  <2>2. EndOK(want, e, a, b)
    BY <1>4, <1>6
  <2> QED BY <1>4, <1>6, <1>7, <1>11, <2>1, <2>2, StepArrived
<1>14. EndOK(want, e, s, b) /\ ReadUpTo(s.r) = h /\ s.st # "closed"
  BY <1>10, <1>12, <1>13 DEF Came
<1>16. EndOK(want, Other(e), t, h) /\ t.r = c.r /\ t.st = c.st
  BY <1>4, <1>5, <1>6, <1>7, <1>9, <1>12, StepTaken
<1>17. c.st # "closed"
  <2>1. a.st = "closed" <=> c.st = "closed"
    BY <1>2 DEF LinkInv, Sides, Other
  <2> QED BY <1>3, <2>1
<1>18. DOMAIN end' = Sides /\ s = end'[e] /\ t = end'[Other(e)]
  BY <1>1, <1>2, <1>3, <1>7
<1>19. EndOK(want', e, s, ReadUpTo(t.r)) /\ EndOK(want', Other(e), t, ReadUpTo(s.r)) /\ want' \in Wants
  BY <1>3, <1>4, <1>6, <1>14, <1>16, Zenon
<1>20. s.st = "closed" <=> t.st = "closed"
  BY <1>14, <1>16, <1>17
<1> QED BY <1>18, <1>19, <1>20, LinkMade

\* The sequence of length 0.
LEMMA EmptyIs ==
  ASSUME NEW S, NEW s \in Seq(S) PROVE s = << >> <=> Len(s) = 0
OBVIOUS

\* Every step keeps the invariant.
LEMMA LinkKept ==
  ASSUME LinkInv, [LinkNext]_linkVars PROVE LinkInv'
<1>1. ASSUME UNCHANGED linkVars PROVE LinkInv'
  BY <1>1, Zenon DEF linkVars, LinkInv
<1>2. ASSUME connect_server PROVE LinkInv'
  BY <1>2, LinkConnects
<1>a. ASSUME NEW e \in Sides
      PROVE  /\ want \in Wants /\ EndOK(want, e, end[e], ReadUpTo(end[Other(e)].r))
             /\ ReadUpTo(end[Other(e)].r) \in Nat
             /\ end[e].r.rest \in Seq(LinkChars) /\ end[e].r.nbuf \in Seq(LinkChars)
  <2>1. want \in Wants /\ EndOK(want, e, end[e], ReadUpTo(end[Other(e)].r)) /\ end[e] \in Ends
    BY LinkEnd
  <2>2. Other(e) \in Sides
    BY Others
  <2>3. ReadUpTo(end[Other(e)].r) \in Nat
    BY <2>2, LinkEnd
  <2>4. end[e].r \in Ins
    BY <2>1, EndFields
  <2> QED BY <2>1, <2>3, <2>4, InFields
<1>3. ASSUME completed_connection PROVE LinkInv'
  <2>1. PICK e \in Sides : e = "con"
    BY DEF Sides
  <2>2. PICK s, b, t : /\ s = end[e] /\ b = ReadUpTo(end[Other(e)].r)
                       /\ t = send_message(to_flags(to_state(s, "handshake"), dokey(want["con"]) \cup dozip(want["con"])),
                                           Greeting(want["con"]))
    OBVIOUS
  <2>3. s.st = "connecting" /\ At(e, t)
    BY <1>3, <2>1, <2>2, Zenon DEF completed_connection
  <2>4. want \in Wants /\ EndOK(want, "con", s, b) /\ b \in Nat
    BY <1>a, <2>1, <2>2
  <2>5. Goes(want, "con", s, b, t)
    BY <2>2, <2>3, <2>4, StepCompleted
  <2> QED BY <2>1, <2>2, <2>3, <2>5, LinkGoes
<1>4. ASSUME NEW e \in Sides, LinkReads(e) PROVE LinkInv'
  BY <1>4, LinkReadsOn DEF LinkReads
<1>5. ASSUME NEW e \in Sides, dopacket(e) PROVE LinkInv'
  <2>1. PICK s, b : s = end[e] /\ b = ReadUpTo(end[Other(e)].r)
    OBVIOUS
  <2>2. PICK r, t : /\ r = gather(s.r)
                    /\ t = IF Last(r.count).part = "eol" THEN parsed_line(s, want[e], r) ELSE [s EXCEPT !.r = r]
    OBVIOUS
  <2>3. s.r.rest # << >> /\ At(e, t)
    BY <1>5, <2>1, <2>2, Zenon DEF dopacket
  <2>4. want \in Wants /\ EndOK(want, e, s, b) /\ b \in Nat /\ s.r.rest \in Seq(LinkChars)
    BY <1>a, <2>1
  <2>5. Len(s.r.rest) # 0
    BY <2>3, <2>4, EmptyIs
  <2>6. Goes(want, e, s, b, t)
    BY <2>2, <2>4, <2>5, StepRead
  <2> QED BY <2>1, <2>3, <2>6, LinkGoes
<1>6. ASSUME NEW e \in Sides, zcontinue(e) PROVE LinkInv'
  <2>1. PICK s, b, t : s = end[e] /\ b = ReadUpTo(end[Other(e)].r) /\ t = inflate(s, s.r.nbuf)
    OBVIOUS
  <2>2. s.r.rest = << >> /\ s.r.nbuf # << >> /\ At(e, t)
    BY <1>6, <2>1, Zenon DEF zcontinue
  <2>3. /\ want \in Wants /\ EndOK(want, e, s, b) /\ b \in Nat
        /\ s.r.rest \in Seq(LinkChars) /\ s.r.nbuf \in Seq(LinkChars)
    BY <1>a, <2>1
  <2>4. Len(s.r.rest) = 0 /\ Len(s.r.nbuf) # 0
    BY <2>2, <2>3, EmptyIs
  <2>5. Goes(want, e, s, b, t)
    BY <2>1, <2>3, <2>4, StepContinue
  <2> QED BY <2>1, <2>2, <2>5, LinkGoes
<1>7. ASSUME NEW e \in Sides, say(e) PROVE LinkInv'
  <2>1. PICK s, b, t : s = end[e] /\ b = ReadUpTo(end[Other(e)].r) /\ t = send_message(s, "data")
    OBVIOUS
  <2>2. s.st = "server" /\ At(e, t)
    BY <1>7, <2>1, Zenon DEF say
  <2>3. want \in Wants /\ EndOK(want, e, s, b) /\ b \in Nat
    BY <1>a, <2>1
  <2>4. Goes(want, e, s, b, t)
    BY <2>1, <2>2, <2>3, StepSay
  <2> QED BY <2>1, <2>2, <2>4, LinkGoes
<1>8. ASSUME NEW e \in Sides, send_queued(e) PROVE LinkInv'
  <2>1. PICK s, b, t : /\ s = end[e] /\ b = ReadUpTo(end[Other(e)].r)
                       /\ t = [s EXCEPT !.w = deflated(@)]
    OBVIOUS
  <2>2. "zip" \in s.w.mode /\ At(e, t)
    BY <1>8, <2>1, Zenon DEF send_queued
  <2>3. want \in Wants /\ EndOK(want, e, s, b) /\ b \in Nat
    BY <1>a, <2>1
  <2>4. Goes(want, e, s, b, t)
    BY <2>1, <2>2, <2>3, StepFlush
  <2> QED BY <2>1, <2>2, <2>4, LinkGoes
<1> QED BY <1>1, <1>2, <1>3, <1>4, <1>5, <1>6, <1>7, <1>8 DEF LinkNext

\* The invariant has what the link promises: an end knows a state of the negotiation
\* that is not gone, and what it parsed and what was sent are the same lines.
LEMMA LinkInvTransparent ==
  ASSUME LinkInv PROVE LinkTransparent
<1>1. SUFFICES ASSUME NEW e \in Sides
               PROVE  /\ end[e].st # "gone" /\ IsPrefix(end[e].r.parsed, end[Other(e)].w.sent)
                      /\ Len(end[e].w.zbuf) <= ZipMax
  BY DEF LinkTransparent
<1>2. Other(e) \in Sides /\ Other(Other(e)) = e
  BY Others
<1>3. PICK s, t : s = end[e] /\ t = end[Other(e)]
  OBVIOUS
<1>4. EndOK(want, e, s, ReadUpTo(t.r)) /\ s \in Ends /\ ReadUpTo(s.r) \in Nat
  BY <1>3, LinkEnd
<1>5. EndOK(want, Other(e), t, ReadUpTo(s.r)) /\ t \in Ends
  BY <1>2, <1>3, LinkEnd
<1>6. s.st # "gone"
  BY <1>4 DEF EndOK, Knows, Opening, Keying, Serving
<1>7. s.r \in Ins /\ s.w \in Outs /\ t.w \in Outs
  BY <1>4, <1>5, EndFields
<1>8. Len(s.w.zbuf) <= ZipMax
  <2>1. Len(s.w.zbuf) = 0 \/ Len(s.w.zbuf) < ZipMax - LineRoom
    BY <1>4 DEF EndOK, Writes
  <2>2. Len(s.w.zbuf) \in Nat
    BY <1>7, OutFields
  <2>3. ZipMax \in Nat
    BY LinkStreamAssumption
  <2> QED BY <2>1, <2>2, <2>3 DEF LineRoom
<1>9. PICK x, y : x = s.r.parsed /\ y = t.w.sent
  OBVIOUS
<1>10. x \in Seq(Lines) /\ y \in Seq(Lines)
  BY <1>7, <1>9, InFields, OutFields
<1>11. PICK n \in Nat, m \in Nat, p \in Nat, q \in Nat, b \in Nat :
         /\ n = Len(x) /\ m = Len(y) /\ p = Len(t.w.wire) /\ q = Len(t.w.zbuf) /\ b = ReadUpTo(s.r)
  BY <1>4, <1>7, <1>9, InFields, OutFields
<1>12. b >= 2 * n
  BY <1>7, <1>9, <1>11, ReadUpToNat
<1>13. b + p + q = 2 * m
  BY <1>5, <1>9, <1>11, Zenon DEF EndOK, Writes
<1>14. n <= m
  BY <1>12, <1>13
<1>15. \A i \in 1 .. n : x[i] = Line(want, Other(e), i)
  BY <1>4, <1>9, <1>11, Zenon DEF EndOK, Read
<1>16. \A i \in 1 .. m : y[i] = Line(want, Other(e), i)
  BY <1>5, <1>9, <1>11, Zenon DEF EndOK, Writes
<1>17. \A i \in 1 .. n : x[i] = y[i]
  BY <1>14, <1>15, <1>16
<1>18. SubSeq(x, 1, Len(x)) = SubSeq(y, 1, Len(x))
  BY <1>10, <1>11, <1>14, <1>17
<1>19. IsPrefix(x, y)
  BY <1>11, <1>14, <1>18 DEF IsPrefix
<1> QED BY <1>3, <1>6, <1>8, <1>9, <1>19

\* Whatever each connect block wants, and however the stream is split into reads,
\* each end of a link parses exactly the lines that send_message of the other end was
\* given, in order, through the change to encryption and to compression; no handler of
\* the negotiation drops the link, and what zip_output holds back fits its buffer, for
\* all sizes of the buffers and of reads.
THEOREM LinkAlwaysTransparent == LinkSpec => []LinkTransparent
<1>1. LinkInit => LinkInv
  BY LinkInitInv
<1>2. LinkInv /\ [LinkNext]_linkVars => LinkInv'
  BY LinkKept
<1>3. LinkInv => LinkTransparent
  BY LinkInvTransparent
<1> QED BY <1>1, <1>2, <1>3, PTL DEF LinkSpec

----------------------------------------------------------------------------
(* One channel on a network of servers.                                    *)

\* What a message from t tells s of u: that u is on the channel, or not.
Joins(m, u)  == \/ m.type = "SJOIN" /\ u \in m.who
                \/ m.type = "CliSJOIN" /\ u = m.by
Kicks(m, u)  == m.type = "KICK" /\ u = m.who
Leaves(m, u) == \/ m.type = "PART" /\ u = m.by
                \/ Kicks(m, u)
                \/ m.type = "SQUIT" /\ u \in m.lost

\* Whether u is a member when the messages L are handled by a server with the members S:
\* the last message about u says so, or there is none and u is.
Unsaid(L, u, i) == \A j \in i .. Len(L) : ~ Leaves(L[j], u)
After(L, u, S) == \/ \E i \in 1 .. Len(L) : Joins(L[i], u) /\ Unsaid(L, u, i)
                  \/ u \in S /\ Unsaid(L, u, 1)
Kicked(L, u)   == \E i \in 1 .. Len(L) : Kicks(L[i], u)

\* Messages about clients B, and copies, until time n.
NetMsgs(B, n) ==
  [type : {"SJOIN"}, ts : 0 .. n, who : SUBSET Users, ops : SUBSET Users, mode : Modes, bare : BOOLEAN]
    \cup [type : {"CliSJOIN"}, by : B, ts : 0 .. n]
    \cup [type : {"PART"}, by : B]
    \cup [type : {"KICK"}, by : Users, who : Users]
    \cup [type : {"MODE"}, by : Users, ts : 0 .. n, plus : BOOLEAN, what : Users \cup Letters]
    \cup [type : {"RESYNCH"}]
    \cup [type : {"SQUIT"}, lost : SUBSET B]
IsCopy(c, n) ==
  /\ c \in [ts : 0 .. n, mem : SUBSET Users, ops : SUBSET Users, mode : Modes]
  /\ c.ops \subseteq c.mem /\ (c.mem = {} => c = Free)

\* The server x, which has members S, and the next one on the way to u, which has T;
\* L is on its way to x, K from x; nobody but Z was ever kicked.
Sees(u, S, T, L, K, Z) ==
  /\ u \in T => After(L, u, S) \/ Kicked(K, u)
  /\ u \notin Z => (u \in T <=> After(L, u, S))
Kickable == IF kicked THEN Users ELSE {}

Wires == {<<s, t>> : s, t \in Nodes}
WireOK(L, M, e, lu) == L \in Seq(M) /\ (Len(L) # 0 => e \in lu)
WiresOK(lk, lu, n) ==
  /\ DOMAIN lk = Wires /\ lu \subseteq Edges
  /\ \A s, t \in Nodes : WireOK(lk[<<t, s>>], NetMsgs(Behind(s, t), n), {s, t}, lu)
CopiesOK(c, n) == DOMAIN c = Nodes /\ \A s \in Nodes : IsCopy(c[s], n)
Quietly(lk, Z) == \A s, t \in Nodes, u \in Users \ Z : ~ Kicked(lk[<<t, s>>], u)
SeenBy(c, lk, lu, Z, u, x, y) ==
  IF {x, y} \in lu THEN Sees(u, c[x].mem, c[y].mem, lk[<<y, x>>], lk[<<x, y>>], Z)
  ELSE u \notin c[x].mem
AllSee(c, lk, lu, Z) ==
  \A u \in Users, x \in Nodes : x # home[u] => SeenBy(c, lk, lu, Z, u, x, from(x, u))

NetInv == /\ now \in Nat /\ kicked \in BOOLEAN
          /\ CopiesOK(ch, now) /\ WiresOK(link, up, now)
          /\ Quietly(link, Kickable) /\ AllSee(ch, link, up, Kickable)

\* A message says of a client that it is a member, or that it is not, or neither.
LEMMA OneSaying ==
  ASSUME NEW m, NEW u PROVE ~ (Joins(m, u) /\ Leaves(m, u))
BY DEF Joins, Leaves, Kicks

\* Nothing under way changes nothing.
LEMMA AfterNone ==
  ASSUME NEW L, Len(L) = 0, NEW u, NEW S PROVE After(L, u, S) <=> u \in S
BY DEF After, Unsaid

\* The first message is handled.
LEMMA AfterHead ==
  ASSUME NEW A, NEW L \in Seq(A), L # << >>, NEW u, NEW S, NEW T, NEW m, m = Head(L), NEW R, R = Tail(L),
         u \in T <=> Joins(m, u) \/ (u \in S /\ ~ Leaves(m, u))
  PROVE  After(L, u, S) <=> After(R, u, T)
<1>1. /\ Len(L) \in Nat \ {0} /\ R \in Seq(A) /\ Len(R) = Len(L) - 1 /\ m = L[1]
      /\ \A i \in 1 .. Len(R) : R[i] = L[i + 1]
  OBVIOUS
<1>2. ASSUME NEW i \in 1 .. Len(R) PROVE Unsaid(R, u, i) <=> Unsaid(L, u, i + 1)
  <2>1. ASSUME Unsaid(R, u, i), NEW j \in (i + 1) .. Len(L) PROVE ~ Leaves(L[j], u)
    <3>1. j - 1 \in i .. Len(R) /\ R[j - 1] = L[j]
      BY <1>1
    <3> QED BY <2>1, <3>1 DEF Unsaid
  <2>2. ASSUME Unsaid(L, u, i + 1), NEW j \in i .. Len(R) PROVE ~ Leaves(R[j], u)
    <3>1. j + 1 \in (i + 1) .. Len(L) /\ R[j] = L[j + 1]
      BY <1>1
    <3> QED BY <2>2, <3>1 DEF Unsaid
  <2> QED BY <2>1, <2>2 DEF Unsaid
<1>3. Unsaid(R, u, 1) <=> \A j \in 2 .. Len(L) : ~ Leaves(L[j], u)
  <2>1. CASE Len(R) = 0
    BY <1>1, <2>1 DEF Unsaid
  <2>2. CASE Len(R) # 0
    <3>1. 1 \in 1 .. Len(R) /\ 1 + 1 = 2
      BY <1>1, <2>2
    <3> QED BY <1>2, <3>1 DEF Unsaid
  <2> QED BY <2>1, <2>2
<1>4. Unsaid(L, u, 1) <=> ~ Leaves(m, u) /\ Unsaid(R, u, 1)
  <2>1. \A j : j \in 1 .. Len(L) <=> j = 1 \/ j \in 2 .. Len(L)
    BY <1>1
  <2> QED BY <1>1, <1>3, <2>1 DEF Unsaid
<1>5. ASSUME After(L, u, S) PROVE After(R, u, T)
  <2>1. CASE u \in S /\ Unsaid(L, u, 1)
    BY <1>4, <2>1 DEF After
  <2>2. ASSUME NEW i \in 1 .. Len(L), Joins(L[i], u), Unsaid(L, u, i) PROVE After(R, u, T)
    <3>1. CASE i = 1
      BY <1>1, <1>4, <2>2, <3>1 DEF After
    <3>2. CASE i # 1
      <4>1. i - 1 \in 1 .. Len(R) /\ (i - 1) + 1 = i /\ R[i - 1] = L[i]
        BY <1>1, <3>2
      <4>2. Joins(R[i - 1], u) /\ Unsaid(R, u, i - 1)
        BY <1>2, <2>2, <4>1
      <4> QED BY <4>1, <4>2 DEF After
    <3> QED BY <3>1, <3>2
  <2> QED BY <1>5, <2>1, <2>2 DEF After
<1>6. ASSUME After(R, u, T) PROVE After(L, u, S)
  <2>1. ASSUME NEW i \in 1 .. Len(R), Joins(R[i], u), Unsaid(R, u, i) PROVE After(L, u, S)
    <3>1. i + 1 \in 1 .. Len(L) /\ R[i] = L[i + 1]
      BY <1>1
    <3>2. Joins(L[i + 1], u) /\ Unsaid(L, u, i + 1)
      BY <1>2, <2>1, <3>1
    <3> QED BY <3>1, <3>2 DEF After
  <2>2. CASE u \in T /\ Unsaid(R, u, 1)
    <3>1. CASE Joins(m, u)
      <4>1. Unsaid(L, u, 1)
        BY <1>4, <2>2, <3>1, OneSaying
      <4>2. 1 \in 1 .. Len(L) /\ Joins(L[1], u)
        BY <1>1, <3>1
      <4> QED BY <4>1, <4>2 DEF After
    <3>2. CASE ~ Joins(m, u)
      BY <1>4, <2>2, <3>2 DEF After
    <3> QED BY <3>1, <3>2
  <2> QED BY <1>6, <2>1, <2>2 DEF After
<1> QED BY <1>5, <1>6

\* One more message.
LEMMA AfterLast ==
  ASSUME NEW A, NEW L \in Seq(A), NEW u, NEW S, NEW m \in A, NEW R, R = L \o <<m>>
  PROVE  /\ After(R, u, S) <=> Joins(m, u) \/ (After(L, u, S) /\ ~ Leaves(m, u))
         /\ Kicked(R, u) <=> Kicked(L, u) \/ Kicks(m, u)
         /\ R \in Seq(A) /\ Len(R) = Len(L) + 1
<1>1. /\ Len(L) \in Nat /\ R \in Seq(A) /\ Len(R) = Len(L) + 1 /\ R[Len(L) + 1] = m
      /\ \A i \in 1 .. Len(L) : R[i] = L[i]
  <2>1. <<m>> \in Seq(A) /\ Len(<<m>>) = 1 /\ <<m>>[1] = m
    OBVIOUS
  <2> QED BY <2>1, Concats
<1>2. \A j : j \in 1 .. Len(R) <=> j \in 1 .. Len(L) \/ j = Len(L) + 1
  BY <1>1
<1>3. Kicked(R, u) <=> Kicked(L, u) \/ Kicks(m, u)
  BY <1>1, <1>2 DEF Kicked
<1>4. ASSUME NEW i \in 1 .. Len(L) + 1 PROVE Unsaid(R, u, i) <=> Unsaid(L, u, i) /\ ~ Leaves(m, u)
  <2>1. \A j : j \in i .. Len(R) <=> j \in i .. Len(L) \/ j = Len(L) + 1
    BY <1>1
  <2>2. \A j \in i .. Len(L) : R[j] = L[j]
    BY <1>1
  <2> QED BY <1>1, <2>1, <2>2 DEF Unsaid
<1>5. Unsaid(R, u, Len(L) + 1) <=> ~ Leaves(m, u)
  <2>1. \A j : j \in (Len(L) + 1) .. Len(R) <=> j = Len(L) + 1
    BY <1>1
  <2> QED BY <1>1, <2>1 DEF Unsaid
<1>6. ASSUME After(R, u, S) PROVE Joins(m, u) \/ (After(L, u, S) /\ ~ Leaves(m, u))
  <2>1. ASSUME NEW i \in 1 .. Len(L), Joins(R[i], u), Unsaid(R, u, i) PROVE After(L, u, S) /\ ~ Leaves(m, u)
    <3>1. Joins(L[i], u) /\ Unsaid(L, u, i) /\ ~ Leaves(m, u)
      BY <1>1, <1>4, <2>1
    <3> QED BY <3>1 DEF After
  <2>2. CASE u \in S /\ Unsaid(R, u, 1)
    BY <1>1, <1>4, <2>2 DEF After
  <2> QED BY <1>1, <1>2, <1>6, <2>1, <2>2 DEF After
<1>7. ASSUME Joins(m, u) PROVE After(R, u, S)
  <2>1. Unsaid(R, u, Len(L) + 1)
    BY <1>5, <1>7, OneSaying
  <2> QED BY <1>1, <1>2, <1>7, <2>1 DEF After
<1>8. ASSUME After(L, u, S), ~ Leaves(m, u) PROVE After(R, u, S)
  <2>1. ASSUME NEW i \in 1 .. Len(L), Joins(L[i], u), Unsaid(L, u, i) PROVE After(R, u, S)
    <3>1. Joins(R[i], u) /\ Unsaid(R, u, i) /\ i \in 1 .. Len(R)
      BY <1>1, <1>4, <1>8, <2>1
    <3> QED BY <3>1 DEF After
  <2>2. CASE u \in S /\ Unsaid(L, u, 1)
    BY <1>1, <1>4, <1>8, <2>2 DEF After
  <2> QED BY <1>8, <2>1, <2>2 DEF After
<1> QED BY <1>1, <1>3, <1>6, <1>7, <1>8

\* A KICK under way is the first message or behind it.
LEMMA KickedHead ==
  ASSUME NEW A, NEW L \in Seq(A), L # << >>, NEW u
  PROVE  Kicked(L, u) <=> Kicks(Head(L), u) \/ Kicked(Tail(L), u)
<1> PICK R : R = Tail(L) OBVIOUS
<1>1. /\ Len(L) \in Nat \ {0} /\ R \in Seq(A) /\ Len(R) = Len(L) - 1 /\ Head(L) = L[1]
      /\ \A i \in 1 .. Len(R) : R[i] = L[i + 1]
  OBVIOUS
<1>2. ASSUME NEW i \in 1 .. Len(L), Kicks(L[i], u), i # 1 PROVE Kicked(R, u)
  <2>1. i - 1 \in 1 .. Len(R) /\ R[i - 1] = L[i]
    BY <1>1, <1>2
  <2> QED BY <1>2, <2>1 DEF Kicked
<1>3. ASSUME NEW i \in 1 .. Len(R), Kicks(R[i], u) PROVE Kicked(L, u)
  <2>1. i + 1 \in 1 .. Len(L) /\ R[i] = L[i + 1]
    BY <1>1
  <2> QED BY <1>3, <2>1 DEF Kicked
<1>4. 1 \in 1 .. Len(L)
  BY <1>1
<1> QED BY <1>1, <1>2, <1>3, <1>4 DEF Kicked

\* The ends of a link differ.
LEMMA EdgeEnds ==
  ASSUME NEW s \in Nodes, NEW t \in Nodes, {s, t} \in Edges PROVE s # t /\ {t, s} \in Edges
<1>1. {t, s} = {s, t}
  OBVIOUS
<1>2. s # t
  <2>1. s = t => {s, t} = {s}
    OBVIOUS
  <2> QED BY <2>1, NetAssumption, SMTT(30)
<1> QED BY <1>1, <1>2

\* The next server on the way to a client.
LEMMA NextHop ==
  ASSUME NEW x \in Nodes, NEW u \in Users, x # home[u]
  PROVE  /\ from(x, u) \in Nodes /\ {x, from(x, u)} \in Edges /\ x # from(x, u)
         /\ u \in Behind(x, from(x, u))
<1>1. home[u] \in Nodes
  BY NetAssumption
<1>2. from(x, u) \in Nodes /\ {x, from(x, u)} \in Edges
  BY <1>1, NetAssumption DEF from
<1>3. x # from(x, u)
  BY <1>2, EdgeEnds
<1>4. u \in Behind(x, from(x, u))
  BY DEF Behind
<1> QED BY <1>2, <1>3, <1>4

\* Of the two ends of a link one has a client behind the other.
LEMMA OneWay ==
  ASSUME NEW s \in Nodes, NEW t \in Nodes, {s, t} \in Edges, NEW u \in Users
  PROVE  u \in Behind(s, t) <=> u \notin Behind(t, s)
<1>1. home[u] \in Nodes
  BY NetAssumption
<1>2. hop[s][home[u]] = t <=> hop[t][home[u]] # s
  BY <1>1, NetAssumption, SMTT(30)
<1>3. hop[s][s] = s /\ hop[t][t] = t /\ s # t
  <2>1. s # t
    BY EdgeEnds
  <2>2. hop[s][s] = s
    BY NetAssumption
  <2>3. hop[t][t] = t
    BY NetAssumption
  <2> QED BY <2>1, <2>2, <2>3
<1>4. home[u] = s => hop[s][home[u]] # t
  BY <1>3
<1>5. home[u] = t => hop[t][home[u]] # s
  BY <1>3
<1> QED BY <1>2, <1>4, <1>5 DEF Behind, from

\* A client behind t, for s, is behind s for the other neighbours of s.
LEMMA Onward ==
  ASSUME NEW s \in Nodes, NEW t \in Nodes, NEW x \in Nodes, {s, x} \in Edges, x # t
  PROVE  Behind(s, t) \subseteq Behind(x, s)
<1> SUFFICES ASSUME NEW u \in Behind(s, t) PROVE u \in Behind(x, s)
  OBVIOUS
<1>1. u \in Users /\ from(s, u) = t
  BY DEF Behind
<1>2. u \notin Behind(s, x)
  BY <1>1 DEF Behind
<1> QED BY <1>1, <1>2, OneWay

\* The clients of s.
AtHome(s) == {u \in Users : home[u] = s}

\* A client of s is behind s for the neighbours of s.
LEMMA HomeBehind ==
  ASSUME NEW s \in Nodes, NEW x \in Nodes, {s, x} \in Edges
  PROVE  AtHome(s) \subseteq Behind(x, s)
<1> SUFFICES ASSUME NEW u \in AtHome(s) PROVE u \in Behind(x, s)
  OBVIOUS
<1>1. u \in Users /\ u \notin Behind(s, x)
  BY DEF Behind, AtHome
<1> QED BY <1>1, OneWay

\* The members matter for the client in question only.
LEMMA AfterSame ==
  ASSUME NEW L, NEW u, NEW S, NEW T, u \in S <=> u \in T PROVE After(L, u, S) <=> After(L, u, T)
BY DEF After

\* What s tells others of the change from c to d is the change, and about clients B but for KICKs.
RelayOK(c, d, relay, B, n, Z) ==
  \/ relay = << >> /\ d.mem = c.mem
  \/ \E r \in NetMsgs(B, n) :
       /\ relay = <<r>>
       /\ \A u \in Users : u \in d.mem <=> Joins(r, u) \/ (u \in c.mem /\ ~ Leaves(r, u))
       /\ \A u \in Users : Kicks(r, u) => u \in Z
\* An answer says nothing but who are members.
AnswerOK(d, answer, B, n) ==
  \/ answer = << >>
  \/ \E r \in NetMsgs(B, n) :
       /\ answer = <<r>>
       /\ \A u \in Users : ~ Leaves(r, u) /\ (Joins(r, u) => u \in d.mem)
\* The change from c to d is what the message m says of clients B, and KICKs.
MsgOK(c, d, m, B) ==
  \A u \in Users : u \in d.mem <=> (Joins(m, u) /\ u \in B) \/ (u \in c.mem /\ ~ Leaves(m, u))

\* Only a KICK removes others than those it is about.
LEMMA KickOnly ==
  ASSUME NEW B, NEW n, NEW r \in NetMsgs(B, n), NEW u, u \notin B, Leaves(r, u) PROVE Kicks(r, u)
BY DEF NetMsgs, Leaves, Kicks

\* What a message is about grows with the clients and the time.
LEMMA MsgsGrow ==
  ASSUME NEW B, NEW C, B \subseteq C, NEW n \in Nat, NEW p \in Nat, n <= p PROVE NetMsgs(B, n) \subseteq NetMsgs(C, p)
<1>1. 0 .. n \subseteq 0 .. p
  OBVIOUS
<1> QED BY <1>1 DEF NetMsgs

\* A link with what is appended to it.
LEMMA Grown ==
  ASSUME NEW A, NEW L \in Seq(A), NEW r \in A PROVE L \o <<r>> \in Seq(A) /\ Len(L \o <<r>>) = Len(L) + 1
OBVIOUS

\* The server x below s is told of the change at s.
LEMMA Below ==
  ASSUME NEW u \in Users, NEW S, NEW c, NEW d, NEW A, NEW L \in Seq(A), NEW K, NEW Z, NEW Y, Z \subseteq Y,
         Sees(u, S, c.mem, L, K, Z), NEW B, NEW n, NetMsgs(B, n) \subseteq A, NEW relay, RelayOK(c, d, relay, B, n, Y),
         NEW M, M = L \o relay
  PROVE  Sees(u, S, d.mem, M, K, Y)
<1>1. CASE relay = << >> /\ d.mem = c.mem
  <2>1. M = L
    BY <1>1
  <2> QED BY <1>1, <2>1 DEF Sees
<1>2. ASSUME NEW r \in NetMsgs(B, n), relay = <<r>>,
             u \in d.mem <=> Joins(r, u) \/ (u \in c.mem /\ ~ Leaves(r, u))
      PROVE  Sees(u, S, d.mem, M, K, Y)
  <2>1. After(M, u, S) <=> Joins(r, u) \/ (After(L, u, S) /\ ~ Leaves(r, u))
    BY <1>2, AfterLast
  <2> QED BY <1>2, <2>1 DEF Sees
<1> QED BY <1>1, <1>2 DEF RelayOK

\* The server above s is told of it, when it is not about a client above.
LEMMA Above ==
  ASSUME NEW u \in Users, NEW c, NEW d, NEW T, NEW L, NEW A, NEW K \in Seq(A), NEW Z, NEW Y, Z \subseteq Y,
         Sees(u, c.mem, T, L, K, Z), NEW B, NEW n, NetMsgs(B, n) \subseteq A, NEW relay, RelayOK(c, d, relay, B, n, Y),
         u \notin B, u \in d.mem => u \in c.mem, NEW J, J = K \o relay
  PROVE  Sees(u, d.mem, T, L, J, Y)
<1>1. CASE relay = << >> /\ d.mem = c.mem
  <2>1. J = K
    BY <1>1
  <2> QED BY <1>1, <2>1 DEF Sees
<1>2. ASSUME NEW r \in NetMsgs(B, n), relay = <<r>>,
             u \in d.mem <=> Joins(r, u) \/ (u \in c.mem /\ ~ Leaves(r, u)), Kicks(r, u) => u \in Y
      PROVE  Sees(u, d.mem, T, L, J, Y)
  <2>1. Kicked(J, u) <=> Kicked(K, u) \/ Kicks(r, u)
    BY <1>2, AfterLast
  <2>2. CASE u \in d.mem <=> u \in c.mem
    BY <2>1, <2>2, AfterSame DEF Sees
  <2>3. CASE ~ (u \in d.mem <=> u \in c.mem)
    <3>1. Kicks(r, u)
      BY <1>2, <2>3, KickOnly
    <3> QED BY <1>2, <2>1, <3>1 DEF Sees
  <2> QED BY <2>2, <2>3
<1> QED BY <1>1, <1>2 DEF RelayOK

\* An answer adds nothing to what the link says.
LEMMA AnswerAdds ==
  ASSUME NEW u \in Users, NEW S, NEW d, NEW A, NEW L \in Seq(A), NEW B, NEW n, NetMsgs(B, n) \subseteq A,
         NEW answer, AnswerOK(d, answer, B, n), NEW M, M = L \o answer
  PROVE  /\ After(L, u, S) => After(M, u, S)
         /\ After(M, u, S) => After(L, u, S) \/ u \in d.mem
         /\ Kicked(M, u) <=> Kicked(L, u)
<1>1. CASE answer = << >>
  <2>1. M = L
    BY <1>1
  <2> QED BY <2>1
<1>2. ASSUME NEW r \in NetMsgs(B, n), answer = <<r>>, ~ Leaves(r, u), Joins(r, u) => u \in d.mem
      PROVE  /\ After(L, u, S) => After(M, u, S)
             /\ After(M, u, S) => After(L, u, S) \/ u \in d.mem
             /\ Kicked(M, u) <=> Kicked(L, u)
  <2>1. /\ After(M, u, S) <=> Joins(r, u) \/ (After(L, u, S) /\ ~ Leaves(r, u))
        /\ Kicked(M, u) <=> Kicked(L, u) \/ Kicks(r, u)
    BY <1>2, AfterLast
  <2>2. ~ Kicks(r, u)
    BY <1>2 DEF Leaves
  <2> QED BY <1>2, <2>1, <2>2
<1> QED BY <1>1, <1>2 DEF AnswerOK

\* s handles a message from above.
LEMMA FromAbove ==
  ASSUME NEW u \in Users, NEW c, NEW d, NEW T, NEW A, NEW L \in Seq(A), L # << >>, NEW C, NEW K \in Seq(C), NEW Z,
         Sees(u, c.mem, T, L, K, Z), NEW B, u \in B, NEW m, m = Head(L), MsgOK(c, d, m, B),
         NEW D, NEW n, NetMsgs(D, n) \subseteq C, NEW answer, AnswerOK(d, answer, D, n),
         NEW M, M = Tail(L), NEW J, J = K \o answer
  PROVE  Sees(u, d.mem, T, M, J, Z)
<1>1. u \in d.mem <=> Joins(m, u) \/ (u \in c.mem /\ ~ Leaves(m, u))
  BY DEF MsgOK
<1>2. After(L, u, c.mem) <=> After(M, u, d.mem)
  BY <1>1, AfterHead, ZenonT(40)
<1>3. Kicked(J, u) <=> Kicked(K, u)
  BY AnswerAdds
<1> QED BY <1>2, <1>3 DEF Sees

\* s handles a message from below.
LEMMA FromBelow ==
  ASSUME NEW u \in Users, NEW S, NEW c, NEW d, NEW A, NEW L \in Seq(A), NEW B, NEW n, NEW K \in Seq(NetMsgs(B, n)), K # << >>,
         NEW Z, Sees(u, S, c.mem, L, K, Z), u \notin B, NEW m, m = Head(K), MsgOK(c, d, m, B), u \in Z \/ ~ Kicked(K, u),
         NEW D, NetMsgs(D, n) \subseteq A, NEW answer, AnswerOK(d, answer, D, n),
         NEW M, M = L \o answer, NEW J, J = Tail(K)
  PROVE  Sees(u, S, d.mem, M, J, Z)
<1>1. m \in NetMsgs(B, n)
  OBVIOUS
<1>2. u \in d.mem <=> u \in c.mem /\ ~ Leaves(m, u)
  BY DEF MsgOK
<1>3. Leaves(m, u) => Kicks(m, u)
  BY <1>1, KickOnly
<1>4. Kicks(m, u) => Leaves(m, u)
  BY DEF Leaves
<1>5. Kicked(K, u) <=> Kicks(m, u) \/ Kicked(J, u)
  BY KickedHead
<1>6. /\ After(L, u, S) => After(M, u, S)
      /\ After(M, u, S) => After(L, u, S) \/ u \in d.mem
  BY AnswerAdds
<1> QED BY <1>2, <1>3, <1>4, <1>5, <1>6 DEF Sees

\* Links as Handle leaves them.
LEMMA HandleWires ==
  ASSUME NEW s \in Nodes, NEW t \in Nodes, s # t, NEW d, NEW relay, NEW answer,
         Handle(s, t, d, relay, answer), DOMAIN link = Wires, NEW x \in Nodes, NEW y \in Nodes
  PROVE  link'[<<x, y>>] = IF x = t /\ y = s THEN Tail(link[<<t, s>>])
                           ELSE IF x = s /\ y = t THEN link[<<s, t>>] \o answer
                           ELSE IF x = s /\ y \in Peers(s) THEN link[<<s, y>>] \o relay
                           ELSE link[<<x, y>>]
<1>1. <<x, y>> \in Wires
  BY DEF Wires
<1>2. <<x, y>> = <<t, s>> <=> x = t /\ y = s
  OBVIOUS
<1>3. <<x, y>> = <<s, t>> <=> x = s /\ y = t
  OBVIOUS
<1>4. <<x, y>>[1] = x /\ <<x, y>>[2] = y
  OBVIOUS
<1>5. link'[<<x, y>>] = IF <<x, y>> = <<t, s>> THEN Tail(link[<<x, y>>])
                        ELSE IF <<x, y>> = <<s, t>> THEN link[<<x, y>>] \o answer
                        ELSE IF <<x, y>>[1] = s /\ <<x, y>>[2] \in Peers(s) THEN link[<<x, y>>] \o relay
                        ELSE link[<<x, y>>]
  BY <1>1 DEF Handle
<1> QED BY <1>2, <1>3, <1>4, <1>5

\* Links as butone leaves them.
LEMMA ButoneWires ==
  ASSUME NEW s \in Nodes, NEW m, NEW lk, lk = butone(s, s, m), DOMAIN link = Wires, NEW x \in Nodes, NEW y \in Nodes
  PROVE  /\ DOMAIN lk = Wires
         /\ lk[<<x, y>>] = IF x = s /\ y \in Peers(s) THEN Append(link[<<s, y>>], m) ELSE link[<<x, y>>]
<1>1. <<x, y>> \in Wires
  BY DEF Wires
<1>2. <<x, y>>[1] = x /\ <<x, y>>[2] = y
  OBVIOUS
<1>3. s \notin Peers(s)
  BY DEF Peers
<1>4. lk[<<x, y>>] = IF <<x, y>>[1] = s /\ <<x, y>>[2] \in Peers(s) \ {s} THEN Append(link[<<x, y>>], m) ELSE link[<<x, y>>]
  BY <1>1 DEF butone
<1> QED BY <1>2, <1>3, <1>4 DEF butone

\* A neighbour.
LEMMA PeerIs ==
  ASSUME NEW s \in Nodes, NEW x, up \subseteq Edges
  PROVE  x \in Peers(s) <=> x \in Nodes /\ {s, x} \in up
<1>1. ASSUME x \in Nodes, {s, x} \in up PROVE s # x
  BY <1>1, EdgeEnds
<1> QED BY <1>1 DEF Peers

\* What is on a link, and that only a link that is up has anything on it.
LEMMA WireType ==
  ASSUME WiresOK(link, up, now), NEW s \in Nodes, NEW t \in Nodes
  PROVE  /\ link[<<t, s>>] \in Seq(NetMsgs(Behind(s, t), now)) /\ Len(link[<<t, s>>]) \in Nat
         /\ link[<<t, s>>] # << >> => Len(link[<<t, s>>]) # 0
         /\ Len(link[<<t, s>>]) # 0 => {s, t} \in up
<1>1. PICK L, M, e : L = link[<<t, s>>] /\ M = NetMsgs(Behind(s, t), now) /\ e = {s, t}
  OBVIOUS
<1>2. WireOK(L, M, e, up)
  BY <1>1 DEF WiresOK
<1>3. L \in Seq(M) /\ (Len(L) # 0 => e \in up)
  BY <1>2 DEF WireOK
<1>4. Len(L) \in Nat /\ (L # << >> => Len(L) # 0)
  BY <1>3
<1> QED BY <1>1, <1>3, <1>4

\* A relay or an answer keeps a link's type.
LEMMA WireGrows ==
  ASSUME NEW A, NEW L \in Seq(A), NEW c, NEW d, NEW relay, NEW B, NEW n, NetMsgs(B, n) \subseteq A, NEW Z,
         RelayOK(c, d, relay, B, n, Z) \/ AnswerOK(d, relay, B, n), NEW M, M = L \o relay
  PROVE  M \in Seq(A) /\ Len(M) \in Nat
<1>1. relay = << >> \/ \E r \in NetMsgs(B, n) : relay = <<r>>
  BY DEF RelayOK, AnswerOK
<1>2. relay \in Seq(A)
  <2>1. ASSUME NEW r \in NetMsgs(B, n), relay = <<r>> PROVE relay \in Seq(A)
    <3>1. r \in A
      OBVIOUS
    <3> QED BY <2>1, <3>1
  <2>2. << >> \in Seq(A)
    OBVIOUS
  <2> QED BY <1>1, <2>1, <2>2
<1> QED BY <1>2

\* ... and brings no KICK before there was one.
LEMMA RelayQuiet ==
  ASSUME NEW A, NEW L \in Seq(A), NEW c, NEW d, NEW relay, NEW B, NEW n, NetMsgs(B, n) \subseteq A, NEW Z,
         RelayOK(c, d, relay, B, n, Z), NEW M, M = L \o relay, NEW u \in Users, Kicked(M, u)
  PROVE  Kicked(L, u) \/ u \in Z
<1>1. CASE relay = << >>
  <2>1. M = L
    BY <1>1
  <2> QED BY <2>1
<1>2. ASSUME NEW r \in NetMsgs(B, n), relay = <<r>>, Kicks(r, u) => u \in Z PROVE Kicked(L, u) \/ u \in Z
  BY <1>2, AfterLast
<1> QED BY <1>1, <1>2 DEF RelayOK

\* s handles the first message m from t.
Handles(s, t, m, d, relay, answer) ==
  /\ link[<<t, s>>] # << >> /\ m = Head(link[<<t, s>>]) /\ Handle(s, t, d, relay, answer)
  /\ IsCopy(d, now) /\ MsgOK(ch[s], d, m, Behind(s, t))
  /\ RelayOK(ch[s], d, relay, Behind(s, t), now, Kickable)
  /\ AnswerOK(d, answer, Behind(t, s), now)

\* The links after s has handled a message.
LEMMA HandledWires ==
  ASSUME NetInv, NEW s \in Nodes, NEW t \in Nodes, NEW m, NEW d, NEW relay, NEW answer,
         Handles(s, t, m, d, relay, answer)
  PROVE  WiresOK(link, up, now)' /\ Quietly(link, Kickable)' /\ s # t /\ {s, t} \in up
<1>1. /\ now \in Nat /\ WiresOK(link, up, now) /\ DOMAIN link = Wires /\ up \subseteq Edges /\ Quietly(link, Kickable)
      /\ link[<<t, s>>] # << >> /\ Handle(s, t, d, relay, answer)
      /\ RelayOK(ch[s], d, relay, Behind(s, t), now, Kickable) /\ AnswerOK(d, answer, Behind(t, s), now)
  BY DEF NetInv, WiresOK, Handles
<1>2. {s, t} \in up /\ {s, t} \in Edges /\ s # t
  BY <1>1, WireType, EdgeEnds
<1>3. /\ up' = up /\ now' = now /\ Kickable' = Kickable /\ DOMAIN link' = Wires
  BY <1>1 DEF Handle, Kickable
<1>4. ASSUME NEW x \in Nodes, NEW y \in Nodes
      PROVE  /\ link'[<<y, x>>] \in Seq(NetMsgs(Behind(x, y), now))
             /\ Len(link'[<<y, x>>]) # 0 => {x, y} \in up
             /\ \A u \in Users \ Kickable : ~ Kicked(link'[<<y, x>>], u)
  <2>1. /\ link[<<y, x>>] \in Seq(NetMsgs(Behind(x, y), now))
        /\ Len(link[<<y, x>>]) # 0 => {x, y} \in up
        /\ \A u \in Users \ Kickable : ~ Kicked(link[<<y, x>>], u)
    BY <1>1, WireType DEF Quietly
  <2>2. link'[<<y, x>>] = IF y = t /\ x = s THEN Tail(link[<<t, s>>])
                          ELSE IF y = s /\ x = t THEN link[<<s, t>>] \o answer
                          ELSE IF y = s /\ x \in Peers(s) THEN link[<<s, x>>] \o relay
                          ELSE link[<<y, x>>]
    BY <1>1, <1>2, HandleWires
  <2>3. CASE y = t /\ x = s
    <3>1. link'[<<y, x>>] = Tail(link[<<t, s>>]) /\ link'[<<y, x>>] \in Seq(NetMsgs(Behind(x, y), now))
      BY <1>1, <2>1, <2>2, <2>3
    <3>2. \A u \in Users : Kicked(link'[<<y, x>>], u) => Kicked(link[<<y, x>>], u)
      BY <1>1, <2>1, <2>3, <3>1, KickedHead
    <3> QED BY <1>2, <2>1, <2>3, <3>1, <3>2
  <2>4. CASE y = s /\ x = t
    <3>1. link'[<<y, x>>] = link[<<y, x>>] \o answer
      BY <1>2, <2>2, <2>4
    <3>2. link'[<<y, x>>] \in Seq(NetMsgs(Behind(x, y), now))
      BY <1>1, <2>1, <2>4, <3>1, WireGrows
    <3>3. \A u \in Users : Kicked(link'[<<y, x>>], u) <=> Kicked(link[<<y, x>>], u)
      BY <1>1, <2>1, <2>4, <3>1, AnswerAdds, ZenonT(40)
    <3>4. {x, y} \in up
      <4>1. {t, s} = {s, t}
        OBVIOUS
      <4> QED BY <1>2, <2>4, <4>1
    <3> QED BY <2>1, <3>2, <3>3, <3>4
  <2>5. CASE y = s /\ x # t /\ x \in Peers(s)
    <3>1. link'[<<y, x>>] = link[<<y, x>>] \o relay
      BY <1>2, <2>2, <2>5
    <3>2. {s, x} \in up /\ {x, y} \in up /\ {s, x} \in Edges
      <4>1. {x, s} = {s, x} /\ {s, x} \in up
        BY <1>1, <2>5, PeerIs
      <4> QED BY <1>1, <2>5, <4>1
    <3>3. Behind(s, t) \subseteq Behind(x, s)
      BY <2>5, <3>2, Onward
    <3>4. NetMsgs(Behind(s, t), now) \subseteq NetMsgs(Behind(x, y), now)
      BY <1>1, <2>5, <3>3, MsgsGrow
    <3>5. link'[<<y, x>>] \in Seq(NetMsgs(Behind(x, y), now))
      BY <1>1, <2>1, <3>1, <3>4, WireGrows
    <3>6. ASSUME NEW u \in Users \ Kickable PROVE ~ Kicked(link'[<<y, x>>], u)
      <4>1. Kicked(link'[<<y, x>>], u) => Kicked(link[<<y, x>>], u) \/ u \in Kickable
        BY <1>1, <2>1, <3>1, <3>4, RelayQuiet
      <4> QED BY <2>1, <4>1
    <3> QED BY <3>2, <3>5, <3>6
  <2>6. CASE ~ (y = t /\ x = s) /\ ~ (y = s /\ x = t) /\ ~ (y = s /\ x # t /\ x \in Peers(s))
    BY <2>1, <2>2, <2>6
  <2> QED BY <2>3, <2>4, <2>5, <2>6
<1>5. WiresOK(link', up', now')
  <2>1. ASSUME NEW x \in Nodes, NEW y \in Nodes PROVE WireOK(link'[<<y, x>>], NetMsgs(Behind(x, y), now'), {x, y}, up')
    BY <1>1, <1>3, <1>4 DEF WireOK
  <2> QED BY <1>1, <1>3, <2>1 DEF WiresOK
<1>6. Quietly(link', Kickable')
  BY <1>3, <1>4 DEF Quietly
<1> QED BY <1>2, <1>5, <1>6

\* Every server still sees every client.
LEMMA HandledSees ==
  ASSUME NetInv, NEW s \in Nodes, NEW t \in Nodes, NEW m, NEW d, NEW relay, NEW answer,
         Handles(s, t, m, d, relay, answer)
  PROVE  AllSee(ch, link, up, Kickable)'
<1>1. /\ now \in Nat /\ WiresOK(link, up, now) /\ DOMAIN link = Wires /\ up \subseteq Edges /\ Quietly(link, Kickable)
      /\ AllSee(ch, link, up, Kickable) /\ DOMAIN ch = Nodes
      /\ link[<<t, s>>] # << >> /\ m = Head(link[<<t, s>>]) /\ Handle(s, t, d, relay, answer)
      /\ RelayOK(ch[s], d, relay, Behind(s, t), now, Kickable) /\ AnswerOK(d, answer, Behind(t, s), now)
      /\ MsgOK(ch[s], d, m, Behind(s, t))
  BY DEF NetInv, WiresOK, Handles, CopiesOK
<1>2. s # t /\ {s, t} \in up /\ {s, t} \in Edges /\ {t, s} \in Edges /\ {t, s} \in up
  <2>1. s # t /\ {s, t} \in up /\ {t, s} = {s, t}
    BY HandledWires
  <2> QED BY <1>1, <2>1
<1>3. /\ up' = up /\ Kickable' = Kickable /\ DOMAIN ch' = Nodes /\ ch'[s] = d
      /\ \A x \in Nodes \ {s} : ch'[x] = ch[x]
  BY <1>1 DEF Handle, Kickable
<1> SUFFICES ASSUME NEW u \in Users, NEW x \in Nodes, x # home[u], NEW y, y = from(x, u)
             PROVE  SeenBy(ch', link', up', Kickable', u, x, y)
  BY DEF AllSee
<1>4. y \in Nodes /\ {x, y} \in Edges /\ x # y /\ u \in Behind(x, y)
  BY NextHop
<1>5. SeenBy(ch, link, up, Kickable, u, x, y)
  BY <1>1 DEF AllSee
<1>6. ASSUME NEW z \in Nodes, NEW w \in Nodes
      PROVE  link[<<w, z>>] \in Seq(NetMsgs(Behind(z, w), now))
  BY <1>1, WireType
<1>7. ASSUME NEW z \in Nodes, NEW w \in Nodes
      PROVE  link'[<<z, w>>] = IF z = t /\ w = s THEN Tail(link[<<t, s>>])
                               ELSE IF z = s /\ w = t THEN link[<<s, t>>] \o answer
                               ELSE IF z = s /\ w \in Peers(s) THEN link[<<s, w>>] \o relay
                               ELSE link[<<z, w>>]
  BY <1>1, <1>2, HandleWires
<1>8. CASE {x, y} \notin up
  <2>1. u \notin ch[x].mem /\ ~ (x = s /\ y = t)
    BY <1>2, <1>5, <1>8 DEF SeenBy
  <2>2. ASSUME x = s PROVE u \notin d.mem
    <3>1. u \notin Behind(s, t)
      BY <1>4, <2>1, <2>2 DEF Behind
    <3> QED BY <1>1, <2>1, <2>2, <3>1 DEF MsgOK
  <2>3. u \notin ch'[x].mem
    BY <1>3, <2>1, <2>2
  <2> QED BY <1>3, <1>8, <2>3 DEF SeenBy
<1>9. CASE {x, y} \in up
  <2>1. Sees(u, ch[x].mem, ch[y].mem, link[<<y, x>>], link[<<x, y>>], Kickable)
    BY <1>5, <1>9 DEF SeenBy
  <2> SUFFICES Sees(u, ch'[x].mem, ch'[y].mem, link'[<<y, x>>], link'[<<x, y>>], Kickable)
    BY <1>3, <1>9 DEF SeenBy
  <2>2. CASE x = s /\ y = t
    <3>1. /\ link'[<<y, x>>] = Tail(link[<<y, x>>]) /\ link'[<<x, y>>] = link[<<x, y>>] \o answer
          /\ ch'[x] = d /\ ch'[y] = ch[y]
      BY <1>2, <1>3, <1>7, <2>2, ZenonT(40)
    <3>2. u \in Behind(s, t) /\ link[<<y, x>>] # << >> /\ m = Head(link[<<y, x>>])
      BY <1>1, <1>4, <2>2
    <3>3. /\ link[<<y, x>>] \in Seq(NetMsgs(Behind(x, y), now)) /\ link[<<x, y>>] \in Seq(NetMsgs(Behind(y, x), now))
          /\ Sees(u, ch[s].mem, ch[y].mem, link[<<y, x>>], link[<<x, y>>], Kickable)
          /\ AnswerOK(d, answer, Behind(y, x), now)
      BY <1>1, <1>4, <1>6, <2>1, <2>2
    <3>4. Sees(u, d.mem, ch[y].mem, link'[<<y, x>>], link'[<<x, y>>], Kickable)
      <4>1. PICK B, D, A, C, Z : /\ B = Behind(s, t) /\ D = Behind(y, x) /\ A = NetMsgs(Behind(x, y), now)
                                 /\ C = NetMsgs(D, now) /\ Z = Kickable
        OBVIOUS
      <4>2. PICK c, T, L, K, M, J : /\ c = ch[s] /\ T = ch[y].mem /\ L = link[<<y, x>>] /\ K = link[<<x, y>>]
                                    /\ M = link'[<<y, x>>] /\ J = link'[<<x, y>>]
        OBVIOUS
      <4>3. /\ L \in Seq(A) /\ K \in Seq(C) /\ L # << >> /\ Sees(u, c.mem, T, L, K, Z) /\ u \in B
            /\ m = Head(L) /\ MsgOK(c, d, m, B) /\ NetMsgs(D, now) \subseteq C
        BY <1>1, <3>2, <3>3, <4>1, <4>2
      <4>4. AnswerOK(d, answer, D, now) /\ J = K \o answer /\ M = Tail(L)
        BY <3>1, <3>3, <4>1, <4>2
      <4>5. Sees(u, d.mem, T, M, J, Z)
        BY <4>3, <4>4, FromAbove
      <4> QED BY <4>1, <4>2, <4>5
    <3> QED BY <3>1, <3>4
  <2>3. CASE x = t /\ y = s
    <3>1. /\ link'[<<x, y>>] = Tail(link[<<x, y>>]) /\ link'[<<y, x>>] = link[<<y, x>>] \o answer
          /\ ch'[y] = d /\ ch'[x] = ch[x]
      BY <1>2, <1>3, <1>7, <2>3, ZenonT(40)
    <3>2. u \notin Behind(s, t) /\ link[<<x, y>>] # << >> /\ m = Head(link[<<x, y>>])
      BY <1>1, <1>2, <1>4, <2>3, OneWay
    <3>3. /\ link[<<y, x>>] \in Seq(NetMsgs(Behind(x, y), now)) /\ link[<<x, y>>] \in Seq(NetMsgs(Behind(s, t), now))
          /\ Sees(u, ch[x].mem, ch[s].mem, link[<<y, x>>], link[<<x, y>>], Kickable)
          /\ AnswerOK(d, answer, Behind(x, y), now)
          /\ u \in Kickable \/ ~ Kicked(link[<<x, y>>], u)
      BY <1>1, <1>4, <1>6, <2>1, <2>3 DEF Quietly
    <3>4. Sees(u, ch[x].mem, d.mem, link'[<<y, x>>], link'[<<x, y>>], Kickable)
      <4>1. PICK B, D, A, Z : B = Behind(s, t) /\ D = Behind(x, y) /\ A = NetMsgs(D, now) /\ Z = Kickable
        OBVIOUS
      <4>2. PICK c, S, L, K, M, J : /\ c = ch[s] /\ S = ch[x].mem /\ L = link[<<y, x>>] /\ K = link[<<x, y>>]
                                    /\ M = link'[<<y, x>>] /\ J = link'[<<x, y>>]
        OBVIOUS
      <4>3. /\ L \in Seq(A) /\ K \in Seq(NetMsgs(B, now)) /\ K # << >> /\ Sees(u, S, c.mem, L, K, Z) /\ u \notin B
            /\ m = Head(K) /\ MsgOK(c, d, m, B) /\ (u \in Z \/ ~ Kicked(K, u)) /\ NetMsgs(D, now) \subseteq A
        BY <1>1, <3>2, <3>3, <4>1, <4>2
      <4>4. AnswerOK(d, answer, D, now) /\ M = L \o answer /\ J = Tail(K)
        BY <3>1, <3>3, <4>1, <4>2
      <4>5. Sees(u, S, d.mem, M, J, Z)
        BY <4>3, <4>4, FromBelow
      <4> QED BY <4>1, <4>2, <4>5
    <3> QED BY <3>1, <3>4
  <2>4. CASE x = s /\ y # t
    <3>1. y \in Peers(s)
      BY <1>1, <1>4, <1>9, <2>4, PeerIs
    <3>2. /\ link'[<<x, y>>] = link[<<x, y>>] \o relay /\ link'[<<y, x>>] = link[<<y, x>>]
          /\ ch'[x] = d /\ ch'[y] = ch[y]
      BY <1>2, <1>3, <1>4, <1>7, <2>4, <3>1
    <3>3. u \notin Behind(s, t) /\ (u \in d.mem => u \in ch[s].mem)
      <4>1. u \notin Behind(s, t)
        BY <2>4 DEF Behind
      <4> QED BY <1>1, <4>1 DEF MsgOK
    <3>4. NetMsgs(Behind(s, t), now) \subseteq NetMsgs(Behind(y, s), now)
      BY <1>1, <1>4, <2>4, Onward, MsgsGrow
    <3>5. /\ link[<<x, y>>] \in Seq(NetMsgs(Behind(y, s), now))
          /\ Sees(u, ch[s].mem, ch[y].mem, link[<<y, x>>], link[<<x, y>>], Kickable)
      BY <1>4, <1>6, <2>1, <2>4
    <3>6. Sees(u, d.mem, ch[y].mem, link[<<y, x>>], link'[<<x, y>>], Kickable)
      <4>1. PICK B, A, Z : B = Behind(s, t) /\ A = NetMsgs(Behind(y, s), now) /\ Z = Kickable
        OBVIOUS
      <4>2. PICK c, T, L, K, J : c = ch[s] /\ T = ch[y].mem /\ L = link[<<y, x>>] /\ K = link[<<x, y>>] /\ J = link'[<<x, y>>]
        OBVIOUS
      <4>3. /\ K \in Seq(A) /\ Sees(u, c.mem, T, L, K, Z) /\ NetMsgs(B, now) \subseteq A /\ RelayOK(c, d, relay, B, now, Z)
            /\ u \notin B /\ (u \in d.mem => u \in c.mem) /\ J = K \o relay /\ Z \subseteq Z
        BY <1>1, <3>2, <3>3, <3>4, <3>5, <4>1, <4>2
      <4>4. Sees(u, d.mem, T, L, J, Z)
        BY <4>3, Above
      <4> QED BY <4>1, <4>2, <4>4
    <3> QED BY <3>2, <3>6
  <2>5. CASE y = s /\ x # t
    <3>1. x \in Peers(s) /\ {s, x} \in Edges
      <4>1. {s, x} = {x, y}
        BY <2>5
      <4> QED BY <1>1, <1>4, <1>9, <4>1, PeerIs
    <3>2. /\ link'[<<y, x>>] = link[<<y, x>>] \o relay /\ link'[<<x, y>>] = link[<<x, y>>]
          /\ ch'[y] = d /\ ch'[x] = ch[x]
      BY <1>2, <1>3, <1>4, <1>7, <2>5, <3>1, ZenonT(40)
    <3>3. NetMsgs(Behind(s, t), now) \subseteq NetMsgs(Behind(x, s), now)
      BY <1>1, <2>5, <3>1, Onward, MsgsGrow
    <3>4. /\ link[<<y, x>>] \in Seq(NetMsgs(Behind(x, s), now))
          /\ Sees(u, ch[x].mem, ch[s].mem, link[<<y, x>>], link[<<x, y>>], Kickable)
      BY <1>4, <1>6, <2>1, <2>5
    <3>5. Sees(u, ch[x].mem, d.mem, link'[<<y, x>>], link[<<x, y>>], Kickable)
      BY <1>1, <3>2, <3>3, <3>4, Below, ZenonT(40)
    <3> QED BY <3>2, <3>5
  <2>6. CASE x # s /\ y # s
    <3>1. link'[<<y, x>>] = link[<<y, x>>] /\ link'[<<x, y>>] = link[<<x, y>>] /\ ch'[x] = ch[x] /\ ch'[y] = ch[y]
      BY <1>3, <1>4, <1>7, <2>6, ZenonT(40)
    <3> QED BY <2>1, <3>1
  <2> QED BY <2>2, <2>3, <2>4, <2>5, <2>6
<1> QED BY <1>8, <1>9

\* So a message that is handled keeps the invariant.
LEMMA HandledInv ==
  ASSUME NetInv, NEW s \in Nodes, NEW t \in Nodes, NEW m, NEW d, NEW relay, NEW answer,
         Handles(s, t, m, d, relay, answer)
  PROVE  NetInv'
<1>1. WiresOK(link, up, now)' /\ Quietly(link, Kickable)' /\ AllSee(ch, link, up, Kickable)'
  BY HandledWires, HandledSees
<1>2. /\ now' = now /\ kicked' = kicked /\ DOMAIN ch' = Nodes /\ ch'[s] = d /\ IsCopy(d, now)
      /\ \A x \in Nodes \ {s} : ch'[x] = ch[x]
  BY DEF NetInv, Handles, Handle, CopiesOK
<1>3. CopiesOK(ch, now)'
  BY <1>2 DEF CopiesOK, NetInv
<1> QED BY <1>1, <1>2, <1>3 DEF NetInv

\* Append as a concatenation.
LEMMA AppendIs ==
  ASSUME NEW A, NEW L \in Seq(A), NEW r \in A PROVE Append(L, r) = L \o <<r>>
OBVIOUS

\* s has changed its copy to d for a client of its own and tells all its links r.
Gives(s, r, d) ==
  /\ ch' = [ch EXCEPT ![s] = d] /\ link' = butone(s, s, r) /\ up' = up /\ now' = now
  /\ kicked' \in BOOLEAN /\ (kicked => kicked') /\ IsCopy(d, now)
  /\ r \in NetMsgs(AtHome(s), now) /\ RelayOK(ch[s], d, <<r>>, AtHome(s), now, Kickable')
  /\ \A u \in d.mem : u \in ch[s].mem \/ u \in AtHome(s)

\* The links after a client's command.
LEMMA GivenWires ==
  ASSUME NetInv, NEW s \in Nodes, NEW r, NEW d, Gives(s, r, d)
  PROVE  WiresOK(link, up, now)' /\ Quietly(link, Kickable)' /\ Kickable \subseteq Kickable'
<1>1. /\ now \in Nat /\ WiresOK(link, up, now) /\ DOMAIN link = Wires /\ up \subseteq Edges /\ Quietly(link, Kickable)
      /\ link' = butone(s, s, r) /\ r \in NetMsgs(AtHome(s), now)
      /\ RelayOK(ch[s], d, <<r>>, AtHome(s), now, Kickable') /\ up' = up /\ now' = now
  BY DEF NetInv, WiresOK, Gives
<1>2. Kickable \subseteq Kickable'
  BY DEF Kickable, Gives, NetInv
<1>3. DOMAIN link' = Wires
  BY <1>1, ButoneWires
<1>4. ASSUME NEW x \in Nodes, NEW y \in Nodes
      PROVE  /\ link'[<<y, x>>] \in Seq(NetMsgs(Behind(x, y), now))
             /\ Len(link'[<<y, x>>]) # 0 => {x, y} \in up
             /\ \A u \in Users \ Kickable' : ~ Kicked(link'[<<y, x>>], u)
  <2>1. /\ link[<<y, x>>] \in Seq(NetMsgs(Behind(x, y), now))
        /\ Len(link[<<y, x>>]) # 0 => {x, y} \in up
        /\ \A u \in Users \ Kickable' : ~ Kicked(link[<<y, x>>], u)
    BY <1>1, <1>2, WireType DEF Quietly
  <2>2. link'[<<y, x>>] = IF y = s /\ x \in Peers(s) THEN Append(link[<<s, x>>], r) ELSE link[<<y, x>>]
    BY <1>1, ButoneWires
  <2>3. CASE y = s /\ x \in Peers(s)
    <3>1. {s, x} \in up /\ {x, y} \in up /\ {s, x} \in Edges
      <4>1. {x, s} = {s, x} /\ {s, x} \in up
        BY <1>1, <2>3, PeerIs
      <4> QED BY <1>1, <2>3, <4>1
    <3>2. NetMsgs(AtHome(s), now) \subseteq NetMsgs(Behind(x, y), now)
      BY <1>1, <2>3, <3>1, HomeBehind, MsgsGrow
    <3>3. link'[<<y, x>>] = link[<<y, x>>] \o <<r>>
      BY <1>1, <2>1, <2>2, <2>3, <3>2, AppendIs, SMTT(30)
    <3>4. link'[<<y, x>>] \in Seq(NetMsgs(Behind(x, y), now))
      BY <1>1, <2>1, <3>2, <3>3, WireGrows
    <3>5. ASSUME NEW u \in Users \ Kickable' PROVE ~ Kicked(link'[<<y, x>>], u)
      <4>1. Kicked(link'[<<y, x>>], u) => Kicked(link[<<y, x>>], u) \/ u \in Kickable'
        BY <1>1, <2>1, <3>2, <3>3, RelayQuiet
      <4> QED BY <2>1, <4>1
    <3> QED BY <3>1, <3>4, <3>5
  <2>4. CASE ~ (y = s /\ x \in Peers(s))
    BY <2>1, <2>2, <2>4
  <2> QED BY <2>3, <2>4
<1>5. WiresOK(link', up', now')
  <2>1. ASSUME NEW x \in Nodes, NEW y \in Nodes PROVE WireOK(link'[<<y, x>>], NetMsgs(Behind(x, y), now'), {x, y}, up')
    BY <1>1, <1>3, <1>4 DEF WireOK
  <2> QED BY <1>1, <1>3, <2>1 DEF WiresOK
<1>6. Quietly(link', Kickable')
  BY <1>4 DEF Quietly
<1> QED BY <1>2, <1>5, <1>6

\* Every server still sees every client.
LEMMA GivenSees ==
  ASSUME NetInv, NEW s \in Nodes, NEW r, NEW d, Gives(s, r, d)
  PROVE  AllSee(ch, link, up, Kickable)'
<1>1. /\ now \in Nat /\ WiresOK(link, up, now) /\ DOMAIN link = Wires /\ up \subseteq Edges
      /\ AllSee(ch, link, up, Kickable) /\ DOMAIN ch = Nodes
      /\ link' = butone(s, s, r) /\ r \in NetMsgs(AtHome(s), now)
      /\ RelayOK(ch[s], d, <<r>>, AtHome(s), now, Kickable')
  BY DEF NetInv, WiresOK, Gives, CopiesOK
<1>2. Kickable \subseteq Kickable'
  BY GivenWires
<1>3. /\ up' = up /\ DOMAIN ch' = Nodes /\ ch'[s] = d
      /\ \A x \in Nodes \ {s} : ch'[x] = ch[x]
  BY <1>1 DEF Gives
<1> SUFFICES ASSUME NEW u \in Users, NEW x \in Nodes, x # home[u], NEW y, y = from(x, u)
             PROVE  SeenBy(ch', link', up', Kickable', u, x, y)
  BY DEF AllSee
<1>4. y \in Nodes /\ {x, y} \in Edges /\ x # y /\ u \in Behind(x, y)
  BY NextHop
<1>5. SeenBy(ch, link, up, Kickable, u, x, y)
  BY <1>1 DEF AllSee
<1>6. ASSUME NEW z \in Nodes, NEW w \in Nodes
      PROVE  link[<<w, z>>] \in Seq(NetMsgs(Behind(z, w), now))
  BY <1>1, WireType
<1>7. ASSUME NEW z \in Nodes, NEW w \in Nodes
      PROVE  link'[<<z, w>>] = IF z = s /\ w \in Peers(s) THEN Append(link[<<s, w>>], r) ELSE link[<<z, w>>]
  BY <1>1, ButoneWires
<1>8. x = s => u \notin AtHome(s) /\ (u \in d.mem => u \in ch[s].mem)
  BY DEF AtHome, Gives
<1>9. CASE {x, y} \notin up
  <2>1. u \notin ch[x].mem
    BY <1>5, <1>9 DEF SeenBy
  <2>2. u \notin ch'[x].mem
    BY <1>3, <1>8, <2>1
  <2> QED BY <1>3, <1>9, <2>2 DEF SeenBy
<1>10. CASE {x, y} \in up
  <2>1. Sees(u, ch[x].mem, ch[y].mem, link[<<y, x>>], link[<<x, y>>], Kickable)
    BY <1>5, <1>10 DEF SeenBy
  <2> SUFFICES Sees(u, ch'[x].mem, ch'[y].mem, link'[<<y, x>>], link'[<<x, y>>], Kickable')
    BY <1>3, <1>10 DEF SeenBy
  <2>2. CASE x = s
    <3>1. y \in Peers(s) /\ y # s
      BY <1>1, <1>4, <1>10, <2>2, PeerIs
    <3>2. NetMsgs(AtHome(s), now) \subseteq NetMsgs(Behind(y, s), now)
      BY <1>1, <1>4, <2>2, HomeBehind, MsgsGrow
    <3>3. link[<<x, y>>] \in Seq(NetMsgs(Behind(y, s), now)) /\ r \in NetMsgs(Behind(y, s), now)
      BY <1>1, <1>4, <1>6, <2>2, <3>2
    <3>4. /\ link'[<<x, y>>] = link[<<x, y>>] \o <<r>> /\ link'[<<y, x>>] = link[<<y, x>>]
          /\ ch'[x] = d /\ ch'[y] = ch[y]
      <4>1. link'[<<x, y>>] = Append(link[<<x, y>>], r) /\ link'[<<y, x>>] = link[<<y, x>>]
        BY <1>4, <1>7, <2>2, <3>1
      <4> QED BY <1>3, <1>4, <2>2, <3>1, <3>3, <4>1, AppendIs, ZenonT(40)
    <3>5. Sees(u, d.mem, ch[y].mem, link[<<y, x>>], link'[<<x, y>>], Kickable')
      <4>1. PICK B, A, Z, Y : B = AtHome(s) /\ A = NetMsgs(Behind(y, s), now) /\ Z = Kickable /\ Y = Kickable'
        OBVIOUS
      <4>2. PICK c, T, L, K, J, relay : /\ c = ch[s] /\ T = ch[y].mem /\ L = link[<<y, x>>] /\ K = link[<<x, y>>]
                                        /\ J = link'[<<x, y>>] /\ relay = <<r>>
        OBVIOUS
      <4>3. /\ K \in Seq(A) /\ Sees(u, c.mem, T, L, K, Z) /\ NetMsgs(B, now) \subseteq A /\ RelayOK(c, d, relay, B, now, Y)
            /\ u \notin B /\ (u \in d.mem => u \in c.mem) /\ J = K \o relay /\ Z \subseteq Y
        BY <1>1, <1>2, <1>8, <2>1, <2>2, <3>2, <3>3, <3>4, <4>1, <4>2
      <4>4. Sees(u, d.mem, T, L, J, Y)
        BY <4>3, Above
      <4> QED BY <4>1, <4>2, <4>4
    <3> QED BY <3>4, <3>5
  <2>3. CASE y = s
    <3>1. x \in Peers(s) /\ {s, x} \in Edges /\ x # s
      <4>1. {s, x} = {x, y}
        BY <2>3
      <4> QED BY <1>1, <1>4, <1>10, <2>3, <4>1, PeerIs
    <3>2. NetMsgs(AtHome(s), now) \subseteq NetMsgs(Behind(x, s), now)
      BY <1>1, <3>1, HomeBehind, MsgsGrow
    <3>3. link[<<y, x>>] \in Seq(NetMsgs(Behind(x, s), now)) /\ r \in NetMsgs(Behind(x, s), now)
      BY <1>1, <1>4, <1>6, <2>3, <3>2
    <3>4. /\ link'[<<y, x>>] = link[<<y, x>>] \o <<r>> /\ link'[<<x, y>>] = link[<<x, y>>]
          /\ ch'[y] = d /\ ch'[x] = ch[x]
      <4>1. link'[<<y, x>>] = Append(link[<<y, x>>], r) /\ link'[<<x, y>>] = link[<<x, y>>]
        BY <1>4, <1>7, <2>3, <3>1
      <4> QED BY <1>3, <1>4, <2>3, <3>1, <3>3, <4>1, AppendIs
    <3>5. Sees(u, ch[x].mem, d.mem, link'[<<y, x>>], link[<<x, y>>], Kickable')
      <4>1. PICK B, A, Z, Y : B = AtHome(s) /\ A = NetMsgs(Behind(x, s), now) /\ Z = Kickable /\ Y = Kickable'
        OBVIOUS
      <4>2. PICK c, S, L, K, M, relay : /\ c = ch[s] /\ S = ch[x].mem /\ L = link[<<y, x>>] /\ K = link[<<x, y>>]
                                        /\ M = link'[<<y, x>>] /\ relay = <<r>>
        OBVIOUS
      <4>3. /\ L \in Seq(A) /\ Sees(u, S, c.mem, L, K, Z) /\ NetMsgs(B, now) \subseteq A /\ RelayOK(c, d, relay, B, now, Y)
            /\ M = L \o relay /\ Z \subseteq Y
        BY <1>1, <1>2, <2>1, <2>3, <3>2, <3>3, <3>4, <4>1, <4>2
      <4>4. Sees(u, S, d.mem, M, K, Y)
        BY <4>3, Below
      <4> QED BY <4>1, <4>2, <4>4
    <3> QED BY <3>4, <3>5
  <2>4. CASE x # s /\ y # s
    <3>1. link'[<<y, x>>] = link[<<y, x>>] /\ link'[<<x, y>>] = link[<<x, y>>] /\ ch'[x] = ch[x] /\ ch'[y] = ch[y]
      BY <1>3, <1>4, <1>7, <2>4
    <3> QED BY <1>2, <2>1, <3>1 DEF Sees
  <2> QED BY <2>2, <2>3, <2>4
<1> QED BY <1>9, <1>10

\* So a command keeps the invariant.
LEMMA GivenInv ==
  ASSUME NetInv, NEW s \in Nodes, NEW r, NEW d, Gives(s, r, d) PROVE NetInv'
<1>1. WiresOK(link, up, now)' /\ Quietly(link, Kickable)' /\ AllSee(ch, link, up, Kickable)'
  BY GivenWires, GivenSees
<1>2. /\ now' = now /\ kicked' \in BOOLEAN /\ DOMAIN ch' = Nodes /\ ch'[s] = d /\ IsCopy(d, now)
      /\ \A x \in Nodes \ {s} : ch'[x] = ch[x]
  BY DEF NetInv, Gives, CopiesOK
<1>3. CopiesOK(ch, now)'
  BY <1>2 DEF CopiesOK, NetInv
<1> QED BY <1>1, <1>2, <1>3 DEF NetInv

\* The free copy.
LEMMA FreeCopy ==
  ASSUME NEW n \in Nat PROVE IsCopy(Free, n) /\ NoMode \in Modes /\ Free.mem = {}
<1>1. NoMode \in Modes
  BY MergeAssumption DEF Modes, NoMode
<1>2. Free \in [ts : 0 .. n, mem : SUBSET Users, ops : SUBSET Users, mode : Modes]
  BY <1>1 DEF Free
<1> QED BY <1>1, <1>2 DEF IsCopy, Free

\* The fields of a copy.
LEMMA CopyIs ==
  ASSUME NEW n, NEW c, IsCopy(c, n)
  PROVE  /\ c.ts \in 0 .. n /\ c.mem \in SUBSET Users /\ c.ops \in SUBSET Users /\ c.mode \in Modes
         /\ c.ops \subseteq c.mem /\ (c.mem = {} => c = Free)
BY DEF IsCopy

\* remove_users.
LEMMA CopyRemove ==
  ASSUME NEW n \in Nat, NEW c, IsCopy(c, n), NEW U, NEW d, d = remove_users(c, U)
  PROVE  IsCopy(d, n) /\ d.mem = c.mem \ U
<1>1. CASE c.mem \subseteq U
  <2>1. d = Free
    BY <1>1 DEF remove_users
  <2> QED BY <1>1, <2>1, FreeCopy
<1>2. CASE ~ (c.mem \subseteq U)
  <2>1. d = [c EXCEPT !.mem = @ \ U, !.ops = @ \ U]
    BY <1>2 DEF remove_users
  <2>2. c \in [ts : 0 .. n, mem : SUBSET Users, ops : SUBSET Users, mode : Modes] /\ c.ops \subseteq c.mem
    BY DEF IsCopy
  <2>3. /\ d \in [ts : 0 .. n, mem : SUBSET Users, ops : SUBSET Users, mode : Modes]
        /\ d.mem = c.mem \ U /\ d.ops = c.ops \ U
    BY <2>1, <2>2
  <2>4. d.mem # {}
    BY <1>2, <2>3
  <2> QED BY <2>2, <2>3, <2>4 DEF IsCopy
<1> QED BY <1>1, <1>2

\* set_mode does not change who is a member.
LEMMA CopyMode ==
  ASSUME NEW n \in Nat, NEW c, IsCopy(c, n), c.mem # {}, NEW plus \in BOOLEAN, NEW x \in Users \cup Letters,
         NEW d, d = set_mode(c, plus, x)
  PROVE  IsCopy(d, n) /\ d.mem = c.mem
<1>1. c \in [ts : 0 .. n, mem : SUBSET Users, ops : SUBSET Users, mode : Modes] /\ c.ops \subseteq c.mem
  BY DEF IsCopy
<1>2. CASE x \in Users
  <2>1. PICK o : o = IF plus THEN c.ops \cup ({x} \cap c.mem) ELSE c.ops \ {x}
    OBVIOUS
  <2>2. d = [c EXCEPT !.ops = o] /\ o \subseteq c.mem /\ o \in SUBSET Users
    BY <1>1, <1>2, <2>1 DEF set_mode
  <2> QED BY <1>1, <2>2 DEF IsCopy
<1>3. CASE x \notin Users
  <2>1. PICK f : f = IF plus THEN c.mode.flags \cup {x} ELSE c.mode.flags \ {x}
    OBVIOUS
  <2>2. c.mode \in Modes /\ x \in Letters
    BY <1>1, <1>3
  <2>3. f \in SUBSET Letters
    BY <2>1, <2>2 DEF Modes
  <2>4. PICK m : m = [c.mode EXCEPT !.flags = f]
    OBVIOUS
  <2>5. m \in Modes
    BY <2>2, <2>3, <2>4 DEF Modes
  <2>6. d = [c EXCEPT !.mode = m]
    BY <1>3, <2>1, <2>4 DEF set_mode
  <2> QED BY <1>1, <2>5, <2>6 DEF IsCopy
<1> QED BY <1>2, <1>3

\* The timestamp and the modes of a merged copy.
LEMMA MergedIs ==
  ASSUME NEW n \in Nat, NEW a \in 0 .. n, NEW b \in 0 .. n, NEW x \in Modes, NEW y \in Modes
  PROVE  sjoin_ts(a, b) \in 0 .. n /\ sjoin_mode(a, x, b, y) \in Modes
<1>1. merge_mode(x, y) \in Modes
  BY MergeClosed
<1> QED BY <1>1 DEF sjoin_ts, sjoin_mode

\* m_sjoin, client form.
LEMMA CopyClient ==
  ASSUME NEW n \in Nat, NEW c, IsCopy(c, n), NEW u \in Users, NEW t \in 0 .. n, NEW d, d = client_sjoin(c, u, t)
  PROVE  IsCopy(d, n) /\ d.mem = c.mem \cup {u}
<1>1. c \in [ts : 0 .. n, mem : SUBSET Users, ops : SUBSET Users, mode : Modes] /\ c.ops \subseteq c.mem
  BY DEF IsCopy
<1>2. PICK ts : ts = IF Exists(c) THEN sjoin_ts(c.ts, t) ELSE t
  OBVIOUS
<1>3. ts \in 0 .. n
  BY <1>1, <1>2 DEF sjoin_ts
<1>4. d = [c EXCEPT !.ts = ts, !.mem = @ \cup {u}]
  BY <1>2 DEF client_sjoin
<1>5. /\ d \in [ts : 0 .. n, mem : SUBSET Users, ops : SUBSET Users, mode : Modes]
      /\ d.mem = c.mem \cup {u} /\ d.ops = c.ops
  BY <1>1, <1>3, <1>4, ZenonT(40)
<1> QED BY <1>1, <1>5 DEF IsCopy

\* m_sjoin, server form.
LEMMA CopySjoin ==
  ASSUME NEW n \in Nat, NEW c, IsCopy(c, n), NEW who \in SUBSET Users, NEW m, m.ts \in 0 .. n, m.mode \in Modes,
         NEW d, d = server_sjoin(c, m, who)
  PROVE  IsCopy(d, n) /\ d.mem = c.mem \cup who
<1>1. c \in [ts : 0 .. n, mem : SUBSET Users, ops : SUBSET Users, mode : Modes] /\ c.ops \subseteq c.mem
  BY DEF IsCopy
<1>2. CASE ~ Exists(c) /\ who = {}
  <2>1. d = Free /\ c.mem = {}
    BY <1>2 DEF server_sjoin, Exists
  <2> QED BY <1>2, <2>1, FreeCopy
<1>3. CASE ~ (~ Exists(c) /\ who = {})
  <2>1. PICK ts : ts = IF ~ Exists(c) THEN m.ts ELSE sjoin_ts(c.ts, m.ts)
    OBVIOUS
  <2>2. PICK md : md = IF ~ Exists(c) THEN m.mode ELSE sjoin_mode(c.ts, c.mode, m.ts, m.mode)
    OBVIOUS
  <2>3. PICK o : o = (IF Exists(c) /\ wins(m.ts, c.ts) THEN {} ELSE c.ops)
                       \cup (IF Exists(c) /\ wins(c.ts, m.ts) THEN {} ELSE (m.ops \cap who) \ c.mem)
    OBVIOUS
  <2>4. d = [ts |-> ts, mem |-> c.mem \cup who, ops |-> o, mode |-> md]
    BY <1>3, <2>1, <2>2, <2>3 DEF server_sjoin
  <2>5. ts \in 0 .. n /\ md \in Modes
    BY <1>1, <2>1, <2>2, MergedIs
  <2>6. o \subseteq c.mem \cup who
    BY <1>1, <2>3
  <2>7. c.mem \cup who # {} /\ c.mem \cup who \in SUBSET Users
    BY <1>1, <1>3 DEF Exists
  <2> QED BY <2>4, <2>5, <2>6, <2>7 DEF IsCopy
<1> QED BY <1>2, <1>3

\* The fields of a message, by its type.
LEMMA MsgFields ==
  ASSUME NEW B, NEW n, NEW m \in NetMsgs(B, n)
  PROVE  /\ m.type = "SJOIN" => /\ m.ts \in 0 .. n /\ m.who \in SUBSET Users /\ m.ops \in SUBSET Users
                                /\ m.mode \in Modes /\ m.bare \in BOOLEAN
         /\ m.type = "CliSJOIN" => m.by \in B /\ m.ts \in 0 .. n
         /\ m.type = "PART" => m.by \in B
         /\ m.type = "KICK" => m.by \in Users /\ m.who \in Users
         /\ m.type = "MODE" => /\ m.by \in Users /\ m.ts \in 0 .. n /\ m.plus \in BOOLEAN
                               /\ m.what \in Users \cup Letters
         /\ m.type = "SQUIT" => m.lost \in SUBSET B
BY DEF NetMsgs

\* A SJOIN for other servers, and what send_channel_modes sends.
LEMMA SjoinMsg ==
  ASSUME NEW B, NEW n, NEW c, IsCopy(c, n), NEW who \in SUBSET Users, NEW ops \in SUBSET Users, NEW mode \in Modes
  PROVE  /\ SJOIN(c, who, ops, mode) \in NetMsgs(B, n)
         /\ \A u : /\ Joins(SJOIN(c, who, ops, mode), u) <=> u \in who
                   /\ ~ Leaves(SJOIN(c, who, ops, mode), u)
<1>1. c.ts \in 0 .. n
  BY CopyIs
<1>2. PICK r : r = SJOIN(c, who, ops, mode)
  OBVIOUS
<1>3. r = [type |-> "SJOIN", ts |-> c.ts, who |-> who, ops |-> ops, mode |-> mode, bare |-> FALSE]
  BY <1>2 DEF SJOIN
<1>4. r \in NetMsgs(B, n)
  BY <1>1, <1>3 DEF NetMsgs
<1>5. \A u : (Joins(r, u) <=> u \in who) /\ ~ Leaves(r, u)
  BY <1>3 DEF Joins, Leaves, Kicks
<1> QED BY <1>2, <1>4, <1>5

\* The same without modes.
LEMMA BareMsg ==
  ASSUME NEW B, NEW n \in Nat, NEW c, IsCopy(c, n), NEW who \in SUBSET Users, NEW ops \in SUBSET Users
  PROVE  /\ BareSJOIN(c, who, ops) \in NetMsgs(B, n)
         /\ \A u : /\ Joins(BareSJOIN(c, who, ops), u) <=> u \in who
                   /\ ~ Leaves(BareSJOIN(c, who, ops), u)
<1>1. c.ts \in 0 .. n /\ NoMode \in Modes
  BY CopyIs, FreeCopy
<1>2. PICK r : r = BareSJOIN(c, who, ops)
  OBVIOUS
<1>3. r = [type |-> "SJOIN", ts |-> c.ts, who |-> who, ops |-> ops, mode |-> NoMode, bare |-> TRUE]
  BY <1>2 DEF SJOIN, BareSJOIN
<1>4. r \in NetMsgs(B, n)
  BY <1>1, <1>3 DEF NetMsgs
<1>5. \A u : (Joins(r, u) <=> u \in who) /\ ~ Leaves(r, u)
  BY <1>3 DEF Joins, Leaves, Kicks
<1> QED BY <1>2, <1>4, <1>5

\* A burst tells who are members.
LEMMA BurstMsg ==
  ASSUME NEW B, NEW n, NEW c, IsCopy(c, n)
  PROVE  \/ burst(c) = << >> /\ c.mem = {}
         \/ \E r \in NetMsgs(B, n) : burst(c) = <<r>> /\ \A u : (Joins(r, u) <=> u \in c.mem) /\ ~ Leaves(r, u)
<1>1. CASE ~ Exists(c)
  BY <1>1 DEF burst, Exists
<1>2. CASE Exists(c)
  <2>1. PICK r : r = SJOIN(c, c.mem, c.ops, c.mode)
    OBVIOUS
  <2>2. r \in NetMsgs(B, n) /\ \A u : (Joins(r, u) <=> u \in c.mem) /\ ~ Leaves(r, u)
    BY <2>1, CopyIs, SjoinMsg
  <2>3. burst(c) = <<r>>
    BY <1>2, <2>1 DEF burst
  <2> QED BY <2>2, <2>3
<1> QED BY <1>1, <1>2

\* The first message from t.
LEMMA Received ==
  ASSUME NetInv, NEW s \in Nodes, NEW t \in Nodes, NEW type, Incoming(s, t, type),
         NEW m, m = Head(link[<<t, s>>])
  PROVE  /\ link[<<t, s>>] # << >> /\ m \in NetMsgs(Behind(s, t), now) /\ m.type = type
         /\ now \in Nat /\ IsCopy(ch[s], now) /\ Behind(s, t) \in SUBSET Users
         /\ \A u \in Users : Kicks(m, u) => u \in Kickable
<1>1. now \in Nat /\ IsCopy(ch[s], now) /\ WiresOK(link, up, now) /\ Quietly(link, Kickable)
  BY DEF NetInv, CopiesOK
<1>2. link[<<t, s>>] # << >> /\ m.type = type
  BY DEF Incoming
<1>3. link[<<t, s>>] \in Seq(NetMsgs(Behind(s, t), now))
  BY <1>1, WireType
<1>4. m \in NetMsgs(Behind(s, t), now)
  BY <1>2, <1>3
<1>5. Behind(s, t) \in SUBSET Users
  BY DEF Behind
<1>6. ASSUME NEW u \in Users, Kicks(m, u) PROVE u \in Kickable
  <2>1. Kicked(link[<<t, s>>], u)
    BY <1>2, <1>3, <1>6, KickedHead
  <2> QED BY <1>1, <2>1 DEF Quietly
<1> QED BY <1>1, <1>2, <1>4, <1>5, <1>6

\* receive_sjoin.
LEMMA InvSjoin ==
  ASSUME NetInv, NEW s \in Nodes, NEW t \in Nodes, receive_sjoin(s, t) PROVE NetInv'
<1>1. PICK m : m = Head(link[<<t, s>>])
  OBVIOUS
<1>2. PICK who : who = m.who \cap Behind(s, t)
  OBVIOUS
<1>3. PICK nw : nw = server_sjoin(ch[s], m, who)
  OBVIOUS
<1>4. PICK relay : relay = IF who = {} THEN << >> ELSE <<sjoin_relay(ch[s], m, who, nw)>>
  OBVIOUS
<1>5. Incoming(s, t, "SJOIN") /\ Handle(s, t, nw, relay, << >>)
  BY <1>1, <1>2, <1>3, <1>4 DEF receive_sjoin
<1>6. /\ link[<<t, s>>] # << >> /\ m \in NetMsgs(Behind(s, t), now) /\ m.type = "SJOIN"
      /\ now \in Nat /\ IsCopy(ch[s], now) /\ Behind(s, t) \in SUBSET Users
  BY <1>1, <1>5, Received
<1>7. m.ts \in 0 .. now /\ m.who \in SUBSET Users /\ m.ops \in SUBSET Users /\ m.mode \in Modes
  BY <1>6, MsgFields
<1>8. who \in SUBSET Users
  BY <1>2, <1>7
<1>9. IsCopy(nw, now) /\ nw.mem = ch[s].mem \cup who
  BY <1>3, <1>6, <1>7, <1>8, CopySjoin
<1>10. MsgOK(ch[s], nw, m, Behind(s, t))
  BY <1>2, <1>6, <1>9 DEF MsgOK, Joins, Leaves, Kicks
<1>11. RelayOK(ch[s], nw, relay, Behind(s, t), now, Kickable)
  <2>1. CASE who = {}
    BY <1>4, <1>9, <2>1 DEF RelayOK
  <2>2. CASE who # {}
    <3>1. PICK r : r = sjoin_relay(ch[s], m, who, nw)
      OBVIOUS
    <3>2. PICK o : o = IF Exists(ch[s]) /\ wins(ch[s].ts, m.ts) THEN {} ELSE m.ops \cap who
      OBVIOUS
    <3>3. o \in SUBSET Users /\ nw.mode \in Modes
      BY <1>7, <1>9, <3>2, CopyIs
    <3>4. r = BareSJOIN(nw, who, o) \/ r = SJOIN(nw, who, o, nw.mode)
      BY <3>1, <3>2 DEF sjoin_relay
    <3>5. r \in NetMsgs(Behind(s, t), now) /\ \A u : (Joins(r, u) <=> u \in who) /\ ~ Leaves(r, u)
      <4>1. CASE r = BareSJOIN(nw, who, o)
        BY <1>6, <1>8, <1>9, <3>3, <4>1, BareMsg
      <4>2. CASE r = SJOIN(nw, who, o, nw.mode)
        BY <1>6, <1>8, <1>9, <3>3, <4>2, SjoinMsg
      <4> QED BY <3>4, <4>1, <4>2
    <3>6. relay = <<r>>
      BY <1>4, <2>2, <3>1
    <3>7. \A u : ~ Kicks(r, u)
      BY <3>5 DEF Leaves
    <3> QED BY <1>9, <3>5, <3>6, <3>7 DEF RelayOK
  <2> QED BY <2>1, <2>2
<1>12. Handles(s, t, m, nw, relay, << >>)
  BY <1>1, <1>5, <1>6, <1>9, <1>10, <1>11 DEF Handles, AnswerOK
<1> QED BY <1>12, HandledInv

\* receive_client_sjoin.
LEMMA InvClientSjoin ==
  ASSUME NetInv, NEW s \in Nodes, NEW t \in Nodes, receive_client_sjoin(s, t) PROVE NetInv'
<1>1. PICK m : m = Head(link[<<t, s>>])
  OBVIOUS
<1>2. PICK nw : nw = client_sjoin(ch[s], m.by, m.ts)
  OBVIOUS
<1>3. PICK r, answer : r = CliSJOIN(m.by, nw.ts) /\ answer = IF Exists(ch[s]) THEN << >> ELSE <<RESYNCH>>
  OBVIOUS
<1>4. Incoming(s, t, "CliSJOIN") /\ Handle(s, t, nw, <<r>>, answer)
  BY <1>1, <1>2, <1>3 DEF receive_client_sjoin
<1>5. /\ link[<<t, s>>] # << >> /\ m \in NetMsgs(Behind(s, t), now) /\ m.type = "CliSJOIN"
      /\ now \in Nat /\ IsCopy(ch[s], now) /\ Behind(s, t) \in SUBSET Users
  BY <1>1, <1>4, Received
<1>6. m.ts \in 0 .. now /\ m.by \in Behind(s, t) /\ m.by \in Users
  BY <1>5, MsgFields
<1>7. IsCopy(nw, now) /\ nw.mem = ch[s].mem \cup {m.by}
  BY <1>2, <1>5, <1>6, CopyClient
<1>8. MsgOK(ch[s], nw, m, Behind(s, t))
  BY <1>5, <1>6, <1>7 DEF MsgOK, Joins, Leaves, Kicks
<1>9. r = [type |-> "CliSJOIN", by |-> m.by, ts |-> nw.ts] /\ nw.ts \in 0 .. now
  BY <1>3, <1>7, CopyIs DEF CliSJOIN
<1>10. r \in NetMsgs(Behind(s, t), now)
  BY <1>6, <1>9 DEF NetMsgs
<1>11. \A u : (Joins(r, u) <=> u = m.by) /\ ~ Leaves(r, u) /\ ~ Kicks(r, u)
  BY <1>9 DEF Joins, Leaves, Kicks
<1>12. RelayOK(ch[s], nw, <<r>>, Behind(s, t), now, Kickable)
  BY <1>7, <1>10, <1>11 DEF RelayOK
<1>13. AnswerOK(nw, answer, Behind(t, s), now)
  <2>1. RESYNCH \in NetMsgs(Behind(t, s), now) /\ \A u : ~ Joins(RESYNCH, u) /\ ~ Leaves(RESYNCH, u)
    BY DEF RESYNCH, NetMsgs, Joins, Leaves, Kicks
  <2> QED BY <1>3, <2>1 DEF AnswerOK
<1>14. Handles(s, t, m, nw, <<r>>, answer)
  BY <1>1, <1>4, <1>5, <1>7, <1>8, <1>12, <1>13 DEF Handles
<1> QED BY <1>14, HandledInv

\* A message m that removes the clients U and is passed on as it came.
LEMMA InvRemove ==
  ASSUME NetInv, NEW s \in Nodes, NEW t \in Nodes, NEW type, Incoming(s, t, type), NEW m, m = Head(link[<<t, s>>]),
         NEW U, \A u \in Users : ~ Joins(m, u) /\ (Leaves(m, u) <=> u \in U),
         Handle(s, t, remove_users(ch[s], U), <<m>>, << >>)
  PROVE  NetInv'
<1>1. /\ link[<<t, s>>] # << >> /\ m \in NetMsgs(Behind(s, t), now) /\ now \in Nat /\ IsCopy(ch[s], now)
      /\ \A u \in Users : Kicks(m, u) => u \in Kickable
  BY Received
<1>2. PICK d : d = remove_users(ch[s], U)
  OBVIOUS
<1>3. IsCopy(d, now) /\ d.mem = ch[s].mem \ U
  BY <1>1, <1>2, CopyRemove
<1>4. MsgOK(ch[s], d, m, Behind(s, t))
  BY <1>3 DEF MsgOK
<1>5. RelayOK(ch[s], d, <<m>>, Behind(s, t), now, Kickable)
  BY <1>1, <1>3 DEF RelayOK
<1>6. Handles(s, t, m, d, <<m>>, << >>)
  BY <1>1, <1>2, <1>3, <1>4, <1>5 DEF Handles, AnswerOK
<1> QED BY <1>6, HandledInv

\* A message that is dropped.
LEMMA InvDrop ==
  ASSUME NetInv, NEW s \in Nodes, NEW t \in Nodes, NEW type, Incoming(s, t, type), NEW m, m = Head(link[<<t, s>>]),
         \A u \in Users : ~ Joins(m, u) /\ (Leaves(m, u) => u \notin ch[s].mem), Handle(s, t, ch[s], << >>, << >>)
  PROVE  NetInv'
<1>1. link[<<t, s>>] # << >> /\ now \in Nat /\ IsCopy(ch[s], now)
  BY Received
<1>2. MsgOK(ch[s], ch[s], m, Behind(s, t))
  BY DEF MsgOK
<1>3. Handles(s, t, m, ch[s], << >>, << >>)
  BY <1>1, <1>2 DEF Handles, RelayOK, AnswerOK
<1> QED BY <1>3, HandledInv

\* receive_part.
LEMMA InvPart ==
  ASSUME NetInv, NEW s \in Nodes, NEW t \in Nodes, receive_part(s, t) PROVE NetInv'
<1>1. PICK m : m = Head(link[<<t, s>>])
  OBVIOUS
<1>2. /\ Incoming(s, t, "PART")
      /\ IF m.by \in ch[s].mem THEN Handle(s, t, remove_users(ch[s], {m.by}), <<m>>, << >>)
         ELSE Handle(s, t, ch[s], << >>, << >>)
  BY <1>1 DEF receive_part
<1>3. m.type = "PART"
  BY <1>1, <1>2 DEF Incoming
<1>4. \A u : ~ Joins(m, u) /\ (Leaves(m, u) <=> u = m.by)
  BY <1>3 DEF Joins, Leaves, Kicks
<1>5. CASE m.by \in ch[s].mem
  <2>1. PICK U : U = {m.by}
    OBVIOUS
  <2>2. Handle(s, t, remove_users(ch[s], U), <<m>>, << >>) /\ \A u \in Users : ~ Joins(m, u) /\ (Leaves(m, u) <=> u \in U)
    BY <1>2, <1>4, <1>5, <2>1
  <2> QED BY <1>1, <1>2, <2>2, InvRemove
<1>6. CASE m.by \notin ch[s].mem
  <2>1. Handle(s, t, ch[s], << >>, << >>) /\ \A u \in Users : ~ Joins(m, u) /\ (Leaves(m, u) => u \notin ch[s].mem)
    BY <1>2, <1>4, <1>6
  <2> QED BY <1>1, <1>2, <2>1, InvDrop
<1> QED BY <1>5, <1>6

\* receive_kick.
LEMMA InvKick ==
  ASSUME NetInv, NEW s \in Nodes, NEW t \in Nodes, receive_kick(s, t) PROVE NetInv'
<1>1. PICK m : m = Head(link[<<t, s>>])
  OBVIOUS
<1>2. /\ Incoming(s, t, "KICK")
      /\ IF m.who \in ch[s].mem THEN Handle(s, t, remove_users(ch[s], {m.who}), <<m>>, << >>)
         ELSE Handle(s, t, ch[s], << >>, << >>)
  BY <1>1 DEF receive_kick
<1>3. m.type = "KICK"
  BY <1>1, <1>2 DEF Incoming
<1>4. \A u : ~ Joins(m, u) /\ (Leaves(m, u) <=> u = m.who)
  BY <1>3 DEF Joins, Leaves, Kicks
<1>5. CASE m.who \in ch[s].mem
  <2>1. PICK U : U = {m.who}
    OBVIOUS
  <2>2. Handle(s, t, remove_users(ch[s], U), <<m>>, << >>) /\ \A u \in Users : ~ Joins(m, u) /\ (Leaves(m, u) <=> u \in U)
    BY <1>2, <1>4, <1>5, <2>1
  <2> QED BY <1>1, <1>2, <2>2, InvRemove
<1>6. CASE m.who \notin ch[s].mem
  <2>1. Handle(s, t, ch[s], << >>, << >>) /\ \A u \in Users : ~ Joins(m, u) /\ (Leaves(m, u) => u \notin ch[s].mem)
    BY <1>2, <1>4, <1>6
  <2> QED BY <1>1, <1>2, <2>1, InvDrop
<1> QED BY <1>5, <1>6

\* receive_squit.
LEMMA InvSquit ==
  ASSUME NetInv, NEW s \in Nodes, NEW t \in Nodes, receive_squit(s, t) PROVE NetInv'
<1>1. PICK m : m = Head(link[<<t, s>>])
  OBVIOUS
<1>2. Incoming(s, t, "SQUIT") /\ Handle(s, t, remove_users(ch[s], m.lost), <<m>>, << >>)
  BY <1>1 DEF receive_squit
<1>3. m.type = "SQUIT"
  BY <1>1, <1>2 DEF Incoming
<1>4. PICK U : U = m.lost
  OBVIOUS
<1>5. \A u \in Users : ~ Joins(m, u) /\ (Leaves(m, u) <=> u \in U)
  BY <1>3, <1>4 DEF Joins, Leaves, Kicks
<1> QED BY <1>1, <1>2, <1>4, <1>5, InvRemove

\* A MODE says nothing of members.
LEMMA ModeMsg ==
  ASSUME NEW B, NEW n, NEW u \in Users, NEW ts \in 0 .. n, NEW plus \in BOOLEAN, NEW x \in Users \cup Letters
  PROVE  /\ MODE(u, ts, plus, x) \in NetMsgs(B, n)
         /\ \A v : ~ Joins(MODE(u, ts, plus, x), v) /\ ~ Leaves(MODE(u, ts, plus, x), v) /\ ~ Kicks(MODE(u, ts, plus, x), v)
<1>1. PICK r : r = MODE(u, ts, plus, x)
  OBVIOUS
<1>2. r = [type |-> "MODE", by |-> u, ts |-> ts, plus |-> plus, what |-> x]
  BY <1>1 DEF MODE
<1>3. r \in NetMsgs(B, n)
  BY <1>2 DEF NetMsgs
<1>4. \A v : ~ Joins(r, v) /\ ~ Leaves(r, v) /\ ~ Kicks(r, v)
  BY <1>2 DEF Joins, Leaves, Kicks
<1> QED BY <1>1, <1>3, <1>4

\* receive_mode.
LEMMA InvMode ==
  ASSUME NetInv, NEW s \in Nodes, NEW t \in Nodes, receive_mode(s, t) PROVE NetInv'
<1>1. PICK m : m = Head(link[<<t, s>>])
  OBVIOUS
<1>2. PICK c : c = ch[s]
  OBVIOUS
<1>3. /\ Incoming(s, t, "MODE")
      /\ IF Exists(c) /\ m.ts <= c.ts /\ m.by \in c.ops /\ m.what \in c.mem \cup Letters
         THEN Handle(s, t, set_mode(c, m.plus, m.what), <<MODE(m.by, c.ts, m.plus, m.what)>>, << >>)
         ELSE Handle(s, t, c, << >>, << >>)
  BY <1>1, <1>2 DEF receive_mode
<1>4. /\ link[<<t, s>>] # << >> /\ m \in NetMsgs(Behind(s, t), now) /\ m.type = "MODE"
      /\ now \in Nat /\ IsCopy(c, now)
  BY <1>1, <1>2, <1>3, Received
<1>5. \A u : ~ Joins(m, u) /\ ~ Leaves(m, u)
  BY <1>4 DEF Joins, Leaves, Kicks
<1>6. CASE Exists(c) /\ m.ts <= c.ts /\ m.by \in c.ops /\ m.what \in c.mem \cup Letters
  <2>1. m.by \in Users /\ m.plus \in BOOLEAN /\ m.what \in Users \cup Letters /\ c.ts \in 0 .. now
    BY <1>4, MsgFields, CopyIs
  <2>2. PICK d, r : d = set_mode(c, m.plus, m.what) /\ r = MODE(m.by, c.ts, m.plus, m.what)
    OBVIOUS
  <2>3. IsCopy(d, now) /\ d.mem = c.mem
    BY <1>4, <1>6, <2>1, <2>2, CopyMode DEF Exists
  <2>4. r \in NetMsgs(Behind(s, t), now) /\ \A v : ~ Joins(r, v) /\ ~ Leaves(r, v) /\ ~ Kicks(r, v)
    BY <2>1, <2>2, ModeMsg
  <2>5. MsgOK(c, d, m, Behind(s, t))
    BY <1>5, <2>3 DEF MsgOK
  <2>6. RelayOK(c, d, <<r>>, Behind(s, t), now, Kickable)
    BY <2>3, <2>4 DEF RelayOK
  <2>7. Handle(s, t, d, <<r>>, << >>)
    BY <1>3, <1>6, <2>2
  <2>8. Handles(s, t, m, d, <<r>>, << >>)
    BY <1>1, <1>2, <1>4, <2>3, <2>5, <2>6, <2>7 DEF Handles, AnswerOK
  <2> QED BY <2>8, HandledInv
<1>7. CASE ~ (Exists(c) /\ m.ts <= c.ts /\ m.by \in c.ops /\ m.what \in c.mem \cup Letters)
  <2>1. Handle(s, t, ch[s], << >>, << >>)
    BY <1>2, <1>3, <1>7
  <2> QED BY <1>1, <1>3, <1>5, <2>1, InvDrop
<1> QED BY <1>6, <1>7

\* m_resynch.
LEMMA InvResynch ==
  ASSUME NetInv, NEW s \in Nodes, NEW t \in Nodes, m_resynch(s, t) PROVE NetInv'
<1>1. PICK m : m = Head(link[<<t, s>>])
  OBVIOUS
<1>2. PICK answer : answer = burst(ch[s])
  OBVIOUS
<1>3. Incoming(s, t, "RESYNCH") /\ Handle(s, t, ch[s], << >>, answer)
  BY <1>2 DEF m_resynch
<1>4. link[<<t, s>>] # << >> /\ m.type = "RESYNCH" /\ now \in Nat /\ IsCopy(ch[s], now)
  BY <1>1, <1>3, Received
<1>5. \A u : ~ Joins(m, u) /\ ~ Leaves(m, u)
  BY <1>4 DEF Joins, Leaves, Kicks
<1>6. MsgOK(ch[s], ch[s], m, Behind(s, t))
  BY <1>5 DEF MsgOK
<1>7. AnswerOK(ch[s], answer, Behind(t, s), now)
  BY <1>2, <1>4, BurstMsg DEF AnswerOK
<1>8. Handles(s, t, m, ch[s], << >>, answer)
  BY <1>1, <1>3, <1>4, <1>6, <1>7 DEF Handles, RelayOK
<1> QED BY <1>8, HandledInv

\* Any message a server receives.
LEMMA InvReceive ==
  ASSUME NetInv, NEW s \in Nodes, NEW t \in Nodes, receive(s, t) PROVE NetInv'
BY InvSjoin, InvClientSjoin, InvPart, InvKick, InvMode, InvResynch, InvSquit DEF receive

\* A command leaves the links and the clock alone.
LEMMA GiveIs ==
  ASSUME NetInv, NEW s \in Nodes, NEW kind, give(s, kind)
  PROVE  /\ up' = up /\ now' = now /\ kicked' \in BOOLEAN /\ (kicked => kicked') /\ (kind = "KICK" => kicked')
         /\ now \in Nat /\ IsCopy(ch[s], now)
<1>1. kicked \in BOOLEAN /\ now \in Nat /\ IsCopy(ch[s], now)
  BY DEF NetInv, CopiesOK
<1>2. up' = up /\ now' = now /\ kicked' = (kicked \/ kind = "KICK")
  BY DEF give
<1>3. kicked' \in BOOLEAN
  BY <1>1, <1>2, Zenon
<1> QED BY <1>1, <1>2, <1>3

\* m_join.
LEMMA InvJoin ==
  ASSUME NetInv, NEW u \in Users, m_join(u) PROVE NetInv'
<1>1. PICK s, c : s = home[u] /\ c = ch[s]
  OBVIOUS
<1>2. s \in Nodes /\ u \in AtHome(s)
  BY <1>1, NetAssumption DEF AtHome
<1>3. PICK new : new = [ts |-> now, mem |-> {u}, ops |-> {u}, mode |-> NoMode]
  OBVIOUS
<1>4. /\ give(s, "JOIN") /\ u \notin c.mem
      /\ IF Exists(c)
         THEN /\ ch' = [ch EXCEPT ![s].mem = @ \cup {u}]
              /\ link' = butone(s, s, CliSJOIN(u, c.ts))
         ELSE /\ ch' = [ch EXCEPT ![s] = new]
              /\ link' = butone(s, s, SJOIN(new, {u}, {u}, NoMode))
  BY <1>1, <1>3 DEF m_join
<1>5. /\ up' = up /\ now' = now /\ kicked' \in BOOLEAN /\ (kicked => kicked') /\ now \in Nat /\ IsCopy(c, now)
  BY <1>1, <1>2, <1>4, GiveIs
<1>6. DOMAIN ch = Nodes /\ c \in [ts : 0 .. now, mem : SUBSET Users, ops : SUBSET Users, mode : Modes] /\ c.ops \subseteq c.mem
  BY <1>5 DEF NetInv, CopiesOK, IsCopy
<1>7. CASE Exists(c)
  <2>1. PICK d, r : d = [c EXCEPT !.mem = @ \cup {u}] /\ r = CliSJOIN(u, c.ts)
    OBVIOUS
  <2>2. ch' = [ch EXCEPT ![s] = d] /\ link' = butone(s, s, r)
    BY <1>1, <1>4, <1>7, <2>1
  <2>3. d \in [ts : 0 .. now, mem : SUBSET Users, ops : SUBSET Users, mode : Modes] /\ d.mem = c.mem \cup {u} /\ d.ops = c.ops
    BY <1>6, <2>1
  <2>4. IsCopy(d, now)
    BY <1>6, <2>3 DEF IsCopy
  <2>5. r = [type |-> "CliSJOIN", by |-> u, ts |-> c.ts] /\ c.ts \in 0 .. now
    BY <1>6, <2>1 DEF CliSJOIN
  <2>6. r \in NetMsgs(AtHome(s), now)
    BY <1>2, <2>5 DEF NetMsgs
  <2>7. \A v : (Joins(r, v) <=> v = u) /\ ~ Leaves(r, v) /\ ~ Kicks(r, v)
    BY <2>5 DEF Joins, Leaves, Kicks
  <2>8. RelayOK(c, d, <<r>>, AtHome(s), now, Kickable')
    BY <2>3, <2>6, <2>7 DEF RelayOK
  <2>9. Gives(s, r, d)
    BY <1>1, <1>2, <1>5, <2>2, <2>3, <2>4, <2>6, <2>8 DEF Gives
  <2> QED BY <1>2, <2>9, GivenInv
<1>8. CASE ~ Exists(c)
  <2>1. PICK r : r = SJOIN(new, {u}, {u}, NoMode)
    OBVIOUS
  <2>2. ch' = [ch EXCEPT ![s] = new] /\ link' = butone(s, s, r) /\ c.mem = {}
    BY <1>4, <1>8, <2>1 DEF Exists
  <2>3. NoMode \in Modes
    BY <1>5, FreeCopy
  <2>4. IsCopy(new, now) /\ new.mem = {u}
    BY <1>3, <1>5, <2>3 DEF IsCopy
  <2>5. r \in NetMsgs(AtHome(s), now) /\ \A v : (Joins(r, v) <=> v \in {u}) /\ ~ Leaves(r, v)
    BY <2>1, <2>3, <2>4, SjoinMsg
  <2>6. \A v : ~ Kicks(r, v)
    BY <2>5 DEF Leaves
  <2>7. RelayOK(c, new, <<r>>, AtHome(s), now, Kickable')
    BY <2>2, <2>4, <2>5, <2>6 DEF RelayOK
  <2>8. Gives(s, r, new)
    BY <1>1, <1>2, <1>5, <2>2, <2>4, <2>5, <2>7 DEF Gives
  <2> QED BY <1>2, <2>8, GivenInv
<1> QED BY <1>7, <1>8

\* m_part and m_kick: s removes one client v and says so in r.
LEMMA InvGone ==
  ASSUME NetInv, NEW s \in Nodes, NEW kind, give(s, kind), NEW v \in Users, NEW r,
         ch' = [ch EXCEPT ![s] = remove_users(@, {v})], link' = butone(s, s, r), r \in NetMsgs(AtHome(s), now),
         \A w : ~ Joins(r, w) /\ (Leaves(r, w) <=> w = v) /\ (Kicks(r, w) => kind = "KICK")
  PROVE  NetInv'
<1>1. /\ up' = up /\ now' = now /\ kicked' \in BOOLEAN /\ (kicked => kicked') /\ now \in Nat /\ IsCopy(ch[s], now)
      /\ kind = "KICK" => kicked'
  BY GiveIs
<1>2. PICK d : d = remove_users(ch[s], {v})
  OBVIOUS
<1>3. IsCopy(d, now) /\ d.mem = ch[s].mem \ {v}
  BY <1>1, <1>2, CopyRemove
<1>4. DOMAIN ch = Nodes
  BY DEF NetInv, CopiesOK
<1>5. ch' = [ch EXCEPT ![s] = d]
  BY <1>2, <1>4
<1>6. \A w \in Users : Kicks(r, w) => w \in Kickable'
  BY <1>1 DEF Kickable
<1>7. RelayOK(ch[s], d, <<r>>, AtHome(s), now, Kickable')
  BY <1>3, <1>6 DEF RelayOK
<1>8. Gives(s, r, d)
  BY <1>1, <1>3, <1>5, <1>7 DEF Gives
<1> QED BY <1>8, GivenInv

\* m_part.
LEMMA InvLeave ==
  ASSUME NetInv, NEW u \in Users, m_part(u) PROVE NetInv'
<1>1. PICK s, r : s = home[u] /\ r = PART(u)
  OBVIOUS
<1>2. s \in Nodes /\ u \in AtHome(s)
  BY <1>1, NetAssumption DEF AtHome
<1>3. give(s, "PART") /\ ch' = [ch EXCEPT ![s] = remove_users(@, {u})] /\ link' = butone(s, s, r)
  BY <1>1 DEF m_part
<1>4. r = [type |-> "PART", by |-> u]
  BY <1>1 DEF PART
<1>5. r \in NetMsgs(AtHome(s), now)
  BY <1>2, <1>4 DEF NetMsgs
<1>6. \A w : ~ Joins(r, w) /\ (Leaves(r, w) <=> w = u) /\ ~ Kicks(r, w)
  BY <1>4 DEF Joins, Leaves, Kicks
<1> QED BY <1>2, <1>3, <1>5, <1>6, InvGone

\* m_kick.
LEMMA InvKicks ==
  ASSUME NetInv, NEW u \in Users, NEW v \in Users, m_kick(u, v) PROVE NetInv'
<1>1. PICK s, r : s = home[u] /\ r = KICK(u, v)
  OBVIOUS
<1>2. s \in Nodes
  BY <1>1, NetAssumption
<1>3. give(s, "KICK") /\ ch' = [ch EXCEPT ![s] = remove_users(@, {v})] /\ link' = butone(s, s, r)
  BY <1>1 DEF m_kick
<1>4. r = [type |-> "KICK", by |-> u, who |-> v]
  BY <1>1 DEF KICK
<1>5. r \in NetMsgs(AtHome(s), now)
  BY <1>4 DEF NetMsgs
<1>6. \A w : ~ Joins(r, w) /\ (Leaves(r, w) <=> w = v)
  BY <1>4 DEF Joins, Leaves, Kicks
<1> QED BY <1>2, <1>3, <1>5, <1>6, InvGone

\* m_mode.
LEMMA InvModes ==
  ASSUME NetInv, NEW u \in Users, NEW plus \in BOOLEAN, NEW x \in Users \cup Letters, m_mode(u, plus, x) PROVE NetInv'
<1>1. PICK s, kind : s = home[u] /\ kind = IF x \in Users THEN "OP" ELSE "FLAG"
  OBVIOUS
<1>2. PICK d, r : d = set_mode(ch[s], plus, x) /\ r = MODE(u, ch[s].ts, plus, x)
  OBVIOUS
<1>3. s \in Nodes /\ DOMAIN ch = Nodes
  BY <1>1, NetAssumption DEF NetInv, CopiesOK
<1>4. give(s, kind) /\ u \in ch[s].ops /\ ch' = [ch EXCEPT ![s] = d] /\ link' = butone(s, s, r)
  BY <1>1, <1>2, <1>3 DEF m_mode
<1>5. /\ up' = up /\ now' = now /\ kicked' \in BOOLEAN /\ (kicked => kicked') /\ now \in Nat /\ IsCopy(ch[s], now)
  BY <1>3, <1>4, GiveIs
<1>6. ch[s].ts \in 0 .. now /\ ch[s].mem # {}
  BY <1>4, <1>5, CopyIs
<1>7. IsCopy(d, now) /\ d.mem = ch[s].mem
  BY <1>2, <1>5, <1>6, CopyMode
<1>8. r \in NetMsgs(AtHome(s), now) /\ \A v : ~ Joins(r, v) /\ ~ Leaves(r, v) /\ ~ Kicks(r, v)
  BY <1>2, <1>6, ModeMsg
<1>9. RelayOK(ch[s], d, <<r>>, AtHome(s), now, Kickable')
  BY <1>7, <1>8 DEF RelayOK
<1>10. Gives(s, r, d)
  BY <1>4, <1>5, <1>7, <1>8, <1>9 DEF Gives
<1> QED BY <1>3, <1>10, GivenInv

\* Any command of a client.
LEMMA InvClient ==
  ASSUME NetInv, ClientStep PROVE NetInv'
BY InvJoin, InvLeave, InvKicks, InvModes DEF ClientStep

\* The clock.
LEMMA InvTick ==
  ASSUME NetInv, tick PROVE NetInv'
<1>1. /\ now \in Nat /\ now' = now + 1 /\ now' \in Nat /\ now <= now' /\ ch' = ch /\ link' = link /\ up' = up
      /\ kicked' = kicked /\ Kickable' = Kickable
  BY DEF NetInv, tick, Kickable
<1>2. CopiesOK(ch, now) /\ WiresOK(link, up, now) /\ Quietly(link, Kickable) /\ AllSee(ch, link, up, Kickable)
  BY DEF NetInv
<1>3. ASSUME NEW x \in Nodes PROVE IsCopy(ch[x], now')
  <2>1. IsCopy(ch[x], now) /\ 0 .. now \subseteq 0 .. now'
    BY <1>1, <1>2 DEF CopiesOK
  <2> QED BY <2>1 DEF IsCopy
<1>4. ASSUME NEW x \in Nodes, NEW y \in Nodes PROVE link[<<y, x>>] \in Seq(NetMsgs(Behind(x, y), now'))
  <2>1. PICK A, C : A = NetMsgs(Behind(x, y), now) /\ C = NetMsgs(Behind(x, y), now')
    OBVIOUS
  <2>2. A \subseteq C
    BY <1>1, <2>1, MsgsGrow
  <2>3. link[<<y, x>>] \in Seq(A)
    BY <1>2, <2>1, WireType
  <2> QED BY <2>1, <2>2, <2>3
<1>5. CopiesOK(ch', now')
  BY <1>1, <1>2, <1>3 DEF CopiesOK
<1>6. WiresOK(link', up', now')
  <2>1. ASSUME NEW x \in Nodes, NEW y \in Nodes PROVE WireOK(link'[<<y, x>>], NetMsgs(Behind(x, y), now'), {x, y}, up')
    <3>1. Len(link[<<y, x>>]) # 0 => {x, y} \in up
      BY <1>2, WireType
    <3> QED BY <1>1, <1>4, <3>1 DEF WireOK
  <2>2. DOMAIN link = Wires /\ up \subseteq Edges
    BY <1>2 DEF WiresOK
  <2> QED BY <1>1, <2>1, <2>2 DEF WiresOK
<1>7. Quietly(link', Kickable') /\ AllSee(ch', link', up', Kickable')
  BY <1>1, <1>2
<1>8. kicked' \in BOOLEAN
  BY <1>1 DEF NetInv
<1> QED BY <1>1, <1>5, <1>6, <1>7, <1>8 DEF NetInv

\* A link on which there is nothing but the burst of a copy c.
LEMMA BurstLink ==
  ASSUME NEW B, NEW n, NEW c, IsCopy(c, n), NEW L, L = burst(c)
  PROVE  /\ L \in Seq(NetMsgs(B, n))
         /\ \A u \in Users : ~ Kicked(L, u)
         /\ \A u \in Users : \A S : After(L, u, S) <=> u \in c.mem \/ u \in S
<1>1. CASE L = << >> /\ c.mem = {}
  <2>1. L \in Seq(NetMsgs(B, n)) /\ Len(L) = 0
    BY <1>1
  <2>2. \A u \in Users : ~ Kicked(L, u)
    BY <2>1 DEF Kicked
  <2>3. \A u \in Users : \A S : After(L, u, S) <=> u \in S
    BY <2>1, AfterNone
  <2> QED BY <1>1, <2>1, <2>2, <2>3
<1>2. ASSUME NEW r \in NetMsgs(B, n), L = <<r>>, \A u : (Joins(r, u) <=> u \in c.mem) /\ ~ Leaves(r, u)
      PROVE  /\ L \in Seq(NetMsgs(B, n))
             /\ \A u \in Users : ~ Kicked(L, u)
             /\ \A u \in Users : \A S : After(L, u, S) <=> u \in c.mem \/ u \in S
  <2>1. PICK A, E : A = NetMsgs(B, n) /\ E = << >>
    OBVIOUS
  <2>2. r \in A /\ E \in Seq(A) /\ Len(E) = 0 /\ L = E \o <<r>>
    BY <1>2, <2>1
  <2>3. ASSUME NEW u \in Users, NEW S
        PROVE  /\ After(L, u, S) <=> Joins(r, u) \/ (After(E, u, S) /\ ~ Leaves(r, u))
               /\ Kicked(L, u) <=> Kicked(E, u) \/ Kicks(r, u)
               /\ L \in Seq(A)
    BY <2>2, AfterLast
  <2>4. ASSUME NEW u \in Users PROVE ~ Kicked(E, u) /\ ~ Kicks(r, u)
    BY <1>2, <2>2 DEF Kicked, Leaves
  <2>5. ASSUME NEW u \in Users, NEW S PROVE After(E, u, S) <=> u \in S
    BY <2>2, AfterNone
  <2>6. L \in Seq(A)
    BY <1>2, <2>2
  <2> QED BY <1>2, <2>1, <2>3, <2>4, <2>5, <2>6
<1> QED BY <1>1, <1>2, BurstMsg

\* m_server_estab.
LEMMA InvEstab ==
  ASSUME NetInv, NEW s \in Nodes, NEW t \in Nodes, m_server_estab(s, t) PROVE NetInv'
<1>1. /\ now \in Nat /\ WiresOK(link, up, now) /\ DOMAIN link = Wires /\ up \subseteq Edges /\ Quietly(link, Kickable)
      /\ AllSee(ch, link, up, Kickable) /\ CopiesOK(ch, now) /\ kicked \in BOOLEAN
  BY DEF NetInv, WiresOK
<1>2. /\ {s, t} \in Edges \ up /\ up' = up \cup {{s, t}} /\ ch' = ch /\ now' = now /\ kicked' = kicked /\ Kickable' = Kickable
      /\ link' = [link EXCEPT ![<<s, t>>] = burst(ch[s]), ![<<t, s>>] = burst(ch[t])]
  BY DEF m_server_estab, Kickable
<1>3. s # t
  BY <1>2, EdgeEnds
<1>4. ASSUME NEW x \in Nodes, NEW y \in Nodes
      PROVE  link'[<<y, x>>] = IF {x, y} = {s, t} THEN burst(ch[y]) ELSE link[<<y, x>>]
  <2>1. <<y, x>> \in Wires /\ <<s, t>> \in Wires /\ <<t, s>> \in Wires
    BY DEF Wires
  <2>2. <<y, x>> = <<s, t>> <=> y = s /\ x = t
    OBVIOUS
  <2>3. <<y, x>> = <<t, s>> <=> y = t /\ x = s
    OBVIOUS
  <2>4. {x, y} = {s, t} <=> (y = s /\ x = t) \/ (y = t /\ x = s)
    BY <1>3
  <2>5. link'[<<y, x>>] = IF y = t /\ x = s THEN burst(ch[t]) ELSE IF y = s /\ x = t THEN burst(ch[s]) ELSE link[<<y, x>>]
    BY <1>1, <1>2, <2>1, <2>2, <2>3
  <2> QED BY <2>4, <2>5
<1>5. DOMAIN link' = Wires
  BY <1>1, <1>2
<1>6. ASSUME NEW x \in Nodes, NEW y \in Nodes
      PROVE  /\ link'[<<y, x>>] \in Seq(NetMsgs(Behind(x, y), now))
             /\ Len(link'[<<y, x>>]) # 0 => {x, y} \in up'
             /\ \A u \in Users \ Kickable : ~ Kicked(link'[<<y, x>>], u)
  <2>1. CASE {x, y} = {s, t}
    <3>1. link'[<<y, x>>] = burst(ch[y]) /\ IsCopy(ch[y], now)
      BY <1>1, <1>4, <2>1 DEF CopiesOK
    <3>2. link'[<<y, x>>] \in Seq(NetMsgs(Behind(x, y), now)) /\ \A u \in Users : ~ Kicked(link'[<<y, x>>], u)
      BY <3>1, BurstLink
    <3> QED BY <1>2, <2>1, <3>2
  <2>2. CASE {x, y} # {s, t}
    <3>1. link'[<<y, x>>] = link[<<y, x>>]
      BY <1>4, <2>2
    <3>2. /\ link[<<y, x>>] \in Seq(NetMsgs(Behind(x, y), now)) /\ (Len(link[<<y, x>>]) # 0 => {x, y} \in up)
          /\ \A u \in Users \ Kickable : ~ Kicked(link[<<y, x>>], u)
      BY <1>1, WireType DEF Quietly
    <3> QED BY <1>2, <3>1, <3>2
  <2> QED BY <2>1, <2>2
<1>7. WiresOK(link', up', now')
  <2>1. up' \subseteq Edges
    BY <1>1, <1>2
  <2>2. ASSUME NEW x \in Nodes, NEW y \in Nodes PROVE WireOK(link'[<<y, x>>], NetMsgs(Behind(x, y), now'), {x, y}, up')
    BY <1>2, <1>6 DEF WireOK
  <2> QED BY <1>5, <2>1, <2>2 DEF WiresOK
<1>8. Quietly(link', Kickable')
  BY <1>2, <1>6 DEF Quietly
<1>9. ASSUME NEW u \in Users, NEW x \in Nodes, x # home[u], NEW y, y = from(x, u)
      PROVE  SeenBy(ch', link', up', Kickable', u, x, y)
  <2>1. y \in Nodes /\ SeenBy(ch, link, up, Kickable, u, x, y) /\ {y, x} = {x, y}
    BY <1>1, <1>9, NextHop DEF AllSee
  <2>2. CASE {x, y} = {s, t}
    <3>1. u \notin ch[x].mem /\ {x, y} \in up'
      BY <1>2, <2>1, <2>2 DEF SeenBy
    <3>2. link'[<<y, x>>] = burst(ch[y]) /\ IsCopy(ch[y], now)
      BY <1>1, <1>4, <2>1, <2>2 DEF CopiesOK
    <3>3. After(link'[<<y, x>>], u, ch[x].mem) <=> u \in ch[y].mem
      BY <3>1, <3>2, BurstLink
    <3>4. Sees(u, ch[x].mem, ch[y].mem, link'[<<y, x>>], link'[<<x, y>>], Kickable)
      BY <3>3 DEF Sees
    <3> QED BY <1>2, <3>1, <3>4 DEF SeenBy
  <2>3. CASE {x, y} # {s, t}
    <3>1. link'[<<y, x>>] = link[<<y, x>>] /\ link'[<<x, y>>] = link[<<x, y>>] /\ ({x, y} \in up' <=> {x, y} \in up)
      BY <1>2, <1>4, <2>1, <2>3
    <3> QED BY <1>2, <2>1, <3>1 DEF SeenBy
  <2> QED BY <2>2, <2>3
<1>10. AllSee(ch', link', up', Kickable')
  BY <1>9 DEF AllSee
<1> QED BY <1>1, <1>2, <1>7, <1>8, <1>10 DEF NetInv

\* What a server tells when it loses the link behind which the clients B are.
LEMMA SquitOK ==
  ASSUME NEW n \in Nat, NEW c, IsCopy(c, n), NEW B \in SUBSET Users, NEW d, d = remove_users(c, B), NEW Z
  PROVE  /\ RelayOK(c, d, <<SQUIT(B)>>, B, n, Z) /\ IsCopy(d, n) /\ d.mem = c.mem \ B
         /\ SQUIT(B) \in NetMsgs(B, n)
<1>1. PICK r : r = SQUIT(B)
  OBVIOUS
<1>2. IsCopy(d, n) /\ d.mem = c.mem \ B
  BY CopyRemove
<1>3. r = [type |-> "SQUIT", lost |-> B]
  BY <1>1 DEF SQUIT
<1>4. r \in NetMsgs(B, n)
  BY <1>3 DEF NetMsgs
<1>5. \A u : ~ Joins(r, u) /\ (Leaves(r, u) <=> u \in B) /\ ~ Kicks(r, u)
  BY <1>3 DEF Joins, Leaves, Kicks
<1>6. RelayOK(c, d, <<r>>, B, n, Z)
  BY <1>2, <1>4, <1>5 DEF RelayOK
<1> QED BY <1>1, <1>2, <1>4, <1>6

\* It is no KICK.
LEMMA SquitQuiet ==
  ASSUME NEW B, NEW n, NEW r, r = SQUIT(B), NEW u PROVE ~ Kicks(r, u) /\ r \in NetMsgs(B, n)
<1>1. r = [type |-> "SQUIT", lost |-> B]
  BY DEF SQUIT
<1>2. r \in NetMsgs(B, n)
  BY <1>1 DEF NetMsgs
<1> QED BY <1>1, <1>2 DEF Kicks

\* The other neighbours of an end p of a link may be told.
LEMMA SplitEnd ==
  ASSUME NetInv, NEW p \in Nodes, NEW q \in Nodes, NEW x \in Nodes, x \in Peers(p), {x, p} # {p, q}
  PROVE  /\ x # q /\ {x, p} \in up /\ {p, x} \in up
         /\ SQUIT(Behind(p, q)) \in NetMsgs(Behind(x, p), now)
<1>1. now \in Nat /\ up \subseteq Edges /\ IsCopy(ch[p], now) /\ Behind(p, q) \in SUBSET Users
  BY DEF NetInv, WiresOK, CopiesOK, Behind
<1>2. {x, p} = {p, x} /\ {p, x} \in up /\ {p, x} \in Edges
  BY <1>1, PeerIs
<1>3. x # q
  BY <1>2
<1>4. SQUIT(Behind(p, q)) \in NetMsgs(Behind(p, q), now)
  BY <1>1, SquitOK
<1>5. NetMsgs(Behind(p, q), now) \subseteq NetMsgs(Behind(x, p), now)
  BY <1>1, <1>2, <1>3, Onward, MsgsGrow
<1> QED BY <1>2, <1>3, <1>4, <1>5

\* The end p of a lost link tells its other neighbours, of which y lies above it ...
LEMMA SplitAbove ==
  ASSUME NetInv, NEW p \in Nodes, NEW q \in Nodes, NEW y \in Nodes, {p, y} \in up, y # q, NEW u \in Users,
         p # home[u], y = from(p, u), NEW d, d = remove_users(ch[p], Behind(p, q)),
         NEW J, J = Append(link[<<p, y>>], SQUIT(Behind(p, q)))
  PROVE  Sees(u, d.mem, ch[y].mem, link[<<y, p>>], J, Kickable)
<1>1. /\ now \in Nat /\ WiresOK(link, up, now) /\ up \subseteq Edges /\ AllSee(ch, link, up, Kickable) /\ IsCopy(ch[p], now)
  BY DEF NetInv, WiresOK, CopiesOK
<1>2. PICK B, r, A, Z : B = Behind(p, q) /\ r = SQUIT(B) /\ A = NetMsgs(Behind(y, p), now) /\ Z = Kickable
  OBVIOUS
<1>3. B \in SUBSET Users /\ u \notin B /\ {p, y} \in Edges
  BY <1>1, <1>2 DEF Behind
<1>4. RelayOK(ch[p], d, <<r>>, B, now, Z) /\ d.mem = ch[p].mem \ B /\ r \in NetMsgs(B, now)
  BY <1>1, <1>2, <1>3, SquitOK
<1>5. NetMsgs(B, now) \subseteq A
  BY <1>1, <1>2, <1>3, Onward, MsgsGrow
<1>6. link[<<p, y>>] \in Seq(A)
  BY <1>1, <1>2, WireType
<1>7. Sees(u, ch[p].mem, ch[y].mem, link[<<y, p>>], link[<<p, y>>], Z)
  BY <1>1, <1>2 DEF AllSee, SeenBy
<1>8. PICK c, T, L, K, relay : c = ch[p] /\ T = ch[y].mem /\ L = link[<<y, p>>] /\ K = link[<<p, y>>] /\ relay = <<r>>
  OBVIOUS
<1>9. /\ K \in Seq(A) /\ Sees(u, c.mem, T, L, K, Z) /\ NetMsgs(B, now) \subseteq A /\ RelayOK(c, d, relay, B, now, Z)
      /\ u \notin B /\ (u \in d.mem => u \in c.mem) /\ J = K \o relay
  <2>1. r \in A /\ J = Append(K, r)
    BY <1>2, <1>4, <1>5, <1>8
  <2>2. J = K \o relay
    BY <1>6, <1>8, <2>1, AppendIs
  <2>3. u \in d.mem => u \in c.mem
    BY <1>4, <1>8
  <2> QED BY <1>3, <1>4, <1>5, <1>6, <1>7, <1>8, <2>2, <2>3
<1>10. Sees(u, d.mem, T, L, J, Z)
  BY <1>9, Above
<1> QED BY <1>2, <1>8, <1>10

\* ... and x below it.
LEMMA SplitBelow ==
  ASSUME NetInv, NEW p \in Nodes, NEW q \in Nodes, NEW x \in Nodes, {x, p} \in up, x # q, NEW u \in Users,
         x # home[u], p = from(x, u), NEW d, d = remove_users(ch[p], Behind(p, q)),
         NEW M, M = Append(link[<<p, x>>], SQUIT(Behind(p, q)))
  PROVE  Sees(u, ch[x].mem, d.mem, M, link[<<x, p>>], Kickable)
<1>1. /\ now \in Nat /\ WiresOK(link, up, now) /\ up \subseteq Edges /\ AllSee(ch, link, up, Kickable) /\ IsCopy(ch[p], now)
  BY DEF NetInv, WiresOK, CopiesOK
<1>2. PICK B, r, A, Z : B = Behind(p, q) /\ r = SQUIT(B) /\ A = NetMsgs(Behind(x, p), now) /\ Z = Kickable
  OBVIOUS
<1>3. B \in SUBSET Users /\ {p, x} \in Edges
  <2>1. {p, x} = {x, p}
    OBVIOUS
  <2> QED BY <1>1, <1>2, <2>1 DEF Behind
<1>4. RelayOK(ch[p], d, <<r>>, B, now, Z) /\ r \in NetMsgs(B, now)
  BY <1>1, <1>2, <1>3, SquitOK
<1>5. NetMsgs(B, now) \subseteq A
  BY <1>1, <1>2, <1>3, Onward, MsgsGrow
<1>6. link[<<p, x>>] \in Seq(A)
  BY <1>1, <1>2, WireType
<1>7. Sees(u, ch[x].mem, ch[p].mem, link[<<p, x>>], link[<<x, p>>], Z)
  BY <1>1, <1>2 DEF AllSee, SeenBy
<1>8. PICK c, S, L, K, relay : c = ch[p] /\ S = ch[x].mem /\ L = link[<<p, x>>] /\ K = link[<<x, p>>] /\ relay = <<r>>
  OBVIOUS
<1>9. /\ L \in Seq(A) /\ Sees(u, S, c.mem, L, K, Z) /\ NetMsgs(B, now) \subseteq A /\ RelayOK(c, d, relay, B, now, Z)
      /\ M = L \o relay
  BY <1>2, <1>4, <1>5, <1>6, <1>7, <1>8, AppendIs
<1>10. Sees(u, S, d.mem, M, K, Z)
  BY <1>9, Below
<1> QED BY <1>2, <1>8, <1>10

\* exit_server.
LEMMA InvExit ==
  ASSUME NetInv, NEW s \in Nodes, NEW t \in Nodes, exit_server(s, t) PROVE NetInv'
<1>1. /\ now \in Nat /\ WiresOK(link, up, now) /\ DOMAIN link = Wires /\ up \subseteq Edges /\ Quietly(link, Kickable)
      /\ AllSee(ch, link, up, Kickable) /\ CopiesOK(ch, now) /\ kicked \in BOOLEAN /\ DOMAIN ch = Nodes
  BY DEF NetInv, WiresOK, CopiesOK
<1>2. /\ {s, t} \in up /\ up' = up \ {{s, t}} /\ now' = now /\ kicked' = kicked /\ Kickable' = Kickable
      /\ ch' = [ch EXCEPT ![s] = remove_users(@, Behind(s, t)), ![t] = remove_users(@, Behind(t, s))]
  BY DEF exit_server, Kickable
<1>3. s # t /\ {s, t} \in Edges /\ {t, s} = {s, t}
  BY <1>1, <1>2, EdgeEnds
<1>4. PICK c, d, a, b : /\ c = remove_users(ch[s], Behind(s, t)) /\ d = remove_users(ch[t], Behind(t, s))
                        /\ a = SQUIT(Behind(s, t)) /\ b = SQUIT(Behind(t, s))
  OBVIOUS
<1>5. DOMAIN ch' = Nodes /\ ch'[s] = c /\ ch'[t] = d /\ \A x \in Nodes \ {s, t} : ch'[x] = ch[x]
  BY <1>1, <1>2, <1>3, <1>4
<1>6. /\ IsCopy(c, now) /\ c.mem = ch[s].mem \ Behind(s, t) /\ a \in NetMsgs(Behind(s, t), now)
      /\ IsCopy(d, now) /\ d.mem = ch[t].mem \ Behind(t, s) /\ b \in NetMsgs(Behind(t, s), now)
      /\ \A u : ~ Kicks(a, u) /\ ~ Kicks(b, u)
  <2>1. Behind(s, t) \in SUBSET Users /\ Behind(t, s) \in SUBSET Users /\ IsCopy(ch[s], now) /\ IsCopy(ch[t], now)
    BY <1>1 DEF Behind, CopiesOK
  <2>2. PICK B, C, y, z : B = Behind(s, t) /\ C = Behind(t, s) /\ y = ch[s] /\ z = ch[t]
    OBVIOUS
  <2>3. IsCopy(c, now) /\ c.mem = y.mem \ B /\ a \in NetMsgs(B, now)
    BY <1>1, <1>4, <2>1, <2>2, CopyRemove, SquitQuiet
  <2>4. IsCopy(d, now) /\ d.mem = z.mem \ C /\ b \in NetMsgs(C, now)
    BY <1>1, <1>4, <2>1, <2>2, CopyRemove, SquitQuiet
  <2>5. \A u : ~ Kicks(a, u) /\ ~ Kicks(b, u)
    BY <1>4, SquitQuiet
  <2> QED BY <2>2, <2>3, <2>4, <2>5
<1>7. DOMAIN link' = Wires
  BY <1>1 DEF exit_server
<1>8. ASSUME NEW x \in Nodes, NEW y \in Nodes
      PROVE  link'[<<y, x>>] = IF {x, y} = {s, t} THEN << >>
                               ELSE IF y = s /\ x \in Peers(s) THEN Append(link[<<y, x>>], a)
                               ELSE IF y = t /\ x \in Peers(t) THEN Append(link[<<y, x>>], b)
                               ELSE link[<<y, x>>]
  <2>1. <<y, x>> \in Wires /\ <<y, x>>[1] = y /\ <<y, x>>[2] = x
    BY DEF Wires
  <2>2. <<y, x>> = <<s, t>> <=> y = s /\ x = t
    OBVIOUS
  <2>3. <<y, x>> = <<t, s>> <=> y = t /\ x = s
    OBVIOUS
  <2>4. <<y, x>> \in {<<s, t>>, <<t, s>>} <=> {x, y} = {s, t}
    BY <1>3, <2>2, <2>3
  <2>5. link'[<<y, x>>] = IF <<y, x>> \in {<<s, t>>, <<t, s>>} THEN << >>
                          ELSE IF <<y, x>>[1] = s /\ <<y, x>>[2] \in Peers(s) THEN Append(link[<<y, x>>], a)
                          ELSE IF <<y, x>>[1] = t /\ <<y, x>>[2] \in Peers(t) THEN Append(link[<<y, x>>], b)
                          ELSE link[<<y, x>>]
    BY <1>1, <1>4, <2>1 DEF exit_server
  <2> QED BY <2>1, <2>4, <2>5
<1>9. ASSUME NEW x \in Nodes, {x, s} # {s, t}, x \in Peers(s)
      PROVE  x # t /\ {x, s} \in up /\ {s, x} \in up /\ link'[<<s, x>>] = Append(link[<<s, x>>], a) /\ a \in NetMsgs(Behind(x, s), now)
  <2>1. link'[<<s, x>>] = Append(link[<<s, x>>], a)
    BY <1>8, <1>9
  <2> QED BY <1>4, <1>9, <2>1, SplitEnd
<1>9b. ASSUME NEW x \in Nodes, {x, t} # {s, t}, x \in Peers(t)
       PROVE  x # s /\ {x, t} \in up /\ {t, x} \in up /\ link'[<<t, x>>] = Append(link[<<t, x>>], b) /\ b \in NetMsgs(Behind(x, t), now)
  <2>1. link'[<<t, x>>] = Append(link[<<t, x>>], b)
    BY <1>3, <1>8, <1>9b
  <2>2. {x, t} # {t, s}
    BY <1>3, <1>9b
  <2> QED BY <1>4, <1>9b, <2>1, <2>2, SplitEnd
<1>10. ASSUME NEW x \in Nodes, NEW y \in Nodes
       PROVE  /\ link'[<<y, x>>] \in Seq(NetMsgs(Behind(x, y), now))
              /\ Len(link'[<<y, x>>]) # 0 => {x, y} \in up'
              /\ \A u \in Users \ Kickable : ~ Kicked(link'[<<y, x>>], u)
  <2>1. /\ link[<<y, x>>] \in Seq(NetMsgs(Behind(x, y), now)) /\ (Len(link[<<y, x>>]) # 0 => {x, y} \in up)
        /\ \A u \in Users \ Kickable : ~ Kicked(link[<<y, x>>], u)
    BY <1>1, WireType DEF Quietly
  <2>2. CASE {x, y} = {s, t}
    <3>1. link'[<<y, x>>] = << >>
      BY <1>8, <2>2
    <3> QED BY <3>1 DEF Kicked
  <2>3. ASSUME {x, y} # {s, t}, NEW q \in Nodes, NEW m, (y = s /\ q = t /\ m = a) \/ (y = t /\ q = s /\ m = b), x \in Peers(y)
        PROVE  /\ link'[<<y, x>>] \in Seq(NetMsgs(Behind(x, y), now))
               /\ Len(link'[<<y, x>>]) # 0 => {x, y} \in up'
               /\ \A u \in Users \ Kickable : ~ Kicked(link'[<<y, x>>], u)
    <3>1. {x, y} \in up /\ link'[<<y, x>>] = Append(link[<<y, x>>], m) /\ m \in NetMsgs(Behind(x, y), now)
      <4>1. CASE y = s /\ q = t /\ m = a
        BY <1>9, <2>3, <4>1
      <4>2. CASE y = t /\ q = s /\ m = b
        BY <1>9b, <2>3, <4>2
      <4> QED BY <2>3, <4>1, <4>2
    <3>2. PICK A, L, M : A = NetMsgs(Behind(x, y), now) /\ L = link[<<y, x>>] /\ M = link'[<<y, x>>]
      OBVIOUS
    <3>3. L \in Seq(A) /\ m \in A /\ M = L \o <<m>>
      BY <2>1, <3>1, <3>2, AppendIs
    <3>4. ASSUME NEW u \in Users \ Kickable PROVE M \in Seq(A) /\ ~ Kicked(M, u)
      <4>1. Kicked(M, u) <=> Kicked(L, u) \/ Kicks(m, u)
        BY <3>3, AfterLast
      <4> QED BY <1>6, <2>1, <2>3, <3>2, <3>3, <4>1, Grown
    <3>5. M \in Seq(A) /\ {x, y} \in up'
      BY <1>2, <2>3, <3>1, <3>3, Grown
    <3> QED BY <3>2, <3>4, <3>5
  <2>4. CASE {x, y} # {s, t} /\ ~ (y = s /\ x \in Peers(s)) /\ ~ (y = t /\ x \in Peers(t))
    <3>1. link'[<<y, x>>] = link[<<y, x>>]
      BY <1>8, <2>4
    <3>2. {x, y} \in up => {x, y} \in up'
      BY <1>2, <2>4
    <3> QED BY <2>1, <3>1, <3>2
  <2> QED BY <2>2, <2>3, <2>4
<1>11. WiresOK(link', up', now')
  <2>1. up' \subseteq Edges
    BY <1>1, <1>2
  <2>2. ASSUME NEW x \in Nodes, NEW y \in Nodes PROVE WireOK(link'[<<y, x>>], NetMsgs(Behind(x, y), now'), {x, y}, up')
    BY <1>2, <1>10 DEF WireOK
  <2> QED BY <1>7, <2>1, <2>2 DEF WiresOK
<1>12. Quietly(link', Kickable')
  BY <1>2, <1>10 DEF Quietly
<1>13. CopiesOK(ch', now')
  <2>1. ASSUME NEW x \in Nodes PROVE IsCopy(ch'[x], now)
    BY <1>1, <1>5, <1>6 DEF CopiesOK
  <2> QED BY <1>2, <1>5, <2>1 DEF CopiesOK
<1>14. ASSUME NEW u \in Users, NEW x \in Nodes, x # home[u], NEW y, y = from(x, u)
       PROVE  SeenBy(ch', link', up', Kickable', u, x, y)
  <2>1. y \in Nodes /\ SeenBy(ch, link, up, Kickable, u, x, y) /\ {y, x} = {x, y} /\ u \in Behind(x, y) /\ x # y
    BY <1>1, <1>14, NextHop DEF AllSee
  <2>2. CASE {x, y} = {s, t}
    <3>1. {x, y} \notin up' /\ ((x = s /\ y = t) \/ (x = t /\ y = s))
      BY <1>2, <1>3, <2>1, <2>2
    <3>2. u \notin ch'[x].mem
      BY <1>5, <1>6, <2>1, <3>1
    <3> QED BY <3>1, <3>2 DEF SeenBy
  <2>3. CASE {x, y} # {s, t} /\ {x, y} \notin up
    <3>1. u \notin ch[x].mem /\ {x, y} \notin up'
      BY <1>2, <2>1, <2>3 DEF SeenBy
    <3>2. u \notin ch'[x].mem
      BY <1>5, <1>6, <3>1
    <3> QED BY <3>1, <3>2 DEF SeenBy
  <2>4. CASE {x, y} # {s, t} /\ {x, y} \in up
    <3>1. {x, y} \in up' /\ Sees(u, ch[x].mem, ch[y].mem, link[<<y, x>>], link[<<x, y>>], Kickable)
      BY <1>2, <2>1, <2>4 DEF SeenBy
    <3> SUFFICES Sees(u, ch'[x].mem, ch'[y].mem, link'[<<y, x>>], link'[<<x, y>>], Kickable)
      BY <1>2, <3>1 DEF SeenBy
    <3>2. x \in Peers(y) /\ y \in Peers(x)
      BY <1>1, <2>1, <2>4, PeerIs
    <3>3. ASSUME NEW q \in Nodes, NEW m, NEW e, (x = s /\ q = t /\ m = a /\ e = c) \/ (x = t /\ q = s /\ m = b /\ e = d)
          PROVE  Sees(u, ch'[x].mem, ch'[y].mem, link'[<<y, x>>], link'[<<x, y>>], Kickable)
      <4>1. y # q /\ {x, y} \in up /\ link'[<<x, y>>] = Append(link[<<x, y>>], m)
        <5>1. CASE x = s /\ q = t /\ m = a
          BY <1>9, <2>1, <2>4, <3>2, <5>1
        <5>2. CASE x = t /\ q = s /\ m = b
          BY <1>9b, <2>1, <2>4, <3>2, <5>2
        <5> QED BY <3>3, <5>1, <5>2
      <4>2. ch'[x] = e /\ e = remove_users(ch[x], Behind(x, q)) /\ m = SQUIT(Behind(x, q)) /\ x # q
        BY <1>3, <1>4, <1>5, <3>3
      <4>3. y \in Nodes \ {s, t}
        BY <2>1, <3>3, <4>1
      <4>4. ch'[y] = ch[y] /\ link'[<<y, x>>] = link[<<y, x>>]
        BY <1>5, <1>8, <2>4, <4>3
      <4>5. Sees(u, e.mem, ch[y].mem, link[<<y, x>>], link'[<<x, y>>], Kickable)
        BY <1>14, <4>1, <4>2, <4>3, SplitAbove
      <4> QED BY <4>2, <4>4, <4>5
    <3>4. ASSUME NEW q \in Nodes, NEW m, NEW e, (y = s /\ q = t /\ m = a /\ e = c) \/ (y = t /\ q = s /\ m = b /\ e = d)
          PROVE  Sees(u, ch'[x].mem, ch'[y].mem, link'[<<y, x>>], link'[<<x, y>>], Kickable)
      <4>1. x # q /\ {x, y} \in up /\ link'[<<y, x>>] = Append(link[<<y, x>>], m)
        <5>1. CASE y = s /\ q = t /\ m = a
          BY <1>9, <2>1, <2>4, <3>2, <5>1
        <5>2. CASE y = t /\ q = s /\ m = b
          BY <1>9b, <2>1, <2>4, <3>2, <5>2
        <5> QED BY <3>4, <5>1, <5>2
      <4>2. ch'[y] = e /\ e = remove_users(ch[y], Behind(y, q)) /\ m = SQUIT(Behind(y, q)) /\ y # q
        BY <1>3, <1>4, <1>5, <3>4
      <4>3. x \in Nodes \ {s, t}
        BY <2>1, <3>4, <4>1
      <4>4. ch'[x] = ch[x] /\ link'[<<x, y>>] = link[<<x, y>>]
        BY <1>5, <1>8, <2>1, <2>4, <4>3
      <4>5. Sees(u, ch[x].mem, e.mem, link'[<<y, x>>], link[<<x, y>>], Kickable)
        BY <1>14, <2>1, <4>1, <4>2, <4>3, SplitBelow
      <4> QED BY <4>2, <4>4, <4>5
    <3>5. CASE x \notin {s, t} /\ y \notin {s, t}
      <4>1. ch'[x] = ch[x] /\ ch'[y] = ch[y] /\ link'[<<x, y>>] = link[<<x, y>>] /\ link'[<<y, x>>] = link[<<y, x>>]
        BY <1>5, <1>8, <2>1, <2>4, <3>5
      <4> QED BY <3>1, <4>1
    <3> QED BY <3>3, <3>4, <3>5
  <2> QED BY <2>2, <2>3, <2>4
<1>15. AllSee(ch', link', up', Kickable')
  BY <1>14 DEF AllSee
<1> QED BY <1>1, <1>2, <1>11, <1>12, <1>13, <1>15 DEF NetInv

\* At the start all links are up and idle and nobody is on the channel.
LEMMA InvInit ==
  ASSUME Init PROVE NetInv
<1>1. /\ ch = [s \in Nodes |-> Free] /\ link = [e \in {<<s, t>> : s, t \in Nodes} |-> << >>] /\ up = Edges
      /\ now = 1 /\ kicked = FALSE
  BY DEF Init
<1>2. ASSUME NEW x \in Nodes, NEW y \in Nodes PROVE link[<<y, x>>] = << >>
  BY <1>1
<1>3. DOMAIN link = Wires /\ DOMAIN ch = Nodes
  BY <1>1 DEF Wires
<1>4. WiresOK(link, up, now)
  <2>1. ASSUME NEW x \in Nodes, NEW y \in Nodes
        PROVE  link[<<y, x>>] \in Seq(NetMsgs(Behind(x, y), now)) /\ Len(link[<<y, x>>]) = 0
    <3>1. PICK A : A = NetMsgs(Behind(x, y), now)
      OBVIOUS
    <3>2. PICK e : e = << >>
      OBVIOUS
    <3>3. e \in Seq(A) /\ Len(e) = 0
      BY <3>2
    <3>4. link[<<y, x>>] = e
      BY <1>2, <3>2
    <3> QED BY <3>1, <3>3, <3>4
  <2>2. ASSUME NEW x \in Nodes, NEW y \in Nodes PROVE WireOK(link[<<y, x>>], NetMsgs(Behind(x, y), now), {x, y}, up)
    BY <2>1 DEF WireOK
  <2> QED BY <1>1, <1>3, <2>2 DEF WiresOK
<1>5. \A u \in Users : ~ Kicked(<< >>, u) /\ \A S : After(<< >>, u, S) <=> u \in S
  <2>1. Len(<< >>) = 0
    OBVIOUS
  <2> QED BY <2>1, AfterNone DEF Kicked
<1>6. Quietly(link, Kickable)
  BY <1>2, <1>5 DEF Quietly
<1>7. \A x \in Nodes : ch[x] = Free /\ ch[x].mem = {}
  BY <1>1 DEF Free
<1>8. CopiesOK(ch, now)
  BY <1>1, <1>3, <1>7, FreeCopy DEF CopiesOK
<1>9. ASSUME NEW u \in Users, NEW x \in Nodes, x # home[u], NEW y, y = from(x, u)
      PROVE  SeenBy(ch, link, up, Kickable, u, x, y)
  <2>1. y \in Nodes /\ link[<<y, x>>] = << >> /\ u \notin ch[x].mem /\ u \notin ch[y].mem
    BY <1>2, <1>7, <1>9, NextHop
  <2>2. Sees(u, ch[x].mem, ch[y].mem, link[<<y, x>>], link[<<x, y>>], Kickable)
    BY <1>5, <2>1 DEF Sees
  <2> QED BY <2>1, <2>2 DEF SeenBy
<1>10. AllSee(ch, link, up, Kickable)
  BY <1>9 DEF AllSee
<1>11. now \in Nat /\ kicked \in BOOLEAN
  BY <1>1
<1> QED BY <1>4, <1>6, <1>8, <1>10, <1>11 DEF NetInv

\* Every step keeps the invariant.
LEMMA InvNext ==
  ASSUME NetInv, [Next]_vars PROVE NetInv'
<1>1. CASE Next
  BY <1>1, InvClient, InvTick, InvReceive, InvExit, InvEstab DEF Next
<1>2. CASE UNCHANGED vars
  <2>1. ch' = ch /\ link' = link /\ up' = up /\ now' = now /\ kicked' = kicked /\ Kickable' = Kickable
    BY <1>2 DEF vars, Kickable
  <2> QED BY <2>1 DEF NetInv
<1> QED BY <1>1, <1>2

\* Once nothing is under way, what is so at a server is so at the next one on the way to the client.
LEMMA AtRest ==
  ASSUME NetInv, Quiescent, NEW u \in Users, NEW x \in Nodes, x # home[u], NEW y, y = from(x, u)
  PROVE  /\ y \in Nodes /\ (u \in ch[y].mem => u \in ch[x].mem)
         /\ ~ kicked => (u \in ch[y].mem <=> u \in ch[x].mem)
<1>1. y \in Nodes /\ {x, y} \in Edges
  BY NextHop
<1>2. up = Edges /\ \A e \in Wires : link[e] = << >>
  BY DEF Quiescent, Settled, NetInv, WiresOK
<1>3. <<x, y>> \in Wires /\ <<y, x>> \in Wires
  BY <1>1 DEF Wires
<1>4. Sees(u, ch[x].mem, ch[y].mem, << >>, << >>, Kickable)
  BY <1>1, <1>2, <1>3 DEF NetInv, AllSee, SeenBy
<1>5. ~ Kicked(<< >>, u) /\ (After(<< >>, u, ch[x].mem) <=> u \in ch[x].mem)
  <2>1. Len(<< >>) = 0
    OBVIOUS
  <2> QED BY <2>1, AfterNone DEF Kicked
<1>6. ~ kicked => u \notin Kickable
  BY DEF Kickable
<1> QED BY <1>1, <1>4, <1>5, <1>6 DEF Sees

\* The invariant says who is on the channel once nothing is under way: hop after hop towards the client.
LEMMA InvMembers ==
  ASSUME NetInv PROVE MembersRight
<1>1. MembersKnown
  <2> SUFFICES ASSUME Quiescent, NEW u \in Users, u \in ch[home[u]].mem PROVE \A s \in Nodes : u \in ch[s].mem
    BY DEF MembersKnown
  <2>1. PICK S, h : S = {s \in Nodes : u \notin ch[s].mem} /\ h = home[u]
    OBVIOUS
  <2>2. h \in Nodes /\ S \in SUBSET Nodes /\ h \notin S
    BY <2>1, NetAssumption
  <2>3. ASSUME NEW s \in S \ {h} PROVE hop[s][h] \in S
    <3>1. PICK y : y = from(s, u)
      OBVIOUS
    <3>2. s \in Nodes /\ s # home[u] /\ u \notin ch[s].mem /\ y = hop[s][h]
      BY <2>1, <3>1 DEF from
    <3>3. y \in Nodes /\ (u \in ch[y].mem => u \in ch[s].mem)
      BY <3>1, <3>2, AtRest
    <3> QED BY <2>1, <3>2, <3>3
  <2>4. S = {}
    BY <2>2, <2>3, NetAssumption
  <2> QED BY <2>1, <2>4
<1>2. MembersAgree
  <2> SUFFICES ASSUME Quiescent, ~ kicked PROVE \A s, t \in Nodes : ch[s].mem = ch[t].mem
    BY DEF MembersAgree
  <2>1. ASSUME NEW u \in Users, NEW x \in Nodes PROVE u \in ch[x].mem <=> u \in ch[home[u]].mem
    <3>1. PICK S, h : S = {s \in Nodes : ~ (u \in ch[s].mem <=> u \in ch[home[u]].mem)} /\ h = home[u]
      OBVIOUS
    <3>2. h \in Nodes /\ S \in SUBSET Nodes /\ h \notin S
      BY <3>1, NetAssumption
    <3>3. ASSUME NEW s \in S \ {h} PROVE hop[s][h] \in S
      <4>1. PICK y : y = from(s, u)
        OBVIOUS
      <4>2. s \in Nodes /\ s # home[u] /\ ~ (u \in ch[s].mem <=> u \in ch[home[u]].mem) /\ y = hop[s][h]
        BY <3>1, <4>1 DEF from
      <4>3. y \in Nodes /\ (u \in ch[y].mem <=> u \in ch[s].mem)
        BY <4>1, <4>2, AtRest
      <4> QED BY <3>1, <4>2, <4>3
    <3>4. S = {}
      BY <3>2, <3>3, NetAssumption
    <3> QED BY <3>1, <3>4
  <2>2. ASSUME NEW x \in Nodes PROVE ch[x].mem \subseteq Users
    BY CopyIs DEF NetInv, CopiesOK
  <2> QED BY <2>1, <2>2
<1> QED BY <1>1, <1>2 DEF MembersRight

\* For any tree of servers, any clients and any order in which joins, parts, kicks, mode changes, splits
\* and new links cross: a client its own server has on the channel is on it everywhere once nothing is
\* under way, and if nobody was kicked all servers have the same members.
THEOREM MembersAlwaysRight == Spec => []MembersRight
<1>1. Init => NetInv
  BY InvInit
<1>2. NetInv /\ [Next]_vars => NetInv'
  BY InvNext
<1>3. NetInv => MembersRight
  BY InvMembers
<1> QED BY <1>1, <1>2, <1>3, PTL DEF Spec

\* Every copy of the channel is sound at all times: a copy without members is the free one, an operator
\* is a member, the modes are well-formed and the timestamp is a time that has been.
THEOREM CopiesAlwaysSound == Spec => []CopyOK
<1>1. Init => NetInv
  BY InvInit
<1>2. NetInv /\ [Next]_vars => NetInv'
  BY InvNext
<1>3. NetInv => CopyOK
  BY CopyIs DEF NetInv, CopiesOK, CopyOK
<1> QED BY <1>1, <1>2, <1>3, PTL DEF Spec
=============================================================================
