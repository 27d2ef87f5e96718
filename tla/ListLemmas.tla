----------------------------- MODULE ListLemmas -----------------------------
(***************************************************************************)
(* What the operations on lists do, for lists of any length.               *)
(***************************************************************************)
EXTENDS LinkedLists, SequenceTheorems, FiniteSetTheorems, WellFoundedInduction, TLAPS

\* Every nonempty set of natural numbers has a least element.
LEMMA Least ==
  ASSUME NEW T \in SUBSET Nat, T # {}
  PROVE  \E x \in T : \A y \in T : x <= y
<1> DEFINE R == OpToRel(<, Nat)
<1>1. IsWellFoundedOn(R, Nat)
  BY NatLessThanWellFounded
<1>2. R = {p \in Nat \X Nat : p[1] < p[2]}
  BY DEF OpToRel
<1> HIDE DEF R
<1>3. PICK x \in T : \A y \in T : ~ (<<y, x>> \in R)
  BY <1>1, WFMin
<1>4. ASSUME NEW y \in T PROVE x <= y
  <2>1. <<y, x>> \in Nat \X Nat /\ <<y, x>>[1] = y /\ <<y, x>>[2] = x
    OBVIOUS
  <2>2. ~ (y < x)
    BY <2>1, <1>2, <1>3
  <2> QED BY <2>2
<1> QED BY <1>4

\* Induction, for what a set says of the numbers up to n.
LEMMA InductUpTo ==
  ASSUME NEW n \in Nat, NEW S, 0 \in S, \A i \in 0 .. n - 1 : i \in S => i + 1 \in S
  PROVE  \A i \in 0 .. n : i \in S
<1> DEFINE T == (0 .. n) \ S
<1> SUFFICES ASSUME T # {} PROVE FALSE
  OBVIOUS
<1>1. PICK x \in T : \A y \in T : x <= y
  <2>1. T \in SUBSET Nat
    OBVIOUS
  <2> HIDE DEF T
  <2> QED BY <2>1, Least
<1>2. x - 1 \in 0 .. n - 1 /\ x - 1 \in 0 .. n
  BY <1>1
<1>3. x - 1 \in S
  BY <1>1, <1>2
<1> QED BY <1>1, <1>2, <1>3

----------------------------------------------------------------------------
(* A list r is what is left of list s when the entries at some places go:  *)
(* at[i] is where the i-th entry of r was.                                 *)
Thins(r, s, at) == /\ at \in [1 .. Len(r) -> 1 .. Len(s)]
                   /\ \A i \in 1 .. Len(r) : r[i] = s[at[i]]
                   /\ \A i, j \in 1 .. Len(r) : i < j => at[i] < at[j]

\* ... and then its entries are in their old order, each as often or less.
LEMMA ThinnerList ==
  ASSUME NEW A, NEW s \in Seq(A), NEW r \in Seq(A), NEW at, Thins(r, s, at)
  PROVE  /\ Range(r) \subseteq Range(s)
         /\ IsInjective(s) => IsInjective(r)
         /\ IsInjective(s) => \A i, j \in 1 .. Len(r) : i < j =>
              \E k, l \in 1 .. Len(s) : k < l /\ s[k] = r[i] /\ s[l] = r[j]
<1>1. DOMAIN r = 1 .. Len(r) /\ DOMAIN s = 1 .. Len(s) /\ Len(r) \in Nat /\ Len(s) \in Nat
  OBVIOUS
<1>2. Range(r) \subseteq Range(s)
  BY <1>1 DEF Range, Thins
<1>3. ASSUME IsInjective(s), NEW i \in 1 .. Len(r), NEW j \in 1 .. Len(r), r[i] = r[j]
      PROVE  i = j
  <2>1. at[i] = at[j]
    BY <1>1, <1>3 DEF IsInjective, Thins
  <2>2. ~ (i < j) /\ ~ (j < i)
    BY <1>1, <2>1 DEF Thins
  <2> QED BY <1>1, <2>2
<1>4. IsInjective(s) => IsInjective(r)
  BY <1>1, <1>3 DEF IsInjective
<1>5. \A i, j \in 1 .. Len(r) : i < j =>
        \E k, l \in 1 .. Len(s) : k < l /\ s[k] = r[i] /\ s[l] = r[j]
  <2> SUFFICES ASSUME NEW i \in 1 .. Len(r), NEW j \in 1 .. Len(r), i < j
               PROVE  \E k, l \in 1 .. Len(s) : k < l /\ s[k] = r[i] /\ s[l] = r[j]
    OBVIOUS
  <2>1. at[i] \in 1 .. Len(s) /\ at[j] \in 1 .. Len(s) /\ at[i] < at[j]
        /\ s[at[i]] = r[i] /\ s[at[j]] = r[j]
    BY <1>1 DEF Thins
  <2> QED BY <2>1
<1> QED BY <1>2, <1>4, <1>5

\* The walk of Keep, step by step.
LEMMA KeepWalk ==
  ASSUME NEW A, NEW s \in Seq(A), NEW K
  PROVE  \E F : /\ Keep(s, K) = F[Len(s)] /\ F[0] = << >>
                /\ \A i \in 1 .. Len(s) :
                     F[i] = IF s[i] \in K THEN Append(F[i - 1], s[i]) ELSE F[i - 1]
<1> DEFINE body(G, i) == IF i = 0 THEN << >>
                         ELSE IF s[i] \in K THEN Append(G[i - 1], s[i]) ELSE G[i - 1]
           S == {n \in 0 .. Len(s) : \E G : G = [i \in 0 .. n |-> body(G, i)]}
           F == CHOOSE G : G = [i \in 0 .. Len(s) |-> body(G, i)]
<1>1. Len(s) \in Nat
  OBVIOUS
<1>2. 0 \in S
  <2> DEFINE G == [i \in 0 .. 0 |-> << >>]
  <2>1. G = [i \in 0 .. 0 |-> body(G, i)]
    OBVIOUS
  <2>2. 0 \in 0 .. Len(s)
    BY <1>1
  <2> QED BY <2>1, <2>2
<1>3. ASSUME NEW n \in 0 .. Len(s) - 1, n \in S PROVE n + 1 \in S
  <2>1. PICK G : G = [i \in 0 .. n |-> body(G, i)]
    BY <1>3
  <2> DEFINE H == [i \in 0 .. n + 1 |-> IF i <= n THEN G[i] ELSE body(G, n + 1)]
  <2>2. ASSUME NEW i \in 0 .. n + 1 PROVE H[i] = body(H, i)
    <3>1. CASE i = 0
      <4>1. H[0] = G[0] /\ G[0] = << >>
        BY <1>1, <2>1
      <4> QED BY <3>1, <4>1
    <3>2. CASE i # 0
      <4>1. i - 1 \in 0 .. n /\ H[i - 1] = G[i - 1]
        BY <1>1, <3>2
      <4>2. H[i] = body(G, i)
        <5>1. CASE i <= n
          <6>1. H[i] = G[i] /\ i \in 0 .. n
            BY <1>1, <5>1
          <6>2. G[i] = body(G, i)
            BY <2>1, <6>1
          <6> QED BY <6>1, <6>2
        <5>2. CASE ~ (i <= n)
          <6>1. i = n + 1
            BY <1>1, <5>2
          <6> QED BY <1>1, <6>1
        <5> QED BY <5>1, <5>2
      <4> QED BY <3>2, <4>1, <4>2
    <3> QED BY <3>1, <3>2
  <2>3. H = [i \in 0 .. n + 1 |-> body(H, i)]
    <3> DEFINE B == [i \in 0 .. n + 1 |-> body(H, i)]
    <3>1. \A i \in 0 .. n + 1 : H[i] = B[i]
      BY <2>2
    <3> HIDE DEF body
    <3> QED BY <3>1
  <2>4. n + 1 \in 0 .. Len(s)
    BY <1>1
  <2> HIDE DEF H
  <2> QED BY <2>3, <2>4
<1>4. Len(s) \in S
  <2> HIDE DEF S
  <2>1. \A i \in 0 .. Len(s) : i \in S
    BY <1>1, <1>2, <1>3, InductUpTo, SMTT(30)
  <2> QED BY <1>1, <2>1
<1>5. F = [i \in 0 .. Len(s) |-> body(F, i)]
  <2>1. PICK G : G = [i \in 0 .. Len(s) |-> body(G, i)]
    BY <1>4
  <2> QED BY <2>1
<1>6. Keep(s, K) = F[Len(s)]
  BY DEF Keep
<1> HIDE DEF F
<1>7. F[0] = << >> /\ \A i \in 1 .. Len(s) : F[i] = body(F, i)
  <2>1. 0 \in 0 .. Len(s) /\ \A i \in 1 .. Len(s) : i \in 0 .. Len(s)
    BY <1>1
  <2>2. F[0] = body(F, 0) /\ \A i \in 1 .. Len(s) : F[i] = body(F, i)
    <3> HIDE DEF body
    <3> QED BY <1>5, <2>1
  <2> QED BY <2>2
<1>8. \A i \in 1 .. Len(s) : F[i] = IF s[i] \in K THEN Append(F[i - 1], s[i]) ELSE F[i - 1]
  BY <1>1, <1>7
<1> QED BY <1>6, <1>7, <1>8

\* Keep leaves exactly the entries in K, in their order.
LEMMA KeepSpec ==
  ASSUME NEW A, NEW s \in Seq(A), NEW K
  PROVE  /\ Keep(s, K) \in Seq(A) /\ Len(Keep(s, K)) <= Len(s)
         /\ Range(Keep(s, K)) = Range(s) \cap K
         /\ \E at : Thins(Keep(s, K), s, at)
<1>1. PICK F : /\ Keep(s, K) = F[Len(s)] /\ F[0] = << >>
               /\ \A i \in 1 .. Len(s) :
                    F[i] = IF s[i] \in K THEN Append(F[i - 1], s[i]) ELSE F[i - 1]
  BY KeepWalk
<1> DEFINE good(r, n) == /\ r \in Seq(A) /\ Len(r) <= n
                         /\ \A i \in 1 .. Len(r) : r[i] \in K
                         /\ \A k \in 1 .. n : s[k] \in K => \E i \in 1 .. Len(r) : r[i] = s[k]
                         /\ \E at \in [1 .. Len(r) -> 1 .. n] :
                              /\ \A i \in 1 .. Len(r) : r[i] = s[at[i]]
                              /\ \A i, j \in 1 .. Len(r) : i < j => at[i] < at[j]
           S == {n \in 0 .. Len(s) : good(F[n], n)}
<1>2. Len(s) \in Nat /\ DOMAIN s = 1 .. Len(s)
  OBVIOUS
<1>3. 0 \in S
  <2> DEFINE z == F[0]
  <2>1. z \in Seq(A) /\ Len(z) = 0
    BY <1>1
  <2> HIDE DEF z
  <2>2. \E at \in [1 .. Len(z) -> 1 .. 0] :
           /\ \A i \in 1 .. Len(z) : z[i] = s[at[i]]
           /\ \A i, j \in 1 .. Len(z) : i < j => at[i] < at[j]
    <3> DEFINE at == [i \in 1 .. 0 |-> i]
    <3>1. at \in [1 .. Len(z) -> 1 .. 0] /\ \A i \in 1 .. Len(z) : FALSE
      BY <2>1
    <3> HIDE DEF at
    <3> QED BY <3>1
  <2>3. \A i \in 1 .. 0 : FALSE
    OBVIOUS
  <2>4. good(z, 0)
    <3>1. Len(z) <= 0 /\ \A i \in 1 .. Len(z) : z[i] \in K
      BY <2>1
    <3>2. \A k \in 1 .. 0 : s[k] \in K => \E i \in 1 .. Len(z) : z[i] = s[k]
      BY <2>3
    <3> QED BY <2>1, <2>2, <3>1, <3>2, Zenon
  <2> HIDE DEF good
  <2> QED BY <1>2, <2>4 DEF z
<1>4. ASSUME NEW n \in 0 .. Len(s) - 1, n \in S PROVE n + 1 \in S
  <2> DEFINE r == F[n]
             e == s[n + 1]
             m == Len(r)
  <2>1. n \in Nat /\ n + 1 \in 1 .. Len(s) /\ n + 1 \in 0 .. Len(s) /\ (n + 1) - 1 = n /\ e \in A
    BY <1>2
  <2>2. F[n + 1] = IF e \in K THEN Append(r, e) ELSE r
    BY <1>1, <2>1
  <2>3. good(r, n)
    <3> HIDE DEF good
    <3> QED BY <1>4
  <2> HIDE DEF e, r
  <2>4. PICK at \in [1 .. m -> 1 .. n] :
           /\ \A i \in 1 .. m : r[i] = s[at[i]]
           /\ \A i, j \in 1 .. m : i < j => at[i] < at[j]
    BY <2>3
  <2>5. /\ r \in Seq(A) /\ m <= n /\ \A i \in 1 .. m : r[i] \in K
        /\ \A k \in 1 .. n : s[k] \in K => \E i \in 1 .. m : r[i] = s[k]
    BY <2>3
  <2>6. m \in Nat
    BY <2>5
  <2>7. CASE e \notin K
    <3>1. at \in [1 .. m -> 1 .. n + 1]
      BY <2>1, <2>4
    <3>2. \A k \in 1 .. n + 1 : s[k] \in K => \E i \in 1 .. m : r[i] = s[k]
      BY <2>1, <2>5, <2>7 DEF e
    <3>3. \E bt \in [1 .. m -> 1 .. n + 1] :
             /\ \A i \in 1 .. m : r[i] = s[bt[i]]
             /\ \A i, j \in 1 .. m : i < j => bt[i] < bt[j]
      BY <2>4, <3>1
    <3>4. good(r, n + 1)
      BY <2>1, <2>5, <2>6, <3>2, <3>3, SMTT(30)
    <3> HIDE DEF good
    <3> QED BY <2>1, <2>2, <2>7, <3>4
  <2>8. CASE e \in K
    <3> DEFINE q == Append(r, e)
               bt == [i \in 1 .. m + 1 |-> IF i <= m THEN at[i] ELSE n + 1]
    <3>1. /\ q \in Seq(A) /\ Len(q) = m + 1 /\ q[m + 1] = e
          /\ \A i \in 1 .. m : q[i] = r[i]
      BY <2>1, <2>5
    <3> HIDE DEF q, m
    <3>2. \A i \in 1 .. m + 1 : i = m + 1 \/ i \in 1 .. m
      BY <2>6
    <3>3. \A i \in 1 .. m + 1 : q[i] \in K
      BY <2>5, <2>8, <3>1, <3>2
    <3>4. \A k \in 1 .. n + 1 : s[k] \in K => \E i \in 1 .. m + 1 : q[i] = s[k]
      <4> SUFFICES ASSUME NEW k \in 1 .. n + 1, s[k] \in K PROVE \E i \in 1 .. m + 1 : q[i] = s[k]
        OBVIOUS
      <4>1. CASE k = n + 1
        <5>1. m + 1 \in 1 .. m + 1 /\ q[m + 1] = s[k]
          BY <2>6, <3>1, <4>1 DEF e
        <5> QED BY <5>1
      <4>2. CASE k # n + 1
        <5>1. k \in 1 .. n
          BY <2>1, <4>2
        <5>2. PICK i \in 1 .. m : r[i] = s[k]
          BY <2>5, <5>1
        <5>3. i \in 1 .. m + 1
          BY <2>6
        <5> QED BY <3>1, <5>2, <5>3
      <4> QED BY <4>1, <4>2
    <3>5. bt \in [1 .. m + 1 -> 1 .. n + 1]
      BY <2>1, <2>4, <2>6
    <3>6. \A i \in 1 .. m + 1 : q[i] = s[bt[i]]
      BY <2>4, <2>6, <3>1, <3>2 DEF e
    <3>7. \A i, j \in 1 .. m + 1 : i < j => bt[i] < bt[j]
      <4> SUFFICES ASSUME NEW i \in 1 .. m + 1, NEW j \in 1 .. m + 1, i < j PROVE bt[i] < bt[j]
        OBVIOUS
      <4>1. i \in 1 .. m /\ bt[i] = at[i] /\ at[i] \in 1 .. n
        BY <2>4, <2>6
      <4>2. CASE j \in 1 .. m
        BY <2>4, <2>6, <4>1, <4>2
      <4>3. CASE j = m + 1
        BY <2>1, <2>6, <4>1, <4>3
      <4> QED BY <3>2, <4>2, <4>3
    <3> HIDE DEF bt
    <3>8. \E ct \in [1 .. m + 1 -> 1 .. n + 1] :
             /\ \A i \in 1 .. m + 1 : q[i] = s[ct[i]]
             /\ \A i, j \in 1 .. m + 1 : i < j => ct[i] < ct[j]
      BY <3>5, <3>6, <3>7
    <3>9. m + 1 <= n + 1
      BY <2>1, <2>5, <2>6
    <3>10. good(q, n + 1)
      BY <3>1, <3>3, <3>4, <3>8, <3>9
    <3> HIDE DEF good
    <3> QED BY <2>1, <2>2, <2>8, <3>10 DEF q
  <2> QED BY <2>7, <2>8
<1>5. good(Keep(s, K), Len(s))
  <2> HIDE DEF S
  <2>1. \A i \in 0 .. Len(s) : i \in S
    BY <1>2, <1>3, <1>4, InductUpTo
  <2>2. Len(s) \in S
    BY <1>2, <2>1
  <2> HIDE DEF good
  <2> QED BY <1>1, <2>2 DEF S
<1> DEFINE r == Keep(s, K)
<1> HIDE DEF r
<1>6. /\ r \in Seq(A) /\ Len(r) <= Len(s) /\ \A i \in 1 .. Len(r) : r[i] \in K
      /\ \A k \in 1 .. Len(s) : s[k] \in K => \E i \in 1 .. Len(r) : r[i] = s[k]
      /\ \E at \in [1 .. Len(r) -> 1 .. Len(s)] :
                              /\ \A i \in 1 .. Len(r) : r[i] = s[at[i]]
                              /\ \A i, j \in 1 .. Len(r) : i < j => at[i] < at[j]
  BY <1>5 DEF r
<1>7. \E at : Thins(r, s, at)
  BY <1>6 DEF Thins
<1>8. DOMAIN r = 1 .. Len(r)
  BY <1>6
<1>9. Range(r) = Range(s) \cap K
  <2>1. Range(r) \subseteq Range(s)
    BY <1>6, <1>7, ThinnerList
  <2>2. Range(r) \subseteq K
    BY <1>6, <1>8 DEF Range
  <2>3. ASSUME NEW x \in Range(s), x \in K PROVE x \in Range(r)
    <3>1. PICK k \in 1 .. Len(s) : s[k] = x
      BY <1>2 DEF Range
    <3>2. PICK i \in 1 .. Len(r) : r[i] = x
      BY <1>6, <2>3, <3>1
    <3> QED BY <1>8, <3>2 DEF Range
  <2> QED BY <2>1, <2>2, <2>3
<1> QED BY <1>6, <1>7, <1>9 DEF r

----------------------------------------------------------------------------
(* One entry is unlinked, or put at the head or the tail.                  *)

LEMMA RemoveAtSpec ==
  ASSUME NEW A, NEW s \in Seq(A), NEW k \in 1 .. Len(s)
  PROVE  LET r == RemoveAt(s, k)
         IN  /\ r \in Seq(A) /\ Len(r) = Len(s) - 1
             /\ \A i \in 1 .. Len(r) : r[i] = IF i < k THEN s[i] ELSE s[i + 1]
             /\ \E at : Thins(r, s, at)
             /\ IsInjective(s) => IsInjective(r) /\ Range(r) = Range(s) \ {s[k]}
<1> DEFINE r == RemoveAt(s, k)
           p == SubSeq(s, 1, k - 1)
           q == SubSeq(s, k + 1, Len(s))
<1>1. Len(s) \in Nat /\ DOMAIN s = 1 .. Len(s)
  OBVIOUS
<1>2. p \in Seq(A) /\ Len(p) = k - 1 /\ \A i \in 1 .. (k - 1) : p[i] = s[i]
  BY <1>1
<1>3. q \in Seq(A) /\ Len(q) = Len(s) - k /\ \A i \in 1 .. (Len(s) - k) : q[i] = s[k + i]
  OBVIOUS
<1>4. r = p \o q
  BY DEF RemoveAt
<1> HIDE DEF p, q, r
<1>5. r \in Seq(A) /\ Len(r) = Len(s) - 1
  <2>1. r \in Seq(A) /\ Len(r) = Len(p) + Len(q)
    <3>1. p \in Seq(A) /\ q \in Seq(A)
      BY <1>2, <1>3
    <3> QED BY <1>4, <3>1, ConcatProperties
  <2> QED BY <1>1, <1>2, <1>3, <2>1
<1>6. \A i \in 1 .. Len(r) : r[i] = IF i <= Len(p) THEN p[i] ELSE q[i - Len(p)]
  BY <1>1, <1>2, <1>3, <1>4, <1>5
<1>7. ASSUME NEW i \in 1 .. Len(r) PROVE r[i] = IF i < k THEN s[i] ELSE s[i + 1]
  <2>1. CASE i < k
    BY <1>1, <1>2, <1>5, <1>6, <2>1
  <2>2. CASE ~ (i < k)
    <3>1. i - (k - 1) \in 1 .. (Len(s) - k) /\ k + (i - (k - 1)) = i + 1 /\ ~ (i <= Len(p))
      BY <1>1, <1>2, <1>5, <2>2
    <3> QED BY <1>2, <1>3, <1>6, <2>2, <3>1, ZenonT(40)
  <2> QED BY <2>1, <2>2
<1>8. Thins(r, s, [i \in 1 .. Len(r) |-> IF i < k THEN i ELSE i + 1])
  BY <1>1, <1>5, <1>7 DEF Thins
<1>9. ASSUME IsInjective(s) PROVE IsInjective(r) /\ Range(r) = Range(s) \ {s[k]}
  <2>1. IsInjective(r)
    BY <1>5, <1>8, <1>9, ThinnerList
  <2>2. DOMAIN r = 1 .. Len(r)
    BY <1>5
  <2>3. ASSUME NEW x \in Range(r) PROVE x \in Range(s) \ {s[k]}
    <3>1. PICK i \in 1 .. Len(r) : r[i] = x
      BY <2>2 DEF Range
    <3>2. PICK j \in 1 .. Len(s) : j # k /\ s[j] = x
      <4>1. CASE i < k
        <5>1. i \in 1 .. Len(s) /\ i # k /\ s[i] = x
          BY <1>1, <1>5, <1>7, <3>1, <4>1
        <5> QED BY <5>1
      <4>2. CASE ~ (i < k)
        <5>1. i + 1 \in 1 .. Len(s) /\ i + 1 # k /\ s[i + 1] = x
          BY <1>1, <1>5, <1>7, <3>1, <4>2
        <5> QED BY <5>1
      <4> QED BY <4>1, <4>2
    <3> QED BY <1>1, <1>9, <3>2 DEF Range, IsInjective
  <2>4. ASSUME NEW x \in Range(s), x # s[k] PROVE x \in Range(r)
    <3>1. PICK j \in 1 .. Len(s) : s[j] = x
      BY <1>1 DEF Range
    <3>2. PICK i \in 1 .. Len(r) : r[i] = x
      <4>1. CASE j < k
        <5>1. j \in 1 .. Len(r) /\ r[j] = x
          BY <1>1, <1>5, <1>7, <3>1, <4>1
        <5> QED BY <5>1
      <4>2. CASE j > k
        <5>1. j - 1 \in 1 .. Len(r) /\ r[j - 1] = x
          BY <1>1, <1>5, <1>7, <3>1, <4>2
        <5> QED BY <5>1
      <4> QED BY <1>1, <2>4, <3>1, <4>1, <4>2
    <3> QED BY <2>2, <3>2 DEF Range
  <2> QED BY <2>1, <2>3, <2>4
<1> QED BY <1>5, <1>7, <1>8, <1>9 DEF r

\* Taking the only occurrence of e out of a list.
LEMMA RemoveFirstSpec ==
  ASSUME NEW A, NEW s \in Seq(A), IsInjective(s), NEW e
  PROVE  LET r == RemoveFirst(s, e)
         IN  /\ r \in Seq(A) /\ IsInjective(r) /\ Range(r) = Range(s) \ {e}
             /\ Len(r) = IF e \in Range(s) THEN Len(s) - 1 ELSE Len(s)
             /\ \E at : Thins(r, s, at)
<1>1. Len(s) \in Nat /\ DOMAIN s = 1 .. Len(s)
  OBVIOUS
<1>2. CASE e \notin Range(s)
  <2>1. RemoveFirst(s, e) = s
    BY <1>1, <1>2 DEF RemoveFirst, Range
  <2>2. Thins(s, s, [i \in 1 .. Len(s) |-> i])
    BY <1>1 DEF Thins
  <2> QED BY <1>2, <2>1, <2>2
<1>3. CASE e \in Range(s)
  <2>1. PICK k \in 1 .. Len(s) : s[k] = e
    BY <1>1, <1>3 DEF Range
  <2>2. {i \in 1 .. Len(s) : s[i] = e} = {k}
    BY <1>1, <2>1 DEF IsInjective
  <2>3. SelectInSeq(s, LAMBDA v : v = e) = k
    BY <2>2 DEF SelectInSeq, Min
  <2>4. RemoveFirst(s, e) = RemoveAt(s, k)
    BY <2>1, <2>3 DEF RemoveFirst
  <2> QED BY <1>3, <2>1, <2>4, RemoveAtSpec
<1> QED BY <1>2, <1>3

\* A new entry at the head.
LEMMA PushSpec ==
  ASSUME NEW A, NEW s \in Seq(A), NEW e \in A
  PROVE  LET r == <<e>> \o s
         IN  /\ r \in Seq(A) /\ Len(r) = Len(s) + 1 /\ r[1] = e
             /\ \A i \in 1 .. Len(s) : r[i + 1] = s[i]
             /\ \A i \in 2 .. Len(r) : r[i] = s[i - 1]
             /\ Range(r) = Range(s) \cup {e}
             /\ IsInjective(s) /\ e \notin Range(s) => IsInjective(r)
<1> DEFINE r == <<e>> \o s
<1>1. Len(s) \in Nat /\ DOMAIN s = 1 .. Len(s)
  OBVIOUS
<1>2. /\ r \in Seq(A) /\ Len(r) = Len(s) + 1 /\ r[1] = e
      /\ \A i \in 2 .. Len(r) : r[i] = s[i - 1]
  OBVIOUS
<1> HIDE DEF r
<1>3. DOMAIN r = 1 .. Len(r)
  BY <1>2
<1>4. ASSUME NEW i \in 1 .. Len(s) PROVE r[i + 1] = s[i]
  <2>1. i + 1 \in 2 .. Len(r) /\ (i + 1) - 1 = i
    BY <1>1, <1>2
  <2> QED BY <1>2, <2>1
<1>5. Range(r) = Range(s) \cup {e}
  <2>1. ASSUME NEW x \in Range(r) PROVE x \in Range(s) \cup {e}
    <3>1. PICK i \in 1 .. Len(r) : r[i] = x
      BY <1>3 DEF Range
    <3>2. CASE i = 1
      BY <1>2, <3>1, <3>2
    <3>3. CASE i # 1
      <4>1. i \in 2 .. Len(r) /\ i - 1 \in 1 .. Len(s)
        BY <1>1, <1>2, <3>3
      <4> QED BY <1>1, <1>2, <3>1, <4>1 DEF Range
    <3> QED BY <3>2, <3>3
  <2>2. ASSUME NEW x \in Range(s) PROVE x \in Range(r)
    <3>1. PICK i \in 1 .. Len(s) : s[i] = x
      BY <1>1 DEF Range
    <3>2. i + 1 \in 1 .. Len(r) /\ r[i + 1] = x
      BY <1>1, <1>2, <1>4, <3>1
    <3> QED BY <1>3, <3>2 DEF Range
  <2>3. e \in Range(r)
    <3>1. 1 \in 1 .. Len(r)
      BY <1>1, <1>2
    <3> QED BY <1>2, <1>3, <3>1 DEF Range
  <2> QED BY <2>1, <2>2, <2>3
<1>6. ASSUME IsInjective(s), e \notin Range(s) PROVE IsInjective(r)
  <2> SUFFICES ASSUME NEW i \in 1 .. Len(r), NEW j \in 1 .. Len(r), r[i] = r[j] PROVE i = j
    BY <1>3 DEF IsInjective
  <2>1. \A l \in 2 .. Len(r) : l - 1 \in 1 .. Len(s) /\ r[l] = s[l - 1] /\ r[l] # e
    BY <1>1, <1>2, <1>6 DEF Range
  <2>2. \A l \in 1 .. Len(r) : l = 1 \/ l \in 2 .. Len(r)
    BY <1>1, <1>2
  <2>3. CASE i \in 2 .. Len(r) /\ j \in 2 .. Len(r)
    <3>1. i - 1 = j - 1
      BY <1>1, <1>6, <2>1, <2>3 DEF IsInjective
    <3> QED BY <3>1
  <2> QED BY <1>2, <2>1, <2>2, <2>3
<1> QED BY <1>2, <1>4, <1>5, <1>6 DEF r

\* A new entry at the tail.
LEMMA AppendSpec ==
  ASSUME NEW A, NEW s \in Seq(A), NEW e \in A
  PROVE  LET r == Append(s, e)
         IN  /\ r \in Seq(A) /\ Len(r) = Len(s) + 1 /\ r[Len(r)] = e
             /\ \A i \in 1 .. Len(s) : r[i] = s[i]
             /\ Range(r) = Range(s) \cup {e}
             /\ IsInjective(s) /\ e \notin Range(s) => IsInjective(r)
<1> DEFINE r == Append(s, e)
<1>1. Len(s) \in Nat /\ DOMAIN s = 1 .. Len(s)
  OBVIOUS
<1>2. /\ r \in Seq(A) /\ Len(r) = Len(s) + 1 /\ r[Len(s) + 1] = e
      /\ \A i \in 1 .. Len(s) : r[i] = s[i]
  OBVIOUS
<1> HIDE DEF r
<1>3. DOMAIN r = 1 .. Len(r) /\ \A i \in 1 .. Len(r) : i \in 1 .. Len(s) \/ i = Len(s) + 1
  BY <1>1, <1>2
<1>4. Range(r) = Range(s) \cup {e}
  <2>1. ASSUME NEW x \in Range(r) PROVE x \in Range(s) \cup {e}
    <3>1. PICK i \in 1 .. Len(r) : r[i] = x
      BY <1>3 DEF Range
    <3> QED BY <1>1, <1>2, <1>3, <3>1 DEF Range
  <2>2. ASSUME NEW x \in Range(s) PROVE x \in Range(r)
    <3>1. PICK i \in 1 .. Len(s) : s[i] = x
      BY <1>1 DEF Range
    <3>2. i \in 1 .. Len(r) /\ r[i] = x
      BY <1>1, <1>2, <3>1
    <3> QED BY <1>3, <3>2 DEF Range
  <2>3. e \in Range(r)
    <3>1. Len(s) + 1 \in 1 .. Len(r)
      BY <1>1, <1>2
    <3> QED BY <1>2, <1>3, <3>1 DEF Range
  <2> QED BY <2>1, <2>2, <2>3
<1>5. ASSUME IsInjective(s), e \notin Range(s) PROVE IsInjective(r)
  <2> SUFFICES ASSUME NEW i \in 1 .. Len(r), NEW j \in 1 .. Len(r), r[i] = r[j] PROVE i = j
    BY <1>3 DEF IsInjective
  <2>1. \A k \in 1 .. Len(s) : r[k] = s[k] /\ r[k] # e
    BY <1>1, <1>2, <1>5 DEF Range
  <2>2. CASE i \in 1 .. Len(s) /\ j \in 1 .. Len(s)
    BY <1>1, <1>5, <2>1, <2>2 DEF IsInjective
  <2> QED BY <1>2, <1>3, <2>1, <2>2
<1> QED BY <1>2, <1>4, <1>5 DEF r

\* An entry of a list without repetitions is counted once.
LEMMA CountedOnce ==
  ASSUME NEW A, NEW s \in Seq(A), IsInjective(s), NEW e
  PROVE  Cardinality({i \in DOMAIN s : s[i] = e}) = IF e \in Range(s) THEN 1 ELSE 0
<1>1. CASE e \in Range(s)
  <2>1. PICK k \in DOMAIN s : s[k] = e
    BY <1>1 DEF Range
  <2>2. {i \in DOMAIN s : s[i] = e} = {k}
    BY <2>1 DEF IsInjective
  <2>3. Cardinality({k}) = 1
    BY FS_Singleton
  <2> QED BY <1>1, <2>2, <2>3
<1>2. CASE e \notin Range(s)
  <2>1. {i \in DOMAIN s : s[i] = e} = {}
    BY <1>2 DEF Range
  <2> QED BY <1>2, <2>1, FS_EmptySet
<1> QED BY <1>1, <1>2

\* What has a place in n slots are no more than n.
LEMMA Slotted ==
  ASSUME NEW n \in Nat, NEW S, NEW f, \A x \in S : \E i \in 1 .. n : f[i] = x
  PROVE  IsFiniteSet(S) /\ Cardinality(S) <= n
<1> DEFINE T == {i \in 1 .. n : f[i] \in S}
           g == [i \in T |-> f[i]]
<1>1. g \in Surjection(T, S)
  <2>1. g \in [T -> S]
    OBVIOUS
  <2>2. ASSUME NEW x \in S PROVE \E i \in T : g[i] = x
    <3>1. PICK i \in 1 .. n : f[i] = x
      OBVIOUS
    <3>2. i \in T /\ g[i] = x
      BY <3>1
    <3> QED BY <3>2
  <2> HIDE DEF T, g
  <2> QED BY <2>1, <2>2 DEF Surjection
<1>2. IsFiniteSet(1 .. n) /\ Cardinality(1 .. n) = n
  <2>1. IsFiniteSet(1 .. n) /\ Cardinality(1 .. n) = IF 1 > n THEN 0 ELSE n - 1 + 1
    BY FS_Interval
  <2> QED BY <2>1
<1>3. T \in SUBSET (1 .. n)
  OBVIOUS
<1> HIDE DEF T, g
<1>4. IsFiniteSet(T) /\ Cardinality(T) <= n
  BY <1>2, <1>3, FS_Subset
<1>5. IsFiniteSet(S) /\ Cardinality(S) <= Cardinality(T)
  BY <1>1, <1>4, FS_Surjection
<1>6. Cardinality(T) \in Nat /\ Cardinality(S) \in Nat
  BY <1>4, <1>5, FS_CardinalityType
<1> QED BY <1>4, <1>5, <1>6

\* A list with nothing gone.
LEMMA ThinsSelf ==
  ASSUME NEW A, NEW s \in Seq(A)
  PROVE  \E at : Thins(s, s, at)
<1> DEFINE at == [i \in 1 .. Len(s) |-> i]
<1>1. Len(s) \in Nat
  OBVIOUS
<1>2. Thins(s, s, at)
  BY <1>1 DEF Thins
<1> QED BY <1>2

----------------------------------------------------------------------------
(* Where a list has entries of a set.                                      *)
Occ(s, P) == {k \in 1 .. Len(s) : s[k] \in P}

\* ... are finitely many places.
LEMMA OccFinite ==
  ASSUME NEW A, NEW s \in Seq(A), NEW P
  PROVE  IsFiniteSet(Occ(s, P)) /\ Cardinality(Occ(s, P)) \in Nat
<1>1. Len(s) \in Nat
  OBVIOUS
<1>2. IsFiniteSet(1 .. Len(s)) /\ Occ(s, P) \in SUBSET (1 .. Len(s))
  BY <1>1, FS_Interval DEF Occ
<1>3. IsFiniteSet(Occ(s, P))
  BY <1>2, FS_Subset
<1> QED BY <1>3, FS_CardinalityType

\* Fewer kinds of entries, fewer places.
LEMMA OccSubset ==
  ASSUME NEW A, NEW s \in Seq(A), NEW P, NEW Q, \A k \in 1 .. Len(s) : s[k] \in P => s[k] \in Q
  PROVE  Cardinality(Occ(s, P)) <= Cardinality(Occ(s, Q))
<1>1. Occ(s, P) \in SUBSET Occ(s, Q)
  BY DEF Occ
<1>2. IsFiniteSet(Occ(s, Q))
  BY OccFinite
<1> QED BY <1>1, <1>2, FS_Subset

\* A list with fewer entries has them at fewer places.
LEMMA OccThins ==
  ASSUME NEW A, NEW s \in Seq(A), NEW r \in Seq(A), NEW at, Thins(r, s, at), NEW P
  PROVE  Cardinality(Occ(r, P)) <= Cardinality(Occ(s, P))
<1> DEFINE f == [k \in Occ(r, P) |-> at[k]]
<1>1. f \in [Occ(r, P) -> Occ(s, P)]
  BY DEF Occ, Thins
<1>2. ASSUME NEW k \in Occ(r, P), NEW l \in Occ(r, P), f[k] = f[l] PROVE k = l
  <2>1. Len(r) \in Nat /\ Len(s) \in Nat /\ k \in 1 .. Len(r) /\ l \in 1 .. Len(r)
    BY DEF Occ
  <2>2. at[k] = at[l] /\ at[k] \in 1 .. Len(s)
    BY <1>2, <2>1 DEF Thins
  <2>3. ~ (k < l) /\ ~ (l < k)
    BY <2>1, <2>2 DEF Thins
  <2> QED BY <2>1, <2>3
<1> HIDE DEF f
<1>3. f \in Injection(Occ(r, P), Occ(s, P))
  BY <1>1, <1>2 DEF Injection, IsInjective
<1>4. IsFiniteSet(Occ(s, P))
  BY OccFinite
<1> QED BY <1>3, <1>4, FS_Injection

\* One entry more.
LEMMA OccAppend ==
  ASSUME NEW A, NEW s \in Seq(A), NEW e \in A, NEW P
  PROVE  /\ e \notin P => Occ(Append(s, e), P) = Occ(s, P)
         /\ Cardinality(Occ(Append(s, e), P)) <= Cardinality(Occ(s, P)) + 1
<1> PICK r : r = Append(s, e) OBVIOUS
<1>1. /\ Len(s) \in Nat /\ Len(r) = Len(s) + 1 /\ r[Len(s) + 1] = e
      /\ \A i \in 1 .. Len(s) : r[i] = s[i]
  OBVIOUS
<1>2. Occ(r, P) \in SUBSET (Occ(s, P) \cup {Len(s) + 1}) /\ (e \notin P => Occ(r, P) = Occ(s, P))
  <2>1. ASSUME NEW k \in 1 .. Len(r) PROVE k \in 1 .. Len(s) \/ k = Len(s) + 1
    BY <1>1
  <2>2. \A k \in 1 .. Len(s) : k \in 1 .. Len(r)
    BY <1>1
  <2> QED BY <1>1, <2>1, <2>2 DEF Occ
<1>3. IsFiniteSet(Occ(s, P)) /\ Cardinality(Occ(s, P)) \in Nat
  BY OccFinite
<1> PICK U : U = Occ(s, P) \cup {Len(s) + 1} OBVIOUS
<1>4. IsFiniteSet(U) /\ (Cardinality(U) = Cardinality(Occ(s, P)) \/ Cardinality(U) = Cardinality(Occ(s, P)) + 1)
  BY <1>3, FS_AddElement
<1>5. IsFiniteSet(Occ(r, P)) /\ Cardinality(Occ(r, P)) <= Cardinality(U)
  BY <1>2, <1>4, FS_Subset
<1>6. Cardinality(Occ(r, P)) \in Nat
  BY <1>5, FS_CardinalityType
<1> QED BY <1>2, <1>3, <1>4, <1>5, <1>6

----------------------------------------------------------------------------
\* Total, step by step.
LEMMA TotalWalk ==
  ASSUME NEW s \in Seq(Nat)
  PROVE  \E F : /\ Total(s) = F[Len(s)] /\ F[0] = 0
                /\ \A i \in 1 .. Len(s) : F[i] = F[i - 1] + s[i]
<1> DEFINE body(G, i) == IF i = 0 THEN 0 ELSE G[i - 1] + s[i]
           S == {n \in 0 .. Len(s) : \E G : G = [i \in 0 .. n |-> body(G, i)]}
           F == CHOOSE G : G = [i \in 0 .. Len(s) |-> body(G, i)]
<1>1. Len(s) \in Nat
  OBVIOUS
<1>2. 0 \in S
  <2> DEFINE G == [i \in 0 .. 0 |-> 0]
  <2>1. G = [i \in 0 .. 0 |-> body(G, i)]
    OBVIOUS
  <2>2. 0 \in 0 .. Len(s)
    BY <1>1
  <2> QED BY <2>1, <2>2
<1>3. ASSUME NEW n \in 0 .. Len(s) - 1, n \in S PROVE n + 1 \in S
  <2>1. PICK G : G = [i \in 0 .. n |-> body(G, i)]
    BY <1>3
  <2> DEFINE H == [i \in 0 .. n + 1 |-> IF i <= n THEN G[i] ELSE body(G, n + 1)]
  <2>2. ASSUME NEW i \in 0 .. n + 1 PROVE H[i] = body(H, i)
    <3>1. CASE i = 0
      <4>1. H[0] = G[0] /\ G[0] = 0
        BY <1>1, <2>1
      <4> QED BY <3>1, <4>1
    <3>2. CASE i # 0
      <4>1. i - 1 \in 0 .. n /\ H[i - 1] = G[i - 1]
        BY <1>1, <3>2
      <4>2. H[i] = body(G, i)
        <5>1. CASE i <= n
          <6>1. H[i] = G[i] /\ i \in 0 .. n
            BY <1>1, <5>1
          <6>2. G[i] = body(G, i)
            BY <2>1, <6>1
          <6> QED BY <6>1, <6>2
        <5>2. CASE ~ (i <= n)
          <6>1. i = n + 1
            BY <1>1, <5>2
          <6> QED BY <1>1, <6>1
        <5> QED BY <5>1, <5>2
      <4> QED BY <3>2, <4>1, <4>2
    <3> QED BY <3>1, <3>2
  <2>3. H = [i \in 0 .. n + 1 |-> body(H, i)]
    <3> DEFINE B == [i \in 0 .. n + 1 |-> body(H, i)]
    <3>1. \A i \in 0 .. n + 1 : H[i] = B[i]
      BY <2>2
    <3> HIDE DEF body
    <3> QED BY <3>1
  <2>4. n + 1 \in 0 .. Len(s)
    BY <1>1
  <2> HIDE DEF H
  <2> QED BY <2>3, <2>4
<1>4. Len(s) \in S
  <2> HIDE DEF S
  <2>1. \A i \in 0 .. Len(s) : i \in S
    BY <1>1, <1>2, <1>3, InductUpTo
  <2> QED BY <1>1, <2>1
<1>5. F = [i \in 0 .. Len(s) |-> body(F, i)]
  <2>1. PICK G : G = [i \in 0 .. Len(s) |-> body(G, i)]
    BY <1>4
  <2> QED BY <2>1
<1>6. Total(s) = F[Len(s)]
  BY DEF Total
<1> HIDE DEF F
<1>7. F[0] = 0 /\ \A i \in 1 .. Len(s) : F[i] = body(F, i)
  <2>1. 0 \in 0 .. Len(s) /\ \A i \in 1 .. Len(s) : i \in 0 .. Len(s)
    BY <1>1
  <2>2. F[0] = body(F, 0) /\ \A i \in 1 .. Len(s) : F[i] = body(F, i)
    <3> HIDE DEF body
    <3> QED BY <1>5, <2>1
  <2> QED BY <2>2
<1>8. \A i \in 1 .. Len(s) : F[i] = F[i - 1] + s[i]
  <2> TAKE i \in 1 .. Len(s)
  <2>1. i # 0 /\ F[i] = body(F, i)
    BY <1>1, <1>7
  <2> QED BY <2>1
<1> QED BY <1>6, <1>7, <1>8

\* Sets with no more members than the numbers say have together no more than
\* their sum.
LEMMA TotalCovers ==
  ASSUME NEW s \in Seq(Nat), NEW D,
         \A i \in 1 .. Len(s) : IsFiniteSet(D[i]) /\ Cardinality(D[i]) <= s[i]
  PROVE  LET U == UNION {D[i] : i \in 1 .. Len(s)}
         IN  IsFiniteSet(U) /\ Cardinality(U) <= Total(s) /\ Total(s) \in Nat
<1> DEFINE U(n) == UNION {D[i] : i \in 1 .. n}
<1>1. PICK F : /\ Total(s) = F[Len(s)] /\ F[0] = 0
               /\ \A i \in 1 .. Len(s) : F[i] = F[i - 1] + s[i]
  BY TotalWalk
<1> DEFINE S == {n \in 0 .. Len(s) : F[n] \in Nat /\ IsFiniteSet(U(n)) /\ Cardinality(U(n)) <= F[n]}
<1>2. Len(s) \in Nat /\ \A i \in 1 .. Len(s) : s[i] \in Nat
  OBVIOUS
<1>3. 0 \in S
  <2>1. U(0) = {}
    OBVIOUS
  <2>2. IsFiniteSet({}) /\ Cardinality({}) = 0
    BY FS_EmptySet
  <2>3. 0 \in 0 .. Len(s) /\ F[0] \in Nat /\ F[0] = 0
    BY <1>1, <1>2
  <2>4. IsFiniteSet(U(0)) /\ Cardinality(U(0)) = 0
    <3> HIDE DEF U
    <3> QED BY <2>1, <2>2
  <2> HIDE DEF U
  <2> QED BY <2>3, <2>4
<1>4. ASSUME NEW n \in 0 .. Len(s) - 1, n \in S PROVE n + 1 \in S
  <2>1. n + 1 \in 1 .. Len(s) /\ n + 1 \in 0 .. Len(s) /\ (n + 1) - 1 = n
    BY <1>2
  <2>2. F[n + 1] = F[n] + s[n + 1] /\ F[n] \in Nat /\ s[n + 1] \in Nat
    BY <1>1, <1>2, <1>4, <2>1
  <2>3. U(n + 1) = U(n) \cup D[n + 1]
    <3>1. \A i \in 1 .. n + 1 : i \in 1 .. n \/ i = n + 1
      BY <1>2
    <3>2. \A i \in 1 .. n : i \in 1 .. n + 1
      BY <1>2
    <3>3. n + 1 \in 1 .. n + 1
      BY <1>2
    <3>4. U(n + 1) \subseteq U(n) \cup D[n + 1]
      BY <3>1
    <3>5. U(n) \cup D[n + 1] \subseteq U(n + 1)
      BY <3>2, <3>3
    <3> QED BY <3>4, <3>5
  <2> PICK V : V = U(n) OBVIOUS
  <2> PICK W : W = D[n + 1] OBVIOUS
  <2>4. IsFiniteSet(V) /\ IsFiniteSet(W) /\ Cardinality(V) <= F[n] /\ Cardinality(W) <= s[n + 1]
    BY <1>4, <2>1
  <2>5. Cardinality(V) \in Nat /\ Cardinality(W) \in Nat
    BY <2>4, FS_CardinalityType
  <2>6. IsFiniteSet(V \cup W) /\ Cardinality(V \cup W) = Cardinality(V) + Cardinality(W) - Cardinality(V \cap W)
    BY <2>4, FS_Union
  <2>7. Cardinality(V \cap W) \in Nat
    <3>1. V \cap W \in SUBSET V
      OBVIOUS
    <3>2. IsFiniteSet(V \cap W)
      BY <2>4, <3>1, FS_Subset
    <3> QED BY <3>2, FS_CardinalityType
  <2>8. Cardinality(V \cup W) <= F[n + 1] /\ F[n + 1] \in Nat
    BY <2>2, <2>4, <2>5, <2>6, <2>7, SMTT(30)
  <2> HIDE DEF U
  <2> QED BY <2>1, <2>3, <2>6, <2>8
<1>5. Len(s) \in S
  <2> HIDE DEF S
  <2>1. \A i \in 0 .. Len(s) : i \in S
    BY <1>2, <1>3, <1>4, InductUpTo
  <2> QED BY <1>2, <2>1
<1> QED BY <1>1, <1>5

----------------------------------------------------------------------------
(* Lists put one after the other (FlattenSeq).                            *)

\* Concatenation, as a fact for all lists.
LEMMA Concats ==
  ASSUME NEW A
  PROVE  /\ \A x, y \in Seq(A) :
              /\ x \o y \in Seq(A) /\ Len(x \o y) = Len(x) + Len(y)
              /\ \A i \in 1 .. Len(x) : (x \o y)[i] = x[i]
              /\ \A i \in 1 .. Len(y) : (x \o y)[Len(x) + i] = y[i]
         /\ \A x, y, z \in Seq(A) : (x \o y) \o z = x \o (y \o z)
         /\ \A x \in Seq(A) : x \o << >> = x /\ << >> \o x = x
<1>1. ASSUME NEW x \in Seq(A), NEW y \in Seq(A)
      PROVE  /\ x \o y \in Seq(A) /\ Len(x \o y) = Len(x) + Len(y)
             /\ \A i \in 1 .. Len(x) : (x \o y)[i] = x[i]
             /\ \A i \in 1 .. Len(y) : (x \o y)[Len(x) + i] = y[i]
  OBVIOUS
<1>2. ASSUME NEW x \in Seq(A), NEW y \in Seq(A), NEW z \in Seq(A)
      PROVE  (x \o y) \o z = x \o (y \o z)
  BY ConcatAssociative
<1>3. ASSUME NEW x \in Seq(A) PROVE x \o << >> = x /\ << >> \o x = x
  BY ConcatEmptySeq
<1> QED BY <1>1, <1>2, <1>3

\* What is behind the first s entries.
LEMMA AfterFront ==
  ASSUME NEW A, NEW d \in Seq(A), NEW s \in 0 .. Len(d), NEW g, g = SubSeq(d, s + 1, Len(d))
  PROVE  g \in Seq(A) /\ Len(g) = Len(d) - s /\ \A i \in 1 .. Len(d) - s : g[i] = d[s + i]
OBVIOUS

\* The last entry and those before it.
LEMMA LastSplit ==
  ASSUME NEW A, NEW s \in Seq(A), s # << >>
  PROVE  \E f \in Seq(A) : /\ s = Append(f, s[Len(s)]) /\ Len(f) = Len(s) - 1 /\ s[Len(s)] \in A
                           /\ \A i \in 1 .. Len(s) - 1 : f[i] = s[i]
<1>1. PICK f \in Seq(A), e \in A : s = Append(f, e)
  BY SequenceEmptyOrAppend
<1> QED BY <1>1

\* A list that is another with one more entry.
LEMMA IsAppend ==
  ASSUME NEW A, NEW f \in Seq(A), NEW y \in A, NEW t \in Seq(A), Len(t) = Len(f) + 1,
         t[Len(f) + 1] = y, \A i \in 1 .. Len(f) : t[i] = f[i]
  PROVE  t = Append(f, y)
<1>1. PICK g : g = Append(f, y)
  OBVIOUS
<1>2. /\ g \in Seq(A) /\ Len(g) = Len(f) + 1 /\ g[Len(f) + 1] = y /\ Len(f) \in Nat
      /\ \A i \in 1 .. Len(f) : g[i] = f[i]
  BY <1>1
<1>3. ASSUME NEW i \in 1 .. Len(t) PROVE t[i] = g[i]
  <2>1. CASE i = Len(f) + 1
    BY <1>2, <2>1
  <2>2. CASE i # Len(f) + 1
    <3>1. i \in 1 .. Len(f)
      BY <1>2, <2>2
    <3> QED BY <1>2, <3>1
  <2> QED BY <2>1, <2>2
<1>4. t = g
  BY <1>2, <1>3, SeqEqual
<1> QED BY <1>1, <1>4

\* Putting more behind a list does not change what is behind its first entries.
LEMMA LaterRest ==
  ASSUME NEW A, NEW d \in Seq(A), NEW e \in Seq(A), NEW s \in 0 .. Len(d)
  PROVE  SubSeq(d \o e, s + 1, Len(d \o e)) = SubSeq(d, s + 1, Len(d)) \o e
<1>1. PICK f : f = d \o e
  OBVIOUS
<1>2. /\ f \in Seq(A) /\ Len(f) = Len(d) + Len(e) /\ Len(d) \in Nat /\ Len(e) \in Nat
      /\ \A i \in 1 .. Len(d) : f[i] = d[i]
      /\ \A i \in 1 .. Len(e) : f[Len(d) + i] = e[i]
  BY <1>1
<1>3. PICK g : g = SubSeq(d, s + 1, Len(d))
  OBVIOUS
<1>4. g \in Seq(A) /\ Len(g) = Len(d) - s /\ \A i \in 1 .. Len(d) - s : g[i] = d[s + i]
  BY <1>3, AfterFront
<1>5. PICK l : l = SubSeq(f, s + 1, Len(f))
  OBVIOUS
<1>6. s \in 0 .. Len(f)
  BY <1>2
<1>7. l \in Seq(A) /\ Len(l) = Len(f) - s /\ \A i \in 1 .. Len(f) - s : l[i] = f[s + i]
  BY <1>2, <1>5, <1>6, AfterFront
<1>8. PICK m : m = g \o e
  OBVIOUS
<1>9. /\ m \in Seq(A) /\ Len(m) = Len(g) + Len(e)
      /\ \A i \in 1 .. Len(g) : m[i] = g[i]
      /\ \A i \in 1 .. Len(e) : m[Len(g) + i] = e[i]
  <2>1. g \in Seq(A)
    BY <1>4
  <2> QED BY <1>8, <2>1
<1>10. Len(l) = Len(m)
  BY <1>2, <1>4, <1>7, <1>9
<1>11. ASSUME NEW i \in 1 .. Len(l) PROVE l[i] = m[i]
  <2>1. l[i] = f[s + i]
    BY <1>7
  <2>2. CASE i <= Len(d) - s
    <3>1. m[i] = g[i] /\ g[i] = d[s + i] /\ f[s + i] = d[s + i]
      <4>1. i \in 1 .. Len(g) /\ i \in 1 .. Len(d) - s /\ s + i \in 1 .. Len(d)
        BY <1>2, <1>4, <1>7, <2>2
      <4> QED BY <1>2, <1>4, <1>9, <4>1
    <3> QED BY <2>1, <3>1
  <2>3. CASE ~ (i <= Len(d) - s)
    <3>1. PICK k : k = (s + i) - Len(d)
      OBVIOUS
    <3>2. k \in 1 .. Len(e) /\ s + i = Len(d) + k /\ i = Len(g) + k
      BY <1>2, <1>4, <1>7, <2>3, <3>1
    <3> QED BY <1>2, <1>9, <2>1, <3>2
  <2> QED BY <2>2, <2>3
<1>12. l = m
  BY <1>7, <1>9, <1>10, <1>11, SeqEqual
<1> QED BY <1>1, <1>3, <1>5, <1>8, <1>12

\* Induction with the step to i from the one before.
LEMMA InductFromBelow ==
  ASSUME NEW n \in Nat, NEW S, 0 \in S, \A j \in 1 .. n : j - 1 \in S => j \in S
  PROVE  \A i \in 0 .. n : i \in S
<1>1. ASSUME NEW i \in 0 .. n - 1, i \in S PROVE i + 1 \in S
  <2>1. i + 1 \in 1 .. n /\ (i + 1) - 1 = i
    OBVIOUS
  <2> QED BY <1>1, <2>1
<1> QED BY <1>1, InductUpTo

\* F has the first parts of s put together.
Flats(s, F) == F[0] = << >> /\ \A i \in 1 .. Len(s) : F[i] = F[i - 1] \o s[i]

\* A list of lists, put together step by step.
LEMMA FlatWalk ==
  ASSUME NEW A, NEW s \in Seq(Seq(A))
  PROVE  \E F : FlattenSeq(s) = F[Len(s)] /\ Flats(s, F)
<1> DEFINE body(G, i) == IF i = 1 THEN s[i] ELSE G[i - 1] \o s[i]
           S == {n \in 0 .. Len(s) : \E G : G = [i \in 1 .. n |-> body(G, i)]}
           F == CHOOSE G : G = [i \in 1 .. Len(s) |-> body(G, i)]
           W == [i \in 0 .. Len(s) |-> IF i = 0 THEN << >> ELSE F[i]]
<1>1. Len(s) \in Nat
  OBVIOUS
<1>2. 0 \in S
  <2> DEFINE G == [i \in 1 .. 0 |-> 0]
  <2>1. G = [i \in 1 .. 0 |-> body(G, i)]
    OBVIOUS
  <2>2. 0 \in 0 .. Len(s)
    BY <1>1
  <2> QED BY <2>1, <2>2
<1>3. ASSUME NEW n \in 0 .. Len(s) - 1, n \in S PROVE n + 1 \in S
  <2>1. PICK G : G = [i \in 1 .. n |-> body(G, i)]
    BY <1>3
  <2> DEFINE H == [i \in 1 .. n + 1 |-> IF i <= n THEN G[i] ELSE body(G, n + 1)]
  <2>2. ASSUME NEW i \in 1 .. n + 1 PROVE H[i] = body(H, i)
    <3>1. CASE i = 1
      <4>1. CASE n = 0
        BY <1>1, <3>1, <4>1
      <4>2. CASE n # 0
        <5>1. 1 \in 1 .. n /\ H[1] = G[1]
          BY <1>1, <4>2
        <5> QED BY <2>1, <3>1, <5>1
      <4> QED BY <4>1, <4>2
    <3>2. CASE i # 1
      <4>1. i - 1 \in 1 .. n /\ H[i - 1] = G[i - 1]
        BY <1>1, <3>2
      <4>2. H[i] = body(G, i)
        <5>1. CASE i <= n
          <6>1. H[i] = G[i] /\ i \in 1 .. n
            BY <1>1, <5>1
          <6>2. G[i] = body(G, i)
            BY <2>1, <6>1
          <6> QED BY <6>1, <6>2
        <5>2. CASE ~ (i <= n)
          <6>1. i = n + 1
            BY <1>1, <5>2
          <6> QED BY <1>1, <6>1
        <5> QED BY <5>1, <5>2
      <4> QED BY <3>2, <4>1, <4>2
    <3> QED BY <3>1, <3>2
  <2>3. H = [i \in 1 .. n + 1 |-> body(H, i)]
    <3> DEFINE B == [i \in 1 .. n + 1 |-> body(H, i)]
    <3>1. \A i \in 1 .. n + 1 : H[i] = B[i]
      BY <2>2
    <3> HIDE DEF body
    <3> QED BY <3>1
  <2>4. n + 1 \in 0 .. Len(s)
    BY <1>1
  <2> HIDE DEF H
  <2> QED BY <2>3, <2>4
<1>4. Len(s) \in S
  <2> HIDE DEF S
  <2>1. \A i \in 0 .. Len(s) : i \in S
    BY <1>1, <1>2, <1>3, InductUpTo
  <2> QED BY <1>1, <2>1
<1>5. F = [i \in 1 .. Len(s) |-> body(F, i)]
  <2>1. PICK G : G = [i \in 1 .. Len(s) |-> body(G, i)]
    BY <1>4
  <2> QED BY <2>1
<1>6. Len(s) # 0 => FlattenSeq(s) = F[Len(s)]
  BY DEF FlattenSeq
<1>7. Len(s) = 0 => FlattenSeq(s) = << >>
  BY DEF FlattenSeq
<1> HIDE DEF F
<1>8. FlattenSeq(s) = W[Len(s)] /\ W[0] = << >>
  BY <1>1, <1>6, <1>7
<1>9. ASSUME NEW i \in 1 .. Len(s) PROVE W[i] = W[i - 1] \o s[i]
  <2>1. W[i] = F[i] /\ F[i] = body(F, i) /\ s[i] \in Seq(A)
    <3> HIDE DEF body
    <3>1. i \in 0 .. Len(s) /\ i # 0 /\ s[i] \in Seq(A)
      BY <1>1
    <3> QED BY <1>5, <3>1
  <2>2. CASE i = 1
    <3>1. W[i - 1] = << >> /\ F[i] = s[i]
      BY <1>1, <2>1, <2>2
    <3> QED BY <2>1, <3>1, ConcatEmptySeq
  <2>3. CASE i # 1
    <3>1. i - 1 \in 0 .. Len(s) /\ i - 1 # 0
      BY <1>1, <2>3
    <3>2. W[i - 1] = F[i - 1] /\ F[i] = F[i - 1] \o s[i]
      BY <2>1, <2>3, <3>1
    <3> QED BY <2>1, <3>2
  <2> QED BY <2>2, <2>3
<1> HIDE DEF W
<1> QED BY <1>8, <1>9 DEF Flats

\* The steps are lists.
LEMMA FlatSteps ==
  ASSUME NEW A, NEW s \in Seq(Seq(A)), NEW F, Flats(s, F)
  PROVE  \A i \in 0 .. Len(s) : F[i] \in Seq(A)
<1> DEFINE S == {i \in 0 .. Len(s) : F[i] \in Seq(A)}
<1>1. Len(s) \in Nat /\ 0 \in S
  <2>1. F[0] \in Seq(A)
    BY DEF Flats
  <2> QED BY <2>1
<1>2. ASSUME NEW j \in 1 .. Len(s), j - 1 \in S PROVE j \in S
  <2>1. j \in 0 .. Len(s)
    BY <1>1
  <2>2. F[j] = F[j - 1] \o s[j]
    BY Zenon DEF Flats
  <2>3. s[j] \in Seq(A) /\ F[j - 1] \in Seq(A)
    BY <1>2
  <2> QED BY <2>1, <2>2, <2>3, ConcatProperties, ZenonT(40)
<1> HIDE DEF S
<1>3. \A i \in 0 .. Len(s) : i \in S
  BY <1>1, <1>2, InductFromBelow
<1> QED BY <1>3 DEF S

\* What puts the parts together in this way gives the whole.
LEMMA FlatUnique ==
  ASSUME NEW A, NEW s \in Seq(Seq(A)), NEW F, Flats(s, F)
  PROVE  FlattenSeq(s) = F[Len(s)] /\ FlattenSeq(s) \in Seq(A)
<1>1. PICK G : FlattenSeq(s) = G[Len(s)] /\ Flats(s, G)
  BY FlatWalk
<1> DEFINE S == {i \in 0 .. Len(s) : F[i] = G[i]}
<1>2. Len(s) \in Nat /\ 0 \in S
  <2>1. F[0] = G[0]
    BY <1>1, Zenon DEF Flats
  <2> QED BY <2>1
<1>3. ASSUME NEW j \in 1 .. Len(s), j - 1 \in S PROVE j \in S
  <2>1. j \in 0 .. Len(s)
    BY <1>2
  <2>2. F[j] = F[j - 1] \o s[j] /\ G[j] = G[j - 1] \o s[j]
    BY <1>1, Zenon DEF Flats
  <2>3. F[j - 1] = G[j - 1]
    BY <1>3
  <2>4. F[j] = G[j]
    BY <2>2, <2>3, Zenon
  <2> QED BY <2>1, <2>4
<1> HIDE DEF S
<1>4. \A i \in 0 .. Len(s) : i \in S
  BY <1>2, <1>3, InductFromBelow
<1>5. Len(s) \in 0 .. Len(s)
  BY <1>2
<1>6. F[Len(s)] \in Seq(A)
  BY <1>5, FlatSteps
<1>7. F[Len(s)] = G[Len(s)]
  BY <1>4, <1>5 DEF S
<1> QED BY <1>1, <1>6, <1>7

\* One more part at the end.
LEMMA FlatAppend ==
  ASSUME NEW A, NEW s \in Seq(Seq(A)), NEW x \in Seq(A)
  PROVE  /\ FlattenSeq(s) \in Seq(A)
         /\ FlattenSeq(Append(s, x)) = FlattenSeq(s) \o x
<1>1. PICK F : FlattenSeq(s) = F[Len(s)] /\ Flats(s, F)
  BY FlatWalk
<1> DEFINE t == Append(s, x)
           G == [i \in 0 .. Len(s) + 1 |-> IF i <= Len(s) THEN F[i] ELSE F[Len(s)] \o x]
<1>2. /\ t \in Seq(Seq(A)) /\ Len(t) = Len(s) + 1 /\ t[Len(s) + 1] = x /\ Len(s) \in Nat
      /\ \A i \in 1 .. Len(s) : t[i] = s[i]
  OBVIOUS
<1> HIDE DEF t
<1>3. G[0] = F[0] /\ G[Len(s)] = F[Len(s)] /\ G[Len(s) + 1] = F[Len(s)] \o x
  BY <1>2
<1>4. ASSUME NEW i \in 1 .. Len(t) PROVE G[i] = G[i - 1] \o t[i]
  <2>1. CASE i <= Len(s)
    <3>1. i \in 1 .. Len(s) /\ G[i] = F[i] /\ G[i - 1] = F[i - 1] /\ t[i] = s[i]
      BY <1>2, <2>1
    <3>2. F[i] = F[i - 1] \o s[i]
      BY <1>1, <3>1, Zenon DEF Flats
    <3> QED BY <3>1, <3>2
  <2>2. CASE ~ (i <= Len(s))
    <3>1. i = Len(s) + 1 /\ i - 1 = Len(s)
      BY <1>2, <2>2
    <3> QED BY <1>2, <1>3, <3>1
  <2> QED BY <2>1, <2>2
<1> HIDE DEF G
<1>5. G[0] = << >>
  BY <1>1, <1>3, Zenon DEF Flats
<1>6. Flats(t, G)
  BY <1>4, <1>5, Zenon DEF Flats
<1>7. FlattenSeq(t) = G[Len(t)]
  BY <1>2, <1>6, FlatUnique
<1>8. FlattenSeq(s) \in Seq(A)
  BY <1>1, FlatUnique
<1> QED BY <1>1, <1>2, <1>3, <1>7, <1>8 DEF t

\* The first part comes first.
LEMMA FlatHead ==
  ASSUME NEW A, NEW s \in Seq(Seq(A)), s # << >>
  PROVE  FlattenSeq(s) = Head(s) \o FlattenSeq(Tail(s)) /\ FlattenSeq(Tail(s)) \in Seq(A)
<1> DEFINE t == Tail(s)
<1>1. /\ Len(s) \in Nat \ {0} /\ t \in Seq(Seq(A)) /\ Len(t) = Len(s) - 1 /\ Head(s) = s[1]
      /\ s[1] \in Seq(A) /\ \A i \in 1 .. Len(t) : t[i] = s[i + 1] /\ t[i] \in Seq(A)
  OBVIOUS
<1> HIDE DEF t
<1>2. PICK F : FlattenSeq(s) = F[Len(s)] /\ Flats(s, F)
  BY FlatWalk
<1>3. PICK G : FlattenSeq(t) = G[Len(t)] /\ Flats(t, G)
  BY <1>1, FlatWalk
<1>4. \A i \in 0 .. Len(t) : G[i] \in Seq(A)
  BY <1>1, <1>3, FlatSteps
<1>e. \A x \in Seq(A) : << >> \o x = x /\ x \o << >> = x
  BY ConcatEmptySeq
<1>a. \A x, y, z \in Seq(A) : (x \o y) \o z = x \o (y \o z)
  BY ConcatAssociative, SMTT(30)
<1> DEFINE S == {i \in 0 .. Len(t) : F[i + 1] = s[1] \o G[i]}
<1>5. Len(t) \in Nat /\ 0 \in S
  <2>1. 1 \in 1 .. Len(s) /\ 0 \in 0 .. Len(t) /\ 1 - 1 = 0
    BY <1>1
  <2>2. F[1] = F[1 - 1] \o s[1] /\ F[0] = << >> /\ G[0] = << >>
    BY <1>2, <1>3, <2>1, Zenon DEF Flats
  <2>3. F[1] = << >> \o s[1]
    BY <2>1, <2>2, Zenon
  <2>4. F[1] = s[1] \o G[0]
    BY <1>1, <1>e, <2>2, <2>3, Zenon
  <2>5. 0 + 1 = 1
    OBVIOUS
  <2>6. F[0 + 1] = s[1] \o G[0]
    BY <2>4, <2>5, Zenon
  <2>7. 0 \in S
    BY <2>1, <2>6, Zenon
  <2>8. Len(t) \in Nat
    BY <1>1
  <2> QED BY <2>7, <2>8, Zenon
<1>6. ASSUME NEW j \in 1 .. Len(t), j - 1 \in S PROVE j \in S
  <2>1. PICK k : k = j + 1
    OBVIOUS
  <2>2. /\ k \in 1 .. Len(s) /\ k - 1 = j /\ (j - 1) + 1 = j /\ j - 1 \in 0 .. Len(t)
        /\ j \in 0 .. Len(t)
    BY <1>1, <2>1
  <2>3. F[k] = F[k - 1] \o s[k] /\ G[j] = G[j - 1] \o t[j]
    BY <1>2, <1>3, <2>2, Zenon DEF Flats
  <2>4. F[(j - 1) + 1] = s[1] \o G[j - 1]
    BY <1>6, Zenon
  <2>5. t[j] = s[k]
    BY <1>1, <2>1
  <2>6. F[k] = (s[1] \o G[j - 1]) \o t[j]
    BY <2>2, <2>3, <2>4, <2>5, Zenon
  <2>7. G[j - 1] \in Seq(A) /\ s[1] \in Seq(A) /\ t[j] \in Seq(A)
    BY <1>1, <1>4, <2>2
  <2>8. (s[1] \o G[j - 1]) \o t[j] = s[1] \o (G[j - 1] \o t[j])
    BY <1>a, <2>7, Zenon
  <2>10. F[k] = s[1] \o G[j]
    BY <2>3, <2>6, <2>8, Zenon
  <2>11. F[j + 1] = s[1] \o G[j]
    BY <2>1, <2>10, Zenon
  <2> QED BY <2>2, <2>11, Zenon
<1> HIDE DEF S
<1>7. \A i \in 0 .. Len(t) : i \in S
  BY <1>5, <1>6, InductFromBelow
<1>8. F[Len(t) + 1] = s[1] \o G[Len(t)]
  <2>1. Len(t) \in S
    BY <1>5, <1>7
  <2> QED BY <2>1, Zenon DEF S
<1>9. FlattenSeq(t) \in Seq(A)
  BY <1>1, <1>3, FlatUnique
<1>10. Len(t) + 1 = Len(s)
  BY <1>1
<1> QED BY <1>1, <1>2, <1>3, <1>8, <1>9, <1>10 DEF t

\* Nothing is in no parts.
LEMMA FlatEmpty == FlattenSeq(<< >>) = << >>
BY DEF FlattenSeq

=============================================================================
