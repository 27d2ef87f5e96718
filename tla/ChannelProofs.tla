--------------------------- MODULE ChannelProofs ---------------------------
(***************************************************************************)
(* The channel tables stay consistent, for any users, channels and limits. *)
(*                                                                         *)
(* The two halves of the state, memberships and invitations, are each kept *)
(* in step by a few list operations.  A lemma for each operation says what *)
(* it does to its half; the step lemmas then go through the handlers.      *)
(***************************************************************************)
EXTENDS Channel, FiniteSetTheorems, SequenceTheorems, TLAPS

\* Memberships: both sides, both counters.
MSync == /\ members \in [Channels -> SUBSET Users]
         /\ users \in [Channels -> Int]
         /\ channel \in [Users -> SUBSET Channels]
         /\ joined \in [Users -> Int]
         /\ \A c \in Channels : IsFiniteSet(members[c])
         /\ \A u \in Users : IsFiniteSet(channel[u])
         /\ MembershipConsistent

\* Invitations: both sides.
ISync == /\ invites \in [Channels -> SUBSET Users]
         /\ invited \in [Users -> Seq(Channels)]
         /\ \A u \in Users : NoRepeats(invited[u])
         /\ \A u \in Users, c \in Channels : u \in invites[c] <=> Contains(invited[u], c)
         /\ InvitesBounded

----------------------------------------------------------------------------
(* Lists without repetitions.                                              *)

\* Taking the only occurrence of an element out of a list.
LEMMA RemoveFirstSpec ==
  ASSUME NEW S, NEW s \in Seq(S), NEW e, NoRepeats(s)
  PROVE  LET r == RemoveFirst(s, e)
         IN  /\ r \in Seq(S) /\ NoRepeats(r)
             /\ Len(r) <= Len(s)
             /\ \A x : Contains(r, x) <=> Contains(s, x) /\ x # e
<1> DEFINE r == RemoveFirst(s, e)
<1>1. CASE ~ \E i \in 1..Len(s) : s[i] = e
  <2>1. r = s
    BY <1>1 DEF RemoveFirst
  <2>2. QED BY <1>1, <2>1 DEF Contains
<1>2. CASE \E i \in 1..Len(s) : s[i] = e
  <2>1. PICK k \in 1..Len(s) : s[k] = e
    BY <1>2
  <2>2. {i \in 1..Len(s) : s[i] = e} = {k}
    BY <2>1 DEF NoRepeats
  <2>3. SelectInSeq(s, LAMBDA v : v = e) = k
    BY <2>2 DEF SelectInSeq, Min
  <2>4. r = SubSeq(s, 1, k - 1) \o SubSeq(s, k + 1, Len(s))
    BY <1>2, <2>3 DEF RemoveFirst, RemoveAt
  <2> HIDE DEF r
  <2> DEFINE p == SubSeq(s, 1, k - 1)
             q == SubSeq(s, k + 1, Len(s))
  <2>a. /\ p \in Seq(S) /\ Len(p) = k - 1 /\ \A i \in 1..(k - 1) : p[i] = s[i]
    BY <2>1
  <2>b. /\ q \in Seq(S) /\ Len(q) = Len(s) - k
        /\ \A i \in 1..(Len(s) - k) : q[i] = s[k + i]
    BY <2>1
  <2> HIDE DEF p, q
  <2>c. r = p \o q
    BY <2>4 DEF p, q
  <2>d. r \in Seq(S) /\ Len(r) = Len(s) - 1
    BY <2>1, <2>a, <2>b, <2>c
  <2>e. \A i \in 1..Len(r) : r[i] = IF i <= Len(p) THEN p[i] ELSE q[i - Len(p)]
    BY <2>1, <2>a, <2>b, <2>c, <2>d
  <2>5. /\ r \in Seq(S) /\ Len(r) = Len(s) - 1 /\ Len(s) \in Nat
        /\ \A i \in 1..Len(r) : r[i] = IF i < k THEN s[i] ELSE s[i + 1]
    <3>1. ASSUME NEW i \in 1..Len(r), i < k PROVE r[i] = s[i]
      BY <3>1, <2>1, <2>a, <2>d, <2>e
    <3>2. ASSUME NEW i \in 1..Len(r), ~ (i < k) PROVE r[i] = s[i + 1]
      <4>1. i - (k - 1) \in 1..(Len(s) - k) /\ k + (i - (k - 1)) = i + 1 /\ ~ (i <= Len(p))
        BY <3>2, <2>1, <2>a, <2>d
      <4>2. QED BY <4>1, <2>a, <2>b, <2>e
    <3>3. QED BY <3>1, <3>2, <2>d
  <2>6. NoRepeats(r)
    <3> SUFFICES ASSUME NEW i \in 1..Len(r), NEW j \in 1..Len(r), r[i] = r[j]
                 PROVE  i = j
      BY DEF NoRepeats
    <3> DEFINE at(n) == IF n < k THEN n ELSE n + 1
    <3>1. at(i) \in 1..Len(s) /\ at(j) \in 1..Len(s) /\ s[at(i)] = s[at(j)]
      BY <2>1, <2>5
    <3>2. at(i) = at(j)
      BY <3>1 DEF NoRepeats
    <3>3. QED BY <3>2, <2>1, <2>5
  <2>7. ASSUME NEW x, Contains(r, x) PROVE Contains(s, x) /\ x # e
    <3>1. PICK i \in 1..Len(r) : r[i] = x
      BY <2>7 DEF Contains
    <3>2. CASE i < k
      BY <2>1, <2>5, <3>1, <3>2 DEF Contains, NoRepeats
    <3>3. CASE i >= k
      BY <2>1, <2>5, <3>1, <3>3 DEF Contains, NoRepeats
    <3>4. QED BY <3>2, <3>3
  <2>8. ASSUME NEW x, Contains(s, x), x # e PROVE Contains(r, x)
    <3>1. PICK i \in 1..Len(s) : s[i] = x
      BY <2>8 DEF Contains
    <3>2. CASE i < k
      BY <2>1, <2>5, <3>1, <3>2 DEF Contains
    <3>3. CASE i > k
      <4>1. i - 1 \in 1..Len(r) /\ r[i - 1] = x
        BY <2>1, <2>5, <3>1, <3>3
      <4>2. QED BY <4>1 DEF Contains
    <3>4. QED BY <2>1, <2>8, <3>1, <3>2, <3>3
  <2>9. r \in Seq(S) /\ NoRepeats(r) /\ Len(r) <= Len(s)
    BY <2>5, <2>6
  <2>10. QED BY <2>7, <2>8, <2>9 DEF r
<1>3. QED BY <1>1, <1>2

\* Evicting the oldest entry of a list.
LEMMA TailSpec ==
  ASSUME NEW S, NEW s \in Seq(S), NoRepeats(s), s # <<>>
  PROVE  /\ Tail(s) \in Seq(S) /\ NoRepeats(Tail(s)) /\ Len(Tail(s)) = Len(s) - 1
         /\ Head(s) \in S
         /\ \A x : Contains(Tail(s), x) <=> Contains(s, x) /\ x # Head(s)
<1>1. /\ Tail(s) \in Seq(S) /\ Len(Tail(s)) = Len(s) - 1 /\ Len(s) > 0
      /\ \A i \in 1..Len(Tail(s)) : Tail(s)[i] = s[i + 1]
      /\ Head(s) = s[1] /\ Head(s) \in S
  OBVIOUS
<1>2. NoRepeats(Tail(s))
  BY <1>1 DEF NoRepeats
<1>3. ASSUME NEW x, Contains(Tail(s), x) PROVE Contains(s, x) /\ x # Head(s)
  <2>1. PICK i \in 1..Len(Tail(s)) : Tail(s)[i] = x
    BY <1>3 DEF Contains
  <2>2. i + 1 \in 1..Len(s) /\ s[i + 1] = x /\ i + 1 # 1 /\ 1 \in 1..Len(s)
    BY <1>1, <2>1
  <2>3. QED BY <1>1, <2>2 DEF Contains, NoRepeats
<1>4. ASSUME NEW x, Contains(s, x), x # Head(s) PROVE Contains(Tail(s), x)
  <2>1. PICK i \in 1..Len(s) : s[i] = x
    BY <1>4 DEF Contains
  <2>2. i - 1 \in 1..Len(Tail(s)) /\ Tail(s)[i - 1] = x
    BY <1>1, <1>4, <2>1
  <2>3. QED BY <2>2 DEF Contains
<1>5. QED BY <1>1, <1>2, <1>3, <1>4

\* Adding an entry that is not there.
LEMMA AppendSpec ==
  ASSUME NEW S, NEW s \in Seq(S), NoRepeats(s), NEW e \in S, ~ Contains(s, e)
  PROVE  /\ Append(s, e) \in Seq(S) /\ NoRepeats(Append(s, e))
         /\ Len(Append(s, e)) = Len(s) + 1
         /\ \A x : Contains(Append(s, e), x) <=> Contains(s, x) \/ x = e
<1>1. /\ Append(s, e) \in Seq(S) /\ Len(Append(s, e)) = Len(s) + 1
      /\ \A i \in 1..Len(s) : Append(s, e)[i] = s[i]
      /\ Append(s, e)[Len(s) + 1] = e
  OBVIOUS
<1>2. NoRepeats(Append(s, e))
  BY <1>1 DEF NoRepeats, Contains
<1>3. \A x : Contains(Append(s, e), x) <=> Contains(s, x) \/ x = e
  BY <1>1 DEF Contains
<1>4. QED BY <1>1, <1>2, <1>3

----------------------------------------------------------------------------
(* Invitations.                                                            *)

\* del_invite keeps the two sides of the invitations in step.
LEMMA DelInvite ==
  ASSUME ISync, NEW u \in Users, NEW c \in Channels, del_invite(u, c)
  PROVE  ISync' /\ invites' = [invites EXCEPT ![c] = @ \ {u}]
<1> DEFINE r == RemoveFirst(invited[u], c)
<1>1. /\ r \in Seq(Channels) /\ NoRepeats(r) /\ Len(r) <= Len(invited[u])
      /\ \A x : Contains(r, x) <=> Contains(invited[u], x) /\ x # c
  BY RemoveFirstSpec DEF ISync
<1> HIDE DEF r
<1>2. /\ invites' = [invites EXCEPT ![c] = @ \ {u}]
      /\ invited' = [invited EXCEPT ![u] = r]
  BY DEF del_invite, r
<1>3. /\ invites' \in [Channels -> SUBSET Users] /\ invited' \in [Users -> Seq(Channels)]
      /\ \A v \in Users : invited'[v] = IF v = u THEN r ELSE invited[v]
      /\ \A d \in Channels : invites'[d] = IF d = c THEN invites[d] \ {u} ELSE invites[d]
  BY <1>1, <1>2 DEF ISync
<1>4. \A v \in Users : NoRepeats(invited'[v])
  BY <1>1, <1>3 DEF ISync
<1>5. \A v \in Users, d \in Channels : v \in invites'[d] <=> Contains(invited'[v], d)
  BY <1>1, <1>3 DEF ISync
<1>6. InvitesBounded'
  <2>1. ASSUME NEW v \in Users PROVE Len(invited'[v]) <= maxchannelsperuser
    <3>1. Len(invited[v]) <= maxchannelsperuser /\ Len(invited[v]) \in Nat
      BY DEF ISync, InvitesBounded
    <3>2. Len(r) \in Nat /\ Len(invited[u]) <= maxchannelsperuser /\ Len(invited[u]) \in Nat
      BY <1>1 DEF ISync, InvitesBounded
    <3>3. QED BY <1>1, <1>3, <3>1, <3>2, LimitAssumption
  <2>2. QED BY <2>1 DEF InvitesBounded
<1>7. QED BY <1>2, <1>3, <1>4, <1>5, <1>6 DEF ISync

\* So does the loop that empties chptr->invites.
LEMMA DelAllInvites ==
  ASSUME ISync, NEW c \in Channels, del_all_invites(c)
  PROVE  ISync' /\ invites' = [invites EXCEPT ![c] = {}]
<1>1. ASSUME NEW u \in Users
      PROVE  LET r == RemoveFirst(invited[u], c)
             IN  /\ r \in Seq(Channels) /\ NoRepeats(r) /\ Len(r) <= Len(invited[u])
                 /\ \A x : Contains(r, x) <=> Contains(invited[u], x) /\ x # c
  BY RemoveFirstSpec DEF ISync
<1>2. /\ invites' = [invites EXCEPT ![c] = {}]
      /\ \A u \in Users : invited'[u] = IF u \in invites[c] THEN RemoveFirst(invited[u], c)
                                         ELSE invited[u]
      /\ invited' = [u \in Users |-> invited'[u]]
  BY DEF del_all_invites
<1>3. invites' \in [Channels -> SUBSET Users]
  BY <1>2 DEF ISync
<1>4. ASSUME NEW u \in Users
      PROVE  /\ invited'[u] \in Seq(Channels) /\ NoRepeats(invited'[u])
             /\ \A d \in Channels : u \in invites'[d] <=> Contains(invited'[u], d)
             /\ Len(invited'[u]) <= maxchannelsperuser
  <2>1. /\ invited[u] \in Seq(Channels) /\ NoRepeats(invited[u])
        /\ \A d \in Channels : u \in invites[d] <=> Contains(invited[u], d)
        /\ Len(invited[u]) <= maxchannelsperuser
    BY DEF ISync, InvitesBounded
  <2>2. \A d \in Channels : invites'[d] = IF d = c THEN {} ELSE invites[d]
    BY <1>2 DEF ISync
  <2>3. CASE u \in invites[c]
    <3> DEFINE r == RemoveFirst(invited[u], c)
    <3>1. /\ r \in Seq(Channels) /\ NoRepeats(r) /\ Len(r) <= Len(invited[u])
          /\ \A x : Contains(r, x) <=> Contains(invited[u], x) /\ x # c
      BY <1>1
    <3>2. invited'[u] = r
      BY <1>2, <2>3
    <3> HIDE DEF r
    <3>3. Len(r) \in Nat /\ Len(invited[u]) \in Nat
      BY <3>1, <2>1
    <3>4. QED BY <2>1, <2>2, <3>1, <3>2, <3>3, LimitAssumption
  <2>4. CASE u \notin invites[c]
    <3>1. invited'[u] = invited[u]
      BY <1>2, <2>4
    <3>2. QED BY <2>1, <2>2, <2>4, <3>1
  <2>5. QED BY <2>3, <2>4
<1>5. invited' \in [Users -> Seq(Channels)]
  BY <1>2, <1>4
<1>6. QED BY <1>2, <1>3, <1>4, <1>5 DEF ISync, InvitesBounded

\* add_invite keeps them in step and the list within its bound.
LEMMA AddInvite ==
  ASSUME ISync, NEW u \in Users, NEW c \in Channels, add_invite(u, c)
  PROVE  /\ ISync'
         /\ \A d \in Channels : invites'[d] \subseteq invites[d] \cup (IF d = c THEN {u} ELSE {})
<1> DEFINE mine == RemoveFirst(invited[u], c)
           full == Len(mine) >= maxchannelsperuser
           kept == IF full THEN Tail(mine) ELSE mine
           inv1 == IF full THEN [invites EXCEPT ![Head(mine)] = @ \ {u}] ELSE invites
           new  == Append(kept, c)
<1>1. /\ mine \in Seq(Channels) /\ NoRepeats(mine) /\ Len(mine) <= Len(invited[u])
      /\ \A x : Contains(mine, x) <=> Contains(invited[u], x) /\ x # c
  BY RemoveFirstSpec DEF ISync
<1>2. invited' = [invited EXCEPT ![u] = new] /\ invites' = [inv1 EXCEPT ![c] = @ \cup {u}]
  BY DEF add_invite
<1>3. Len(invited[u]) <= maxchannelsperuser /\ Len(invited[u]) \in Nat
  BY DEF ISync, InvitesBounded
<1> HIDE DEF mine
<1>4. /\ kept \in Seq(Channels) /\ NoRepeats(kept) /\ Len(kept) + 1 <= maxchannelsperuser
      /\ full => Head(mine) \in Channels
      /\ \A x : Contains(kept, x) <=> Contains(mine, x) /\ (full => x # Head(mine))
  <2>0. Len(mine) \in Nat
    BY <1>1
  <2>1. CASE full
    <3>1. mine # <<>>
      BY <2>0, <2>1, LimitAssumption
    <3>2. /\ Tail(mine) \in Seq(Channels) /\ NoRepeats(Tail(mine))
          /\ Len(Tail(mine)) = Len(mine) - 1 /\ Head(mine) \in Channels
          /\ \A x : Contains(Tail(mine), x) <=> Contains(mine, x) /\ x # Head(mine)
      BY <1>1, <3>1, TailSpec
    <3>3. Len(Tail(mine)) + 1 <= maxchannelsperuser
      BY <1>1, <1>3, <2>0, <3>2, LimitAssumption
    <3>4. QED BY <2>1, <3>2, <3>3
  <2>2. CASE ~ full
    BY <1>1, <2>0, <2>2, LimitAssumption
  <2>3. QED BY <2>1, <2>2
<1>5. inv1 \in [Channels -> SUBSET Users]
      /\ \A d \in Channels : inv1[d] = IF full /\ d = Head(mine) THEN invites[d] \ {u} ELSE invites[d]
  BY <1>4 DEF ISync
<1> HIDE DEF full, kept, inv1
<1>6. /\ new \in Seq(Channels) /\ NoRepeats(new) /\ Len(new) = Len(kept) + 1
      /\ \A x : Contains(new, x) <=> Contains(kept, x) \/ x = c
  BY <1>1, <1>4, AppendSpec
<1> HIDE DEF new
<1>7. /\ invites' \in [Channels -> SUBSET Users] /\ invited' \in [Users -> Seq(Channels)]
      /\ \A v \in Users : invited'[v] = IF v = u THEN new ELSE invited[v]
      /\ \A d \in Channels : invites'[d] = IF d = c THEN inv1[d] \cup {u} ELSE inv1[d]
  BY <1>2, <1>5, <1>6 DEF ISync
<1>8. \A v \in Users : NoRepeats(invited'[v])
  BY <1>6, <1>7 DEF ISync
<1>9. \A v \in Users, d \in Channels : v \in invites'[d] <=> Contains(invited'[v], d)
  <2>1. ASSUME NEW d \in Channels PROVE u \in invites'[d] <=> Contains(new, d)
    BY <1>1, <1>4, <1>5, <1>6, <1>7 DEF ISync
  <2>2. ASSUME NEW v \in Users, v # u, NEW d \in Channels
        PROVE  v \in invites'[d] <=> Contains(invited[v], d)
    <3>1. v \in invites'[d] <=> v \in inv1[d]
      BY <1>7, <2>2
    <3>2. v \in inv1[d] <=> v \in invites[d]
      BY <1>5, <2>2
    <3>3. QED BY <3>1, <3>2 DEF ISync
  <2>3. QED BY <1>7, <2>1, <2>2
<1>10. InvitesBounded'
  BY <1>4, <1>6, <1>7 DEF ISync, InvitesBounded
<1>11. ISync'
  BY <1>7, <1>8, <1>9, <1>10 DEF ISync
<1>12. \A d \in Channels : invites'[d] \subseteq invites[d] \cup (IF d = c THEN {u} ELSE {})
  BY <1>5, <1>7
<1>13. QED BY <1>11, <1>12

----------------------------------------------------------------------------
(* Memberships.                                                            *)

\* add_user_to_channel keeps the memberships in step.
LEMMA AddUser ==
  ASSUME MSync, NEW c \in Channels, NEW u \in Users, NEW fl, u \notin members[c],
         add_user_to_channel(c, u, fl)
  PROVE  MSync' /\ members' = [members EXCEPT ![c] = @ \cup {u}]
<1>1. /\ members' = [members EXCEPT ![c] = @ \cup {u}]
      /\ users' = [users EXCEPT ![c] = @ + 1]
      /\ channel' = [channel EXCEPT ![u] = @ \cup {c}]
      /\ joined' = [joined EXCEPT ![u] = @ + 1]
  BY DEF add_user_to_channel
<1>2. c \notin channel[u]
  BY DEF MSync, MembershipConsistent
<1>3. /\ IsFiniteSet(members[c] \cup {u})
      /\ Cardinality(members[c] \cup {u}) = Cardinality(members[c]) + 1
  BY FS_AddElement DEF MSync
<1>4. /\ IsFiniteSet(channel[u] \cup {c})
      /\ Cardinality(channel[u] \cup {c}) = Cardinality(channel[u]) + 1
  BY <1>2, FS_AddElement DEF MSync
<1>5. /\ members' \in [Channels -> SUBSET Users] /\ users' \in [Channels -> Int]
      /\ channel' \in [Users -> SUBSET Channels] /\ joined' \in [Users -> Int]
      /\ \A d \in Channels : members'[d] = IF d = c THEN members[d] \cup {u} ELSE members[d]
      /\ \A d \in Channels : users'[d] = IF d = c THEN users[d] + 1 ELSE users[d]
      /\ \A v \in Users : channel'[v] = IF v = u THEN channel[v] \cup {c} ELSE channel[v]
      /\ \A v \in Users : joined'[v] = IF v = u THEN joined[v] + 1 ELSE joined[v]
  <2>1. /\ members' \in [Channels -> SUBSET Users] /\ users' \in [Channels -> Int]
        /\ channel' \in [Users -> SUBSET Channels] /\ joined' \in [Users -> Int]
    BY <1>1 DEF MSync
  <2>2. \A d \in Channels : members'[d] = IF d = c THEN members[d] \cup {u} ELSE members[d]
    BY <1>1 DEF MSync
  <2>3. \A d \in Channels : users'[d] = IF d = c THEN users[d] + 1 ELSE users[d]
    BY <1>1 DEF MSync
  <2>4. \A v \in Users : channel'[v] = IF v = u THEN channel[v] \cup {c} ELSE channel[v]
    BY <1>1 DEF MSync
  <2>5. \A v \in Users : joined'[v] = IF v = u THEN joined[v] + 1 ELSE joined[v]
    BY <1>1 DEF MSync
  <2>6. QED BY <2>1, <2>2, <2>3, <2>4, <2>5
<1>6. /\ \A d \in Channels : IsFiniteSet(members'[d])
      /\ \A v \in Users : IsFiniteSet(channel'[v])
  BY <1>3, <1>4, <1>5 DEF MSync
<1>7. MembershipConsistent'
  <2>1. \A d \in Channels, v \in Users : v \in members'[d] <=> d \in channel'[v]
    BY <1>5 DEF MSync, MembershipConsistent
  <2>2. \A d \in Channels : users'[d] = Cardinality(members'[d])
    BY <1>3, <1>5, ZenonT(40) DEF MSync, MembershipConsistent
  <2>3. \A v \in Users : joined'[v] = Cardinality(channel'[v])
    BY <1>4, <1>5, ZenonT(40) DEF MSync, MembershipConsistent
  <2>4. QED BY <2>1, <2>2, <2>3 DEF MembershipConsistent
<1>8. QED BY <1>1, <1>5, <1>6, <1>7 DEF MSync

\* The last member takes the channel with it.
LEMMA RemoveUser ==
  ASSUME MSync, NEW c \in Channels, NEW u \in Users, u \in members[c],
         remove_user_from_channel(u, c)
  PROVE  /\ MSync'
         /\ members' = [members EXCEPT ![c] = @ \ {u}]
         /\ members'[c] = {} => chans' = chans \ {c} /\ del_all_invites(c)
         /\ members'[c] # {} => chans' = chans /\ UNCHANGED invVars
<1>1. /\ members' = [members EXCEPT ![c] = @ \ {u}]
      /\ channel' = [channel EXCEPT ![u] = @ \ {c}]
      /\ joined' = [joined EXCEPT ![u] = @ - 1]
      /\ sub1_from_channel(c)
  BY DEF remove_user_from_channel
<1>2. c \in channel[u]
  BY DEF MSync, MembershipConsistent
<1>3. /\ IsFiniteSet(members[c] \ {u})
      /\ Cardinality(members[c] \ {u}) = Cardinality(members[c]) - 1
      /\ Cardinality(members[c] \ {u}) \in Nat
      /\ Cardinality(members[c] \ {u}) = 0 <=> members[c] \ {u} = {}
  BY FS_RemoveElement, FS_CardinalityType, FS_EmptySet DEF MSync
<1>4. /\ IsFiniteSet(channel[u] \ {c})
      /\ Cardinality(channel[u] \ {c}) = Cardinality(channel[u]) - 1
  BY <1>2, FS_RemoveElement DEF MSync
<1>5. /\ members' \in [Channels -> SUBSET Users]
      /\ channel' \in [Users -> SUBSET Channels] /\ joined' \in [Users -> Int]
      /\ \A d \in Channels : members'[d] = IF d = c THEN members[d] \ {u} ELSE members[d]
      /\ \A v \in Users : channel'[v] = IF v = u THEN channel[v] \ {c} ELSE channel[v]
      /\ \A v \in Users : joined'[v] = IF v = u THEN joined[v] - 1 ELSE joined[v]
  <2>1. /\ members' \in [Channels -> SUBSET Users]
        /\ channel' \in [Users -> SUBSET Channels] /\ joined' \in [Users -> Int]
    BY <1>1 DEF MSync
  <2>2. \A d \in Channels : members'[d] = IF d = c THEN members[d] \ {u} ELSE members[d]
    BY <1>1 DEF MSync
  <2>3. \A v \in Users : channel'[v] = IF v = u THEN channel[v] \ {c} ELSE channel[v]
    BY <1>1 DEF MSync
  <2>4. \A v \in Users : joined'[v] = IF v = u THEN joined[v] - 1 ELSE joined[v]
    BY <1>1 DEF MSync
  <2>5. QED BY <2>1, <2>2, <2>3, <2>4
<1>6. /\ users[c] - 1 = Cardinality(members'[c]) /\ users[c] \in Int
      /\ Cardinality(members'[c]) \in Nat
      /\ Cardinality(members'[c]) = 0 <=> members'[c] = {}
  <2>1. members'[c] = members[c] \ {u}
    BY <1>5
  <2>2. users[c] = Cardinality(members[c]) /\ users[c] \in Int
    BY DEF MSync, MembershipConsistent
  <2>3. QED BY <1>3, <2>1, <2>2
<1>7. /\ users' \in [Channels -> Int]
      /\ \A d \in Channels : users'[d] = IF d = c THEN users[d] - 1 ELSE users[d]
      /\ members'[c] = {} => chans' = chans \ {c} /\ del_all_invites(c)
      /\ members'[c] # {} => chans' = chans /\ UNCHANGED invVars
  <2>1. CASE users[c] - 1 <= 0
    <3>1. /\ users' = [users EXCEPT ![c] = 0] /\ chans' = chans \ {c} /\ del_all_invites(c)
      BY <1>1, <2>1 DEF sub1_from_channel
    <3>2. users[c] - 1 = 0 /\ members'[c] = {}
      BY <1>6, <2>1
    <3>3. QED BY <3>1, <3>2 DEF MSync
  <2>2. CASE ~ (users[c] - 1 <= 0)
    <3>1. users' = [users EXCEPT ![c] = @ - 1] /\ chans' = chans /\ UNCHANGED invVars
      BY <1>1, <2>2 DEF sub1_from_channel
    <3>2. members'[c] # {}
      BY <1>6, <2>2
    <3>3. QED BY <3>1, <3>2 DEF MSync
  <2>3. QED BY <2>1, <2>2
<1>8. /\ \A d \in Channels : IsFiniteSet(members'[d])
      /\ \A v \in Users : IsFiniteSet(channel'[v])
  BY <1>3, <1>4, <1>5 DEF MSync
<1>9. MembershipConsistent'
  <2>1. \A d \in Channels, v \in Users : v \in members'[d] <=> d \in channel'[v]
    BY <1>5 DEF MSync, MembershipConsistent
  <2>2. \A d \in Channels : users'[d] = Cardinality(members'[d])
    BY <1>5, <1>6, <1>7 DEF MSync, MembershipConsistent
  <2>3. \A v \in Users : joined'[v] = Cardinality(channel'[v])
    BY <1>4, <1>5 DEF MSync, MembershipConsistent
  <2>4. QED BY <2>1, <2>2, <2>3 DEF MembershipConsistent
<1>10. QED BY <1>1, <1>5, <1>7, <1>8, <1>9 DEF MSync

\* Handlers that touch no list.
LEMMA SameMembers ==
  ASSUME MSync, UNCHANGED <<members, users, channel, joined>>
  PROVE  MSync'
BY DEF MSync, MembershipConsistent

\* Handlers that touch no invitation.
LEMMA SameInvites ==
  ASSUME ISync, UNCHANGED invVars
  PROVE  ISync'
BY DEF ISync, InvitesBounded, invVars

----------------------------------------------------------------------------
(* The inductive invariant.                                                *)

\* The running handler's channel and client.
CmdOK == /\ cmd \in Cmds
         /\ cmd.kind \in {"MODE", "KICK", "SJOIN"} => cmd.chan \in Channels
         /\ cmd.kind = "SJOIN" => cmd.chan \in chans
         /\ cmd.kind \in {"JOIN0", "EXIT"} => cmd.by \in Users

\* The types MSync and ISync do not give.
Rest == /\ chans \subseteq Channels
        /\ flags \in [Channels -> [Users -> SUBSET Status]]
        /\ mode \in [Channels -> SUBSET Flags]
        /\ limit \in [Channels -> 0..MaxLimit]
        /\ ts \in [Channels -> 0..MaxTS]
        /\ online \subseteq Users
        /\ server_was_split \in BOOLEAN

\* How the tables relate: only clients of this server that are online are
\* invited, only to channels that exist, and only online clients are members.
Tables == /\ \A c \in Channels : invites[c] # {} => c \in chans
          /\ \A c \in Channels : invites[c] \subseteq online \cap LocalUsers
          /\ \A c \in Channels : members[c] \subseteq online
          /\ InvitationConsumed

IInv == MSync /\ ISync /\ Rest /\ CmdOK /\ ChannelIffMembers /\ Tables

\* No handler is running.
LEMMA IdleCmd == /\ Idle \in Cmds /\ Idle.kind = "none"
                 /\ NoChan \notin Channels
BY UserAssumption DEF Idle, Cmds, Ranks

\* The empty tables satisfy the invariant.
LEMMA InitIInv == Init => IInv
<1> SUFFICES ASSUME Init PROVE IInv
  OBVIOUS
<1>1. IsFiniteSet({}) /\ Cardinality({}) = 0
  BY FS_EmptySet
<1>2. MSync
  BY <1>1 DEF Init, MSync, MembershipConsistent
<1>3. ISync
  <2>1. \A u \in Users : invited[u] = <<>> /\ invited[u] \in Seq(Channels) /\ Len(invited[u]) = 0
    BY DEF Init
  <2>2. invites \in [Channels -> SUBSET Users] /\ invited \in [Users -> Seq(Channels)]
    BY DEF Init
  <2>3. \A u \in Users : NoRepeats(invited[u]) /\ \A c : ~ Contains(invited[u], c)
    BY <2>1 DEF NoRepeats, Contains
  <2>4. \A c \in Channels : invites[c] = {}
    BY DEF Init
  <2>5. InvitesBounded
    BY <2>1, LimitAssumption DEF InvitesBounded
  <2>6. QED BY <2>2, <2>3, <2>4, <2>5 DEF ISync
<1>4. Rest
  BY LimitAssumption DEF Init, Rest, NoFlags, Status, Flags
<1>5. CmdOK
  BY IdleCmd DEF Init, CmdOK
<1>6. ChannelIffMembers /\ Tables
  BY DEF Init, ChannelIffMembers, Tables, InvitationConsumed
<1>7. QED BY <1>2, <1>3, <1>4, <1>5, <1>6 DEF IInv

----------------------------------------------------------------------------
(* Steps, by what they do to the lists.                                    *)

\* A handler other than SJOIN runs, or none: no channel is empty.
LEMMA NoEmptyChannel ==
  ASSUME IInv, cmd.kind # "SJOIN", NEW c \in Channels
  PROVE  c \in chans <=> members[c] # {}
BY DEF IInv, ChannelIffMembers

\* No list is touched.
LEMMA QuietStep ==
  ASSUME IInv, UNCHANGED <<chans, members, users, channel, joined, invVars, online>>,
         cmd.kind # "SJOIN"
  PROVE  MSync' /\ ISync' /\ ChannelIffMembers' /\ Tables'
<1>1. MSync' /\ ISync'
  BY SameMembers, SameInvites DEF IInv
<1>2. ChannelIffMembers'
  BY NoEmptyChannel DEF ChannelIffMembers
<1>3. Tables'
  BY DEF IInv, Tables, InvitationConsumed, invVars
<1>4. QED BY <1>1, <1>2, <1>3

\* Someone enters: `c' exists afterwards, and the newcomer's invitation is
\* gone unless he is an administrator or not of this server.
LEMMA EnterStep ==
  ASSUME IInv, NEW c \in Channels, NEW u \in online, NEW fl, u \notin members[c],
         add_user_to_channel(c, u, fl),
         chans' = chans \cup {c}, online' = online, cmd.kind = "none" \/ cmd.chan = c,
         cmd' = cmd,
         \/ del_invite(u, c)
         \/ UNCHANGED invVars /\ u \in SAdmins \cup RemoteUsers
  PROVE  MSync' /\ ISync' /\ ChannelIffMembers' /\ Tables'
<1>0. u \in Users
  BY DEF IInv, Rest
<1>1. MSync' /\ members' = [members EXCEPT ![c] = @ \cup {u}]
  BY <1>0, AddUser DEF IInv
<1>2. ISync' /\ \A d \in Channels : invites'[d] \subseteq invites[d]
  <2>1. CASE del_invite(u, c)
    BY <1>0, <2>1, DelInvite DEF IInv, ISync
  <2>2. CASE UNCHANGED invVars
    BY <2>2, SameInvites DEF IInv, invVars
  <2>3. QED BY <2>1, <2>2
<1>3. \A d \in Channels : members'[d] = IF d = c THEN members[d] \cup {u} ELSE members[d]
  BY <1>1 DEF IInv, MSync
<1>4. ChannelIffMembers'
  <2> SUFFICES ASSUME NEW d \in Channels
               PROVE  \/ d \in chans' <=> members'[d] # {}
                      \/ cmd'.kind = "SJOIN" /\ cmd'.chan = d /\ d \in chans'
    BY DEF ChannelIffMembers
  <2>1. CASE d = c
    BY <1>3, <2>1
  <2>2. CASE d # c
    <3>1. d \in chans' <=> d \in chans
      BY <2>2
    <3>2. members'[d] = members[d]
      BY <1>3, <2>2
    <3>3. QED BY <2>2, <3>1, <3>2 DEF IInv, ChannelIffMembers
  <2>3. QED BY <2>1, <2>2
<1>5. u \notin LocalUsers \/ u \in SAdmins \/ u \notin invites'[c]
  <2>1. CASE del_invite(u, c)
    BY <1>0, <2>1, DelInvite DEF IInv, ISync
  <2>2. CASE u \in SAdmins \cup RemoteUsers
    BY <2>2, UserAssumption
  <2>3. QED BY <2>1, <2>2
<1>6. \A d \in Channels : invites'[d] \subseteq online \cap LocalUsers
  BY <1>2 DEF IInv, Tables
<1>7. InvitationConsumed'
  <2> SUFFICES ASSUME NEW d \in Channels, NEW v \in members'[d] \cap invites'[d]
               PROVE  v \in SAdmins
    BY DEF InvitationConsumed
  <2>1. CASE d = c /\ v = u
    BY <1>5, <1>6, <2>1
  <2>2. CASE ~ (d = c /\ v = u)
    <3>1. v \in members[d]
      BY <1>3, <2>2
    <3>2. v \in invites[d]
      BY <1>2
    <3>3. QED BY <3>1, <3>2 DEF IInv, Tables, InvitationConsumed
  <2>3. QED BY <2>1, <2>2
<1>8. /\ \A d \in Channels : invites'[d] # {} => d \in chans'
      /\ \A d \in Channels : members'[d] \subseteq online
  BY <1>2, <1>3, ZenonT(40) DEF IInv, Tables
<1>9. Tables'
  BY <1>6, <1>7, <1>8 DEF Tables
<1>10. QED BY <1>1, <1>2, <1>4, <1>9

\* Someone leaves.
LEMMA LeaveStep ==
  ASSUME IInv, NEW c \in Channels, NEW u \in Users, u \in members[c],
         remove_user_from_channel(u, c), online' = online, cmd.kind # "SJOIN"
  PROVE  MSync' /\ ISync' /\ ChannelIffMembers' /\ Tables' /\ chans' \subseteq chans
<1>1. /\ MSync' /\ members' = [members EXCEPT ![c] = @ \ {u}]
      /\ members'[c] = {} => chans' = chans \ {c} /\ del_all_invites(c)
      /\ members'[c] # {} => chans' = chans /\ UNCHANGED invVars
  BY RemoveUser DEF IInv
<1>2. \A d \in Channels : members'[d] = IF d = c THEN members[d] \ {u} ELSE members[d]
  BY <1>1 DEF IInv, MSync
<1>3. /\ ISync'
      /\ \A d \in Channels : invites'[d] = IF d = c /\ members'[c] = {} THEN {} ELSE invites[d]
  <2>1. CASE members'[c] = {}
    <3>1. ISync' /\ invites' = [invites EXCEPT ![c] = {}]
      BY <1>1, <2>1, DelAllInvites DEF IInv
    <3>2. QED BY <2>1, <3>1 DEF IInv, ISync
  <2>2. CASE members'[c] # {}
    BY <1>1, <2>2, SameInvites DEF IInv, invVars
  <2>3. QED BY <2>1, <2>2
<1>4. ChannelIffMembers'
  <2> SUFFICES ASSUME NEW d \in Channels PROVE d \in chans' <=> members'[d] # {}
    BY DEF ChannelIffMembers
  <2>1. d \in chans <=> members[d] # {}
    BY NoEmptyChannel
  <2>2. CASE d = c
    BY <1>1, <2>1, <2>2
  <2>3. CASE d # c
    BY <1>1, <1>2, <2>1, <2>3
  <2>4. QED BY <2>2, <2>3
<1>5. Tables'
  <2>1. \A d \in Channels : invites'[d] # {} => d \in chans'
    BY <1>1, <1>3 DEF IInv, Tables
  <2>2. \A d \in Channels : invites'[d] \subseteq online \cap LocalUsers
    BY <1>3 DEF IInv, Tables
  <2>3. \A d \in Channels : members'[d] \subseteq online
    BY <1>2 DEF IInv, Tables
  <2>4. InvitationConsumed'
    BY <1>2, <1>3 DEF IInv, Tables, InvitationConsumed
  <2>5. QED BY <2>1, <2>2, <2>3, <2>4 DEF Tables
<1>6. QED BY <1>1, <1>3, <1>4, <1>5

----------------------------------------------------------------------------
(* The handlers.                                                           *)

\* JOIN of a channel that does not exist.
LEMMA JoinCreate ==
  ASSUME IInv, NEW u \in Users, NEW c \in Channels, NEW t \in 1..MaxTS,
         m_join_create(u, c, t)
  PROVE  IInv'
<1>1. cmd.kind = "none" /\ u \in online /\ u \in Users
  BY IdleCmd DEF m_join_create, IInv, Rest
<1>2. u \notin members[c]
  BY <1>1, NoEmptyChannel DEF m_join_create
<1>3. chans' = chans \cup {c} /\ online' = online /\ cmd' = cmd
  BY DEF m_join_create, get_channel
<1>4. MSync' /\ ISync' /\ ChannelIffMembers' /\ Tables'
  BY <1>1, <1>2, <1>3, EnterStep DEF m_join_create
<1>5. Rest'
  BY <1>1, LimitAssumption DEF m_join_create, IInv, Rest, add_user_to_channel, Status, get_channel
<1>6. CmdOK'
  BY <1>3 DEF IInv, CmdOK
<1>7. QED BY <1>4, <1>5, <1>6 DEF IInv

\* JOIN of a channel that does.
LEMMA JoinExisting ==
  ASSUME IInv, NEW u \in Users, NEW c \in Channels, NEW gate,
         m_join_existing(u, c, gate)
  PROVE  IInv'
<1>1. cmd.kind = "none" /\ u \in online /\ u \in Users
  BY IdleCmd DEF m_join_existing, IInv, Rest
<1>2. u \notin members[c]
  BY <1>1 DEF m_join_existing, IsMember, IInv, MSync, MembershipConsistent
<1>3. chans' = chans \cup {c} /\ online' = online /\ cmd' = cmd
  BY DEF m_join_existing
<1>4. MSync' /\ ISync' /\ ChannelIffMembers' /\ Tables'
  BY <1>1, <1>2, <1>3, EnterStep DEF m_join_existing
<1>5. Rest'
  BY <1>1, LimitAssumption DEF m_join_existing, IInv, Rest, add_user_to_channel, Status
<1>6. CmdOK'
  BY <1>3 DEF IInv, CmdOK
<1>7. QED BY <1>4, <1>5, <1>6 DEF IInv

\* JOIN from the uplink.
LEMMA JoinRemote ==
  ASSUME IInv, NEW u \in Users, NEW c \in Channels, NEW t \in 1..MaxTS,
         m_join_remote(u, c, t)
  PROVE  IInv'
<1>1. cmd.kind = "none" /\ u \in online /\ u \in Users
  BY IdleCmd DEF m_join_remote, IInv, Rest
<1>2. u \notin members[c]
  BY <1>1 DEF m_join_remote, IsMember, IInv, MSync, MembershipConsistent
<1>3. chans' = chans \cup {c} /\ online' = online /\ cmd' = cmd
  BY DEF m_join_remote, get_channel
<1>4. MSync' /\ ISync' /\ ChannelIffMembers' /\ Tables'
  BY <1>1, <1>2, <1>3, EnterStep DEF m_join_remote
<1>5. Rest'
  BY <1>1, LimitAssumption DEF m_join_remote, IInv, Rest, add_user_to_channel, Status, get_channel
<1>6. CmdOK'
  BY <1>3 DEF IInv, CmdOK
<1>7. QED BY <1>4, <1>5, <1>6 DEF IInv

\* SAJOIN.
LEMMA SaJoin ==
  ASSUME IInv, NEW u \in Users, NEW c \in Channels,
         m_sajoin(u, c)
  PROVE  IInv'
<1>1. cmd.kind = "none" /\ u \in online /\ u \in Users
  BY IdleCmd DEF m_sajoin, IInv, Rest
<1>2. u \notin members[c]
  BY <1>1 DEF m_sajoin, IsMember, IInv, MSync, MembershipConsistent
<1>3. chans' = chans \cup {c} /\ online' = online /\ cmd' = cmd
  BY DEF m_sajoin
<1>4. MSync' /\ ISync' /\ ChannelIffMembers' /\ Tables'
  BY <1>1, <1>2, <1>3, EnterStep DEF m_sajoin
<1>5. Rest'
  BY <1>1, LimitAssumption DEF m_sajoin, IInv, Rest, add_user_to_channel, Status
<1>6. CmdOK'
  BY <1>3 DEF IInv, CmdOK
<1>7. QED BY <1>4, <1>5, <1>6 DEF IInv

\* The timestamp a SJOIN leaves is in range.
LEMMA SjoinTS ==
  ASSUME Rest, NEW c \in Channels, NEW newts \in 0..MaxTS
  PROVE  sjoin_ts(c, newts) \in 0..MaxTS
BY LimitAssumption DEF sjoin_ts, Rest

\* SJOIN in its client form.
LEMMA SjoinClient ==
  ASSUME IInv, NEW u \in Users, NEW c \in Channels, NEW newts \in 0..MaxTS,
         m_sjoin_client(u, c, newts)
  PROVE  IInv'
<1>1. /\ cmd.kind = "none" /\ u \in online /\ u \in RemoteUsers
      /\ chans' = chans \cup {c} /\ online' = online /\ cmd' = cmd /\ UNCHANGED invVars
  BY IdleCmd DEF m_sjoin_client, get_channel
<1>2. sjoin_ts(c, newts) \in 0..MaxTS
  BY SjoinTS DEF IInv
<1>3. Rest'
  <2>1. /\ chans' \subseteq Channels /\ ts' \in [Channels -> 0..MaxTS]
        /\ mode' = mode /\ limit' = limit /\ online' = online /\ server_was_split' = server_was_split
    BY <1>1, <1>2 DEF m_sjoin_client, IInv, Rest, get_channel
  <2>2. flags' = flags \/ flags' = [flags EXCEPT ![c][u] = {}]
    BY DEF m_sjoin_client, add_user_to_channel
  <2>3. flags' \in [Channels -> [Users -> SUBSET Status]]
    <3>1. CASE flags' = flags
      BY <3>1 DEF IInv, Rest
    <3>2. CASE flags' = [flags EXCEPT ![c][u] = {}]
      BY <3>2 DEF IInv, Rest
    <3>3. QED BY <2>2, <3>1, <3>2
  <2>4. QED BY <2>1, <2>3 DEF IInv, Rest
<1>4. CmdOK'
  BY <1>1 DEF IInv, CmdOK
<1>5. CASE IsMember(u, c)
  <2>1. u \in members[c] /\ c \in chans
    BY <1>1, <1>5, NoEmptyChannel DEF IsMember, IInv, MSync, MembershipConsistent
  <2>2. UNCHANGED <<chans, members, users, channel, joined, invVars, online>>
    BY <1>1, <1>5, <2>1 DEF m_sjoin_client, userVars
  <2>3. MSync' /\ ISync' /\ ChannelIffMembers' /\ Tables'
    BY <1>1, <2>2, QuietStep
  <2>4. QED BY <1>3, <1>4, <2>3 DEF IInv
<1>6. CASE ~ IsMember(u, c)
  <2>1. u \notin members[c]
    BY <1>6 DEF IsMember, IInv, MSync, MembershipConsistent
  <2>2. add_user_to_channel(c, u, {})
    BY <1>6 DEF m_sjoin_client
  <2>3. MSync' /\ ISync' /\ ChannelIffMembers' /\ Tables'
    BY <1>1, <2>1, <2>2, EnterStep
  <2>4. QED BY <1>3, <1>4, <2>3 DEF IInv
<1>7. QED BY <1>5, <1>6

\* Removing a member leaves the other tables typed.
LEMMA LeaveRest ==
  ASSUME Rest, NEW c \in Channels, NEW u \in Users, remove_user_from_channel(u, c),
         UNCHANGED <<online, server_was_split>>
  PROVE  Rest'
<1>1. flags' = [flags EXCEPT ![c][u] = {}] /\ sub1_from_channel(c)
  BY DEF remove_user_from_channel
<1>2. flags' \in [Channels -> [Users -> SUBSET Status]]
  BY <1>1 DEF Rest
<1>3. /\ chans' \subseteq Channels /\ mode' \in [Channels -> SUBSET Flags]
      /\ limit' \in [Channels -> 0..MaxLimit] /\ ts' \in [Channels -> 0..MaxTS]
  <2>1. CASE users[c] - 1 <= 0
    BY <1>1, <2>1, LimitAssumption, SMTT(30) DEF Rest, sub1_from_channel
  <2>2. CASE ~ (users[c] - 1 <= 0)
    BY <1>1, <2>2 DEF Rest, sub1_from_channel
  <2>3. QED BY <2>1, <2>2
<1>4. QED BY <1>2, <1>3 DEF Rest

\* PART.
LEMMA Part ==
  ASSUME IInv, NEW u \in Users, NEW c \in Channels, m_part(u, c)
  PROVE  IInv'
<1>1. /\ cmd.kind = "none" /\ remove_user_from_channel(u, c)
      /\ online' = online /\ server_was_split' = server_was_split /\ cmd' = cmd
  BY IdleCmd DEF m_part
<1>2. u \in members[c]
  BY DEF m_part, IsMember, IInv, MSync, MembershipConsistent
<1>3. MSync' /\ ISync' /\ ChannelIffMembers' /\ Tables' /\ chans' \subseteq chans
  BY <1>1, <1>2, LeaveStep
<1>4. Rest'
  BY <1>1, LeaveRest DEF IInv
<1>5. CmdOK'
  BY <1>1 DEF IInv, CmdOK
<1>6. QED BY <1>3, <1>4, <1>5 DEF IInv

\* One target of KICK.
LEMMA KickTarget ==
  ASSUME IInv, NEW who \in Users, kick_target(who)
  PROVE  IInv'
<1> DEFINE c == cmd.chan
<1>1. /\ cmd.kind = "KICK" /\ remove_user_from_channel(who, c) /\ cmd.left > 0
      /\ online' = online /\ server_was_split' = server_was_split
      /\ cmd' = [cmd EXCEPT !.left = @ - 1]
  BY DEF kick_target
<1>2. c \in Channels
  BY <1>1 DEF IInv, CmdOK
<1>3. who \in members[c]
  BY <1>2 DEF kick_target, IsMember, IInv, MSync, MembershipConsistent
<1>4. MSync' /\ ISync' /\ ChannelIffMembers' /\ Tables' /\ chans' \subseteq chans
  BY <1>1, <1>2, <1>3, LeaveStep
<1>5. Rest'
  BY <1>1, <1>2, LeaveRest DEF IInv
<1>6. CmdOK'
  BY <1>1, <1>2 DEF IInv, CmdOK, Cmds
<1>7. QED BY <1>4, <1>5, <1>6 DEF IInv

\* One channel of JOIN 0 or of a client that exits.
LEMMA LeaveNext ==
  ASSUME IInv, NEW c \in Channels, leave_next(c)
  PROVE  IInv'
<1>1. /\ cmd.kind \in {"JOIN0", "EXIT"} /\ remove_user_from_channel(cmd.by, c)
      /\ online' = online /\ server_was_split' = server_was_split /\ cmd' = cmd
      /\ c \in channel[cmd.by]
  BY DEF leave_next
<1>2. cmd.by \in Users
  BY <1>1 DEF IInv, CmdOK
<1>3. cmd.by \in members[c]
  BY <1>1, <1>2 DEF IInv, MSync, MembershipConsistent
<1>4. MSync' /\ ISync' /\ ChannelIffMembers' /\ Tables' /\ chans' \subseteq chans
  BY <1>1, <1>2, <1>3, LeaveStep
<1>5. Rest'
  BY <1>1, <1>2, LeaveRest DEF IInv
<1>6. CmdOK'
  BY <1>1 DEF IInv, CmdOK
<1>7. QED BY <1>4, <1>5, <1>6 DEF IInv

\* The values a command starts with.
LEMMA Levels ==
  ASSUME NEW u, NEW c
  PROVE  mode_level(u, c) \in 0..4 /\ RankOf(u, c) \in Ranks
BY DEF mode_level, RankOf, Ranks

\* The record of a handler that starts is well formed.
LEMMA NewCommand ==
  ASSUME NEW k \in {"MODE", "KICK", "SJOIN"}, NEW u \in Users \cup {Srv}, NEW c \in Channels,
         NEW l \in 0..4, NEW n \in Nat, NEW r \in Ranks
  PROVE  [Idle EXCEPT !.kind = k, !.by = u, !.chan = c, !.level = l, !.left = n, !.rank = r]
           \in Cmds
BY DEF Cmds, Idle

\* MODE starts.
LEMMA Mode ==
  ASSUME IInv, NEW u \in Users \cup {Srv}, NEW c \in Channels, NEW modets, m_mode(u, c, modets)
  PROVE  IInv'
<1>1. cmd.kind # "SJOIN"
  BY IdleCmd DEF m_mode
<1>2. MSync' /\ ISync' /\ ChannelIffMembers' /\ Tables'
  <2>1. UNCHANGED <<chans, members, users, channel, joined, invVars, online>>
    BY DEF m_mode, chanVars, userVars
  <2>2. QED BY <1>1, <2>1, QuietStep
<1>3. Rest'
  BY LimitAssumption, UserAssumption DEF m_mode, IInv, Rest, CmdOK, chanVars
<1>4. CmdOK'
  <2>1. mode_level(u, c) \in 0..4 /\ RankOf(u, c) \in Ranks
    BY Levels, SMTT(30)
  <2>2. cmd' \in Cmds
    BY <2>1, LimitAssumption, NewCommand, ZenonT(40) DEF m_mode, Cmds, Idle
  <2>3. cmd'.kind = "MODE" /\ cmd'.chan = c
    BY DEF m_mode, Idle
  <2>4. QED BY <2>2, <2>3 DEF CmdOK
<1>5. QED BY <1>2, <1>3, <1>4 DEF IInv

\* SAMODE starts.
LEMMA SaMode ==
  ASSUME IInv, NEW u \in Users, NEW c \in Channels, m_samode(u, c)
  PROVE  IInv'
<1>1. cmd.kind # "SJOIN"
  BY IdleCmd DEF m_samode
<1>2. MSync' /\ ISync' /\ ChannelIffMembers' /\ Tables'
  <2>1. UNCHANGED <<chans, members, users, channel, joined, invVars, online>>
    BY DEF m_samode, chanVars, userVars
  <2>2. QED BY <1>1, <2>1, QuietStep
<1>3. Rest'
  BY LimitAssumption, UserAssumption DEF m_samode, IInv, Rest, CmdOK, chanVars
<1>4. CmdOK'
  <2>1. RankOf(u, c) \in Ranks
    BY Levels
  <2>2. cmd' = [Idle EXCEPT !.kind = "MODE", !.by = u, !.chan = c, !.level = 2,
                            !.left = MAXMODEPARAMSUSER, !.rank = RankOf(u, c)]
    BY DEF m_samode
  <2>3. cmd' \in Cmds
    <3>1. "MODE" \in {"MODE", "KICK", "SJOIN"} /\ u \in Users \cup {Srv} /\ 2 \in 0..4
          /\ MAXMODEPARAMSUSER \in Nat
      BY LimitAssumption
    <3>2. QED BY <2>1, <2>2, <3>1, NewCommand
  <2>4. cmd'.kind = "MODE" /\ cmd'.chan = c
    BY DEF m_samode, Idle
  <2>5. QED BY <2>3, <2>4 DEF CmdOK
<1>5. QED BY <1>2, <1>3, <1>4 DEF IInv

\* One of the letters o, h and v.
LEMMA SetModeStatus ==
  ASSUME IInv, NEW x \in Status, NEW plus \in BOOLEAN, NEW who \in Users, set_mode_status(x, plus, who)
  PROVE  IInv'
<1>1. cmd.kind # "SJOIN"
  BY DEF set_mode_status
<1>2. MSync' /\ ISync' /\ ChannelIffMembers' /\ Tables'
  <2>1. UNCHANGED <<chans, members, users, channel, joined, invVars, online>>
    BY DEF set_mode_status, chanVars, userVars
  <2>2. QED BY <1>1, <2>1, QuietStep
<1>3. Rest'
  BY LimitAssumption, UserAssumption DEF set_mode_status, IInv, Rest, CmdOK, chanVars, Status, Signed, Cmds
<1>4. CmdOK'
  BY UserAssumption, LimitAssumption, IdleCmd, SMTT(30) DEF set_mode_status, IInv, CmdOK, Cmds, Idle, Ranks, Rest, chanVars
<1>5. QED BY <1>2, <1>3, <1>4 DEF IInv

\* The letter l.
LEMMA SetModeL ==
  ASSUME IInv, NEW plus \in BOOLEAN, NEW n \in 1..MaxLimit, set_mode_l(plus, n)
  PROVE  IInv'
<1>1. cmd.kind # "SJOIN"
  BY DEF set_mode_l
<1>2. MSync' /\ ISync' /\ ChannelIffMembers' /\ Tables'
  <2>1. UNCHANGED <<chans, members, users, channel, joined, invVars, online>>
    BY DEF set_mode_l, chanVars, userVars
  <2>2. QED BY <1>1, <2>1, QuietStep
<1>3. Rest'
  BY LimitAssumption, UserAssumption DEF set_mode_l, IInv, Rest, CmdOK, chanVars, Cmds
<1>4. CmdOK'
  <2>1. /\ cmd' = [cmd EXCEPT !.left = IF plus THEN @ - 1 ELSE @, !.seen = @ \cup {"l"}]
        /\ cmd.kind = "MODE" /\ "l" \in ModeLetters
        /\ plus => cmd.left > 0
    BY DEF set_mode_l
  <2>2. cmd \in Cmds /\ cmd.chan \in Channels
    BY <2>1 DEF IInv, CmdOK
  <2>3. (IF plus THEN cmd.left - 1 ELSE cmd.left) \in Nat
    BY <2>1, <2>2 DEF Cmds
  <2>4. QED BY <2>1, <2>2, <2>3 DEF CmdOK, Cmds
<1>5. QED BY <1>2, <1>3, <1>4 DEF IInv

\* KICK starts.
LEMMA Kick ==
  ASSUME IInv, NEW u \in Users \cup {Srv}, NEW c \in Channels, m_kick(u, c)
  PROVE  IInv'
<1>1. cmd.kind # "SJOIN"
  BY IdleCmd DEF m_kick
<1>2. MSync' /\ ISync' /\ ChannelIffMembers' /\ Tables'
  <2>1. UNCHANGED <<chans, members, users, channel, joined, invVars, online>>
    BY DEF m_kick, chanVars, userVars
  <2>2. QED BY <1>1, <2>1, QuietStep
<1>3. Rest'
  BY LimitAssumption, UserAssumption DEF m_kick, IInv, Rest, CmdOK, chanVars
<1>4. CmdOK'
  BY UserAssumption, LimitAssumption, IdleCmd, ZenonT(40) DEF m_kick, IInv, CmdOK, Cmds, Idle, Ranks, Rest, chanVars, RankOf
<1>5. QED BY <1>2, <1>3, <1>4 DEF IInv

\* MODE or KICK ends.
LEMMA EndCommand ==
  ASSUME IInv, end_command
  PROVE  IInv'
<1>1. cmd.kind # "SJOIN"
  BY DEF end_command
<1>2. MSync' /\ ISync' /\ ChannelIffMembers' /\ Tables'
  <2>1. UNCHANGED <<chans, members, users, channel, joined, invVars, online>>
    BY DEF end_command, chanVars, userVars
  <2>2. QED BY <1>1, <2>1, QuietStep
<1>3. Rest'
  BY LimitAssumption, UserAssumption DEF end_command, IInv, Rest, CmdOK, chanVars
<1>4. CmdOK'
  BY UserAssumption, LimitAssumption, IdleCmd DEF end_command, IInv, CmdOK, Cmds, Idle, Ranks, Rest, chanVars
<1>5. QED BY <1>2, <1>3, <1>4 DEF IInv

\* JOIN 0 starts.
LEMMA JoinZero ==
  ASSUME IInv, NEW u \in Users, m_join_zero(u)
  PROVE  IInv'
<1>1. cmd.kind # "SJOIN"
  BY IdleCmd DEF m_join_zero
<1>2. MSync' /\ ISync' /\ ChannelIffMembers' /\ Tables'
  <2>1. UNCHANGED <<chans, members, users, channel, joined, invVars, online>>
    BY DEF m_join_zero, chanVars, userVars
  <2>2. QED BY <1>1, <2>1, QuietStep
<1>3. Rest'
  BY LimitAssumption, UserAssumption DEF m_join_zero, IInv, Rest, CmdOK, chanVars
<1>4. CmdOK'
  BY UserAssumption, LimitAssumption, IdleCmd DEF m_join_zero, IInv, CmdOK, Cmds, Idle, Ranks, Rest, chanVars
<1>5. QED BY <1>2, <1>3, <1>4 DEF IInv

\* exit_one_client starts.
LEMMA ExitOneClient ==
  ASSUME IInv, NEW u \in Users, exit_one_client(u)
  PROVE  IInv'
<1>1. cmd.kind # "SJOIN"
  BY IdleCmd DEF exit_one_client
<1>2. MSync' /\ ISync' /\ ChannelIffMembers' /\ Tables'
  <2>1. UNCHANGED <<chans, members, users, channel, joined, invVars, online>>
    BY DEF exit_one_client, chanVars, userVars
  <2>2. QED BY <1>1, <2>1, QuietStep
<1>3. Rest'
  BY LimitAssumption, UserAssumption DEF exit_one_client, IInv, Rest, CmdOK, chanVars
<1>4. CmdOK'
  BY UserAssumption, LimitAssumption, IdleCmd DEF exit_one_client, IInv, CmdOK, Cmds, Idle, Ranks, Rest, chanVars
<1>5. QED BY <1>2, <1>3, <1>4 DEF IInv

\* JOIN 0 ends.
LEMMA JoinZeroEnd ==
  ASSUME IInv, join_zero_end
  PROVE  IInv'
<1>1. cmd.kind # "SJOIN"
  BY DEF join_zero_end
<1>2. MSync' /\ ISync' /\ ChannelIffMembers' /\ Tables'
  <2>1. UNCHANGED <<chans, members, users, channel, joined, invVars, online>>
    BY DEF join_zero_end, chanVars, userVars
  <2>2. QED BY <1>1, <2>1, QuietStep
<1>3. Rest'
  BY LimitAssumption, UserAssumption DEF join_zero_end, IInv, Rest, CmdOK, chanVars
<1>4. CmdOK'
  BY UserAssumption, LimitAssumption, IdleCmd DEF join_zero_end, IInv, CmdOK, Cmds, Idle, Ranks, Rest, chanVars
<1>5. QED BY <1>2, <1>3, <1>4 DEF IInv

\* The last link is lost.
LEMMA ExitServer ==
  ASSUME IInv, exit_server
  PROVE  IInv'
<1>1. cmd.kind # "SJOIN"
  BY IdleCmd DEF exit_server
<1>2. MSync' /\ ISync' /\ ChannelIffMembers' /\ Tables'
  <2>1. UNCHANGED <<chans, members, users, channel, joined, invVars, online>>
    BY DEF exit_server, chanVars, userVars
  <2>2. QED BY <1>1, <2>1, QuietStep
<1>3. Rest'
  BY LimitAssumption, UserAssumption DEF exit_server, IInv, Rest, CmdOK, chanVars
<1>4. CmdOK'
  <2>1. CASE cmd' = Idle
    BY <2>1, IdleCmd DEF CmdOK
  <2>2. CASE \E w \in online \cap RemoteUsers :
               cmd' = [Idle EXCEPT !.kind = "EXIT", !.by = w, !.split = TRUE]
    BY <2>2, IdleCmd DEF CmdOK, Cmds, Idle, Users
  <2>3. QED BY <2>1, <2>2 DEF exit_server
<1>5. QED BY <1>2, <1>3, <1>4 DEF IInv

\* The network is back.
LEMMA Pong ==
  ASSUME IInv, m_pong
  PROVE  IInv'
<1>1. cmd.kind # "SJOIN"
  BY IdleCmd DEF m_pong
<1>2. MSync' /\ ISync' /\ ChannelIffMembers' /\ Tables'
  <2>1. UNCHANGED <<chans, members, users, channel, joined, invVars, online>>
    BY DEF m_pong, chanVars, userVars
  <2>2. QED BY <1>1, <2>1, QuietStep
<1>3. Rest'
  BY LimitAssumption, UserAssumption DEF m_pong, IInv, Rest, CmdOK, chanVars
<1>4. CmdOK'
  BY UserAssumption, LimitAssumption, IdleCmd DEF m_pong, IInv, CmdOK, Cmds, Idle, Ranks, Rest, chanVars
<1>5. QED BY <1>2, <1>3, <1>4 DEF IInv

\* INVITE.
LEMMA Invite ==
  ASSUME IInv, NEW u \in Users, NEW who \in Users, NEW c \in Channels, m_invite(u, who, c)
  PROVE  IInv'
<1>1. /\ cmd.kind = "none" /\ add_invite(who, c) /\ who \in online \cap LocalUsers
      /\ c \in chans /\ UNCHANGED <<chanVars, userVars, online, server_was_split, cmd>>
  BY IdleCmd DEF m_invite
<1>2. who \notin members[c]
  BY DEF m_invite, IsMember, IInv, MSync, MembershipConsistent
<1>3. MSync'
  BY <1>1, SameMembers DEF IInv, chanVars, userVars
<1>4. /\ ISync'
      /\ \A d \in Channels : invites'[d] \subseteq invites[d] \cup (IF d = c THEN {who} ELSE {})
  BY <1>1, AddInvite DEF IInv
<1>5. Rest' /\ CmdOK' /\ ChannelIffMembers'
  BY <1>1 DEF IInv, Rest, CmdOK, ChannelIffMembers, chanVars
<1>6. Tables'
  <2>1. \A d \in Channels : invites'[d] # {} => d \in chans'
    BY <1>1, <1>4 DEF IInv, Tables, chanVars
  <2>2. \A d \in Channels : invites'[d] \subseteq online' \cap LocalUsers
    BY <1>1, <1>4 DEF IInv, Tables
  <2>3. \A d \in Channels : members'[d] \subseteq online'
    BY <1>1 DEF IInv, Tables, chanVars
  <2>4. InvitationConsumed'
    BY <1>1, <1>2, <1>4 DEF IInv, Tables, InvitationConsumed, chanVars
  <2>5. QED BY <2>1, <2>2, <2>3, <2>4 DEF Tables
<1>7. QED BY <1>3, <1>4, <1>5, <1>6 DEF IInv

\* Dropping invitations disturbs nothing else.
LEMMA FewerInvites ==
  ASSUME IInv, UNCHANGED <<chans, members, online>>,
         \A d \in Channels : invites'[d] \subseteq invites[d]
  PROVE  Tables'
<1>1. \A d \in Channels : invites'[d] # {} => d \in chans'
  BY DEF IInv, Tables
<1>2. \A d \in Channels : invites'[d] \subseteq online' \cap LocalUsers
  BY DEF IInv, Tables
<1>3. \A d \in Channels : members'[d] \subseteq online'
  BY DEF IInv, Tables
<1>4. InvitationConsumed'
  BY DEF IInv, Tables, InvitationConsumed
<1>5. QED BY <1>1, <1>2, <1>3, <1>4 DEF Tables

\* One of the parameterless letters; -i empties the invitations.
LEMMA SetModeFlag ==
  ASSUME IInv, NEW x \in Flags, NEW plus \in BOOLEAN, set_mode_flag(x, plus)
  PROVE  IInv'
<1> DEFINE c == cmd.chan
<1>1. /\ cmd.kind = "MODE" /\ x \in ModeLetters /\ cmd' = [cmd EXCEPT !.seen = @ \cup {x}]
      /\ UNCHANGED <<chans, members, flags, users, limit, ts, userVars, online, server_was_split>>
  BY DEF set_mode_flag
<1>2. c \in Channels /\ cmd \in Cmds
  BY <1>1 DEF IInv, CmdOK
<1>3. ISync' /\ \A d \in Channels : invites'[d] \subseteq invites[d]
  <2>1. CASE del_all_invites(c)
    BY <1>2, <2>1, DelAllInvites DEF IInv, ISync
  <2>2. CASE UNCHANGED invVars
    BY <2>2, SameInvites DEF IInv, invVars
  <2>3. QED BY <2>1, <2>2 DEF set_mode_flag
<1>4. MSync'
  BY <1>1, SameMembers DEF IInv, userVars
<1>5. mode' \in [Channels -> SUBSET Flags]
  <2>1. mode' = mode \/ mode' = [mode EXCEPT ![c] = Signed(@, plus, x)]
    BY DEF set_mode_flag
  <2>2. QED BY <2>1, <1>2 DEF IInv, Rest, Signed
<1>6. Rest'
  BY <1>1, <1>5 DEF IInv, Rest
<1>7. CmdOK'
  BY <1>1, <1>2 DEF CmdOK, Cmds
<1>8. ChannelIffMembers'
  BY <1>1, NoEmptyChannel DEF ChannelIffMembers
<1>9. Tables'
  BY <1>1, <1>3, FewerInvites
<1>10. QED BY <1>3, <1>4, <1>6, <1>7, <1>8, <1>9 DEF IInv

\* SJOIN starts, and may create an empty channel.
LEMMA Sjoin ==
  ASSUME IInv, NEW c \in Channels, NEW newts \in 0..MaxTS, NEW newmode \in SUBSET Flags,
         NEW newlimit \in 0..MaxLimit, m_sjoin(c, newts, newmode, newlimit)
  PROVE  IInv'
<1>1. /\ cmd.kind = "none" /\ chans' = chans \cup {c}
      /\ UNCHANGED <<members, users, userVars, invVars, online, server_was_split>>
  BY IdleCmd DEF m_sjoin, get_channel
<1>2. MSync' /\ ISync'
  BY <1>1, SameMembers, SameInvites DEF IInv, userVars
<1>3. Rest'
  <2>1. ts' \in [Channels -> 0..MaxTS]
    BY SjoinTS DEF m_sjoin, get_channel, IInv, Rest
  <2>2. mode' \in [Channels -> SUBSET Flags]
    BY DEF m_sjoin, IInv, Rest
  <2>3. limit' \in [Channels -> 0..MaxLimit]
    BY DEF m_sjoin, IInv, Rest
  <2>4. flags' \in [Channels -> [Users -> SUBSET Status]]
    <3>1. flags' = flags \/ flags' = [flags EXCEPT ![c] = NoFlags]
      BY DEF m_sjoin
    <3>2. NoFlags \in [Users -> SUBSET Status]
      BY DEF NoFlags
    <3>3. QED BY <3>1, <3>2 DEF IInv, Rest
  <2>5. QED BY <1>1, <2>1, <2>2, <2>3, <2>4 DEF IInv, Rest
<1>4. cmd'.kind = "SJOIN" /\ cmd'.chan = c /\ cmd' \in Cmds
  <2> DEFINE k == ~ (c \in chans /\ newts # 0 /\ ts[c] # 0 /\ newts > ts[c])
  <2>1. cmd' = [Idle EXCEPT !.kind = "SJOIN", !.chan = c, !.keep = k, !.rank = "super"]
    BY DEF m_sjoin
  <2>2. k \in BOOLEAN
    OBVIOUS
  <2> HIDE DEF k
  <2>3. cmd' = [kind |-> "SJOIN", by |-> Srv, chan |-> c, level |-> 0, left |-> 0,
                seen |-> {}, keep |-> k, split |-> FALSE, rank |-> "super"]
    BY <2>1 DEF Idle
  <2>4. QED BY <2>2, <2>3 DEF Cmds, Ranks
<1>5. CmdOK'
  BY <1>1, <1>4 DEF CmdOK
<1>6. ChannelIffMembers'
  <2> SUFFICES ASSUME NEW d \in Channels, d # c
               PROVE  d \in chans' <=> members'[d] # {}
    BY <1>1, <1>4 DEF ChannelIffMembers
  <2>1. QED BY <1>1, NoEmptyChannel
<1>7. Tables'
  BY <1>1 DEF IInv, Tables, InvitationConsumed, invVars
<1>8. QED BY <1>2, <1>3, <1>5, <1>6, <1>7 DEF IInv

\* One nick of a SJOIN.
LEMMA SjoinNick ==
  ASSUME IInv, NEW u \in Users, NEW fl \in SUBSET Status, sjoin_nick(u, fl)
  PROVE  IInv'
<1> DEFINE c == cmd.chan
           f == IF cmd.keep THEN fl ELSE {}
<1>1. /\ cmd.kind = "SJOIN" /\ u \in online /\ u \in RemoteUsers
      /\ add_user_to_channel(c, u, f) /\ UNCHANGED <<chans, mode, limit, ts, invVars,
                                                     online, server_was_split, cmd>>
  BY DEF sjoin_nick
<1>2. c \in Channels /\ c \in chans
  BY <1>1 DEF IInv, CmdOK
<1>3. u \notin members[c]
  BY <1>2 DEF sjoin_nick, IsMember, IInv, MSync, MembershipConsistent
<1>4. MSync' /\ ISync' /\ ChannelIffMembers' /\ Tables'
  BY <1>1, <1>2, <1>3, EnterStep
<1>5. Rest'
  <2>1. flags' = [flags EXCEPT ![c][u] = f] /\ f \in SUBSET Status
    BY <1>1 DEF add_user_to_channel
  <2> HIDE DEF f
  <2>2. flags' \in [Channels -> [Users -> SUBSET Status]]
    BY <2>1, <1>2 DEF IInv, Rest
  <2>3. QED BY <1>1, <2>2 DEF IInv, Rest
<1>6. CmdOK'
  BY <1>1 DEF IInv, CmdOK
<1>7. QED BY <1>4, <1>5, <1>6 DEF IInv

\* The SJOIN ends: its channel has members, or goes.
LEMMA SjoinEnd ==
  ASSUME IInv, sjoin_end
  PROVE  IInv'
<1> DEFINE c == cmd.chan
<1>1. /\ cmd.kind = "SJOIN" /\ cmd' = Idle
      /\ UNCHANGED <<members, flags, userVars, online, server_was_split>>
  BY DEF sjoin_end
<1>2. c \in Channels /\ c \in chans
  BY <1>1 DEF IInv, CmdOK
<1>3. CmdOK' /\ cmd'.kind = "none"
  BY <1>1, IdleCmd DEF CmdOK
<1>4. users[c] = Cardinality(members[c]) /\ (Cardinality(members[c]) = 0 <=> members[c] = {})
  BY <1>2, FS_EmptySet DEF IInv, MSync, MembershipConsistent
<1>5. CASE users[c] = 0
  <2>1. /\ chans' = chans \ {c} /\ users' = [users EXCEPT ![c] = 0] /\ del_all_invites(c)
        /\ mode' = [mode EXCEPT ![c] = {}] /\ limit' = [limit EXCEPT ![c] = 0]
        /\ ts' = [ts EXCEPT ![c] = 0]
    BY <1>5 DEF sjoin_end, sub1_from_channel
  <2>2. users' = users
    BY <1>2, <1>5, <2>1 DEF IInv, MSync
  <2>3. MSync'
    BY <1>1, <2>2, SameMembers DEF IInv, userVars
  <2>4. ISync' /\ invites' = [invites EXCEPT ![c] = {}]
    BY <1>2, <2>1, DelAllInvites DEF IInv
  <2>5. Rest'
    BY <1>1, <1>2, <2>1, LimitAssumption DEF IInv, Rest
  <2>6. ChannelIffMembers'
    <3> SUFFICES ASSUME NEW d \in Channels PROVE d \in chans' <=> members'[d] # {}
      BY DEF ChannelIffMembers
    <3>1. CASE d = c
      BY <1>1, <1>4, <1>5, <2>1, <3>1
    <3>2. CASE d # c
      BY <1>1, <2>1, <3>2 DEF IInv, ChannelIffMembers
    <3>3. QED BY <3>1, <3>2
  <2>7. Tables'
    <3>1. \A d \in Channels : invites'[d] = IF d = c THEN {} ELSE invites[d]
      BY <2>4 DEF IInv, ISync
    <3>2. \A d \in Channels : invites'[d] # {} => d \in chans'
      BY <2>1, <3>1 DEF IInv, Tables
    <3>3. \A d \in Channels : invites'[d] \subseteq online' \cap LocalUsers
      BY <1>1, <3>1 DEF IInv, Tables
    <3>4. \A d \in Channels : members'[d] \subseteq online'
      BY <1>1 DEF IInv, Tables
    <3>5. InvitationConsumed'
      BY <1>1, <3>1 DEF IInv, Tables, InvitationConsumed
    <3>6. QED BY <3>2, <3>3, <3>4, <3>5 DEF Tables
  <2>8. QED BY <1>3, <2>3, <2>4, <2>5, <2>6, <2>7 DEF IInv
<1>6. CASE users[c] # 0
  <2>1. UNCHANGED <<chans, users, mode, limit, ts, invVars>>
    BY <1>6 DEF sjoin_end
  <2>2. MSync' /\ ISync'
    BY <1>1, <2>1, SameMembers, SameInvites DEF IInv, userVars
  <2>3. Rest'
    BY <1>1, <2>1 DEF IInv, Rest
  <2>4. ChannelIffMembers'
    BY <1>1, <1>2, <1>4, <1>6, <2>1 DEF IInv, ChannelIffMembers
  <2>5. Tables'
    BY <1>1, <2>1 DEF IInv, Tables, InvitationConsumed, invVars
  <2>6. QED BY <1>3, <2>2, <2>3, <2>4, <2>5 DEF IInv
<1>7. QED BY <1>5, <1>6

\* A client appears.
LEMMA Register ==
  ASSUME IInv, NEW u \in Users, register_user(u)
  PROVE  IInv'
<1>1. online' = online \cup {u} /\ UNCHANGED <<chanVars, userVars, invVars, server_was_split, cmd>>
  BY DEF register_user
<1>2. MSync' /\ ISync'
  BY <1>1, SameMembers, SameInvites DEF IInv, chanVars, userVars
<1>3. Rest' /\ CmdOK' /\ ChannelIffMembers'
  BY <1>1 DEF IInv, Rest, CmdOK, ChannelIffMembers, chanVars
<1>4. Tables'
  BY <1>1 DEF IInv, Tables, InvitationConsumed, chanVars, invVars
<1>5. QED BY <1>2, <1>3, <1>4 DEF IInv

\* One invitation of a client that exits.
LEMMA UninviteNext ==
  ASSUME IInv, uninvite_next
  PROVE  IInv'
<1> DEFINE u == cmd.by
           c == Head(invited[u])
<1>1. /\ cmd.kind = "EXIT" /\ invited[u] # <<>> /\ del_invite(u, c)
      /\ UNCHANGED <<chanVars, userVars, online, server_was_split, cmd>>
  BY DEF uninvite_next
<1>2. u \in Users
  BY <1>1 DEF IInv, CmdOK
<1>3. c \in Channels
  BY <1>1, <1>2 DEF IInv, ISync
<1>4. ISync' /\ \A d \in Channels : invites'[d] \subseteq invites[d]
  <2>1. ISync' /\ invites' = [invites EXCEPT ![c] = @ \ {u}]
    BY <1>1, <1>2, <1>3, DelInvite DEF IInv
  <2> HIDE DEF c
  <2>2. QED BY <2>1, <1>3 DEF IInv, ISync
<1>5. MSync'
  BY <1>1, SameMembers DEF IInv, chanVars, userVars
<1>6. Rest' /\ CmdOK' /\ ChannelIffMembers'
  BY <1>1 DEF IInv, Rest, CmdOK, ChannelIffMembers, chanVars
<1>7. Tables'
  BY <1>1, <1>4, FewerInvites DEF chanVars
<1>8. QED BY <1>4, <1>5, <1>6, <1>7 DEF IInv

\* The client is gone.
LEMMA ExitEnd ==
  ASSUME IInv, exit_end
  PROVE  IInv'
<1> DEFINE u == cmd.by
<1>1. /\ cmd.kind = "EXIT" /\ channel[u] = {} /\ invited[u] = <<>> /\ online' = online \ {u}
      /\ UNCHANGED <<chanVars, userVars, invVars, server_was_split>>
      /\ cmd' = Idle \/ \E w \in online' \cap RemoteUsers : cmd' = [cmd EXCEPT !.by = w]
  BY DEF exit_end
<1>2. u \in Users
  BY <1>1 DEF IInv, CmdOK
<1>3. \A d \in Channels : u \notin members[d] /\ u \notin invites[d]
  <2>1. \A d \in Channels : u \notin members[d]
    BY <1>1, <1>2 DEF IInv, MSync, MembershipConsistent
  <2>2. \A d : ~ Contains(invited[u], d)
    BY <1>1 DEF Contains
  <2>3. \A d \in Channels : u \notin invites[d]
    BY <1>2, <2>2 DEF IInv, ISync
  <2>4. QED BY <2>1, <2>3
<1>4. MSync' /\ ISync'
  BY <1>1, SameMembers, SameInvites DEF IInv, chanVars, userVars
<1>5. Rest'
  BY <1>1 DEF IInv, Rest, chanVars
<1>6. CmdOK'
  <2>1. CASE cmd' = Idle
    BY <2>1, IdleCmd DEF CmdOK
  <2>2. CASE \E w \in online' \cap RemoteUsers : cmd' = [cmd EXCEPT !.by = w]
    BY <1>1, <2>2 DEF IInv, CmdOK, Cmds, Users
  <2>3. QED BY <1>1, <2>1, <2>2
<1>7. ChannelIffMembers'
  BY <1>1, NoEmptyChannel DEF ChannelIffMembers, chanVars
<1>8. Tables'
  BY <1>1, <1>3 DEF IInv, Tables, InvitationConsumed, chanVars, invVars
<1>9. QED BY <1>4, <1>5, <1>6, <1>7, <1>8 DEF IInv

----------------------------------------------------------------------------
(* The theorems.                                                           *)

\* Nothing happens.
LEMMA Stutter ==
  ASSUME IInv, UNCHANGED vars
  PROVE  IInv'
<1>1. UNCHANGED <<chans, members, flags, users, mode, limit, ts, channel, joined, invites,
                  invited, online, server_was_split, cmd>>
  BY DEF vars, chanVars, userVars, invVars
<1>2. MSync' /\ ISync'
  BY <1>1, SameMembers, SameInvites DEF IInv, invVars
<1>3. Rest' /\ CmdOK' /\ ChannelIffMembers'
  BY <1>1 DEF IInv, Rest, CmdOK, ChannelIffMembers
<1>4. Tables'
  BY <1>1 DEF IInv, Tables, InvitationConsumed
<1>5. QED BY <1>2, <1>3, <1>4 DEF IInv

\* Every handler keeps the invariant.
LEMMA StepIInv == IInv /\ [Next]_vars => IInv'
<1> SUFFICES ASSUME IInv, [Next]_vars PROVE IInv'
  OBVIOUS
<1>1. CASE Joins
  <2>1. PICK u \in Users, c \in Channels :
           \/ \E t \in 1..MaxTS : m_join_create(u, c, t) \/ m_join_remote(u, c, t)
           \/ \E gate \in Gates : m_join_existing(u, c, gate)
           \/ m_sajoin(u, c) \/ m_part(u, c)
           \/ \E who \in Users : m_invite(u, who, c)
           \/ \E newts \in 0..MaxTS : m_sjoin_client(u, c, newts)
    BY <1>1 DEF Joins
  <2>2. QED BY <2>1, JoinCreate, JoinRemote, JoinExisting, SaJoin, Part, Invite, SjoinClient
<1>2. CASE Commands
  <2>1. ASSUME NEW u \in Users \cup {Srv}, NEW c \in Channels,
               \/ \E modets \in 0..MaxTS : m_mode(u, c, modets)
               \/ m_samode(u, c)
               \/ m_kick(u, c)
        PROVE  IInv'
    <3>1. CASE m_samode(u, c)
      BY <3>1, SaMode DEF m_samode, Users
    <3>2. QED BY <2>1, <3>1, Mode, Kick
  <2>2. ASSUME NEW plus \in BOOLEAN,
               \/ \E x \in Status, who \in Users : set_mode_status(x, plus, who)
               \/ \E n \in 1..MaxLimit : set_mode_l(plus, n)
               \/ \E x \in Flags : set_mode_flag(x, plus)
        PROVE  IInv'
    BY <2>2, SetModeStatus, SetModeL, SetModeFlag
  <2>3. QED BY <1>2, <2>1, <2>2, KickTarget, EndCommand DEF Commands
<1>3. CASE Bursts
  <2>1. ASSUME NEW c \in Channels, NEW newts \in 0..MaxTS,
               NEW newlimit \in {0} \cup (IF "l" \in ModeLetters THEN 1..MaxLimit ELSE {}),
               NEW newmode \in SUBSET (ModeLetters \cap Flags),
               m_sjoin(c, newts, newmode, newlimit)
        PROVE  IInv'
    <3>1. newlimit \in 0..MaxLimit /\ newmode \in SUBSET Flags
      BY LimitAssumption
    <3>2. QED BY <2>1, <3>1, Sjoin
  <2>2. ASSUME NEW u \in Users, NEW fl \in SUBSET (ModeLetters \cap Status), sjoin_nick(u, fl)
        PROVE  IInv'
    BY <2>2, SjoinNick
  <2>3. QED BY <1>3, <2>1, <2>2, SjoinEnd DEF Bursts
<1>4. CASE Presence
  BY <1>4, Register, JoinZero, ExitOneClient, LeaveNext, JoinZeroEnd, UninviteNext, ExitEnd,
     ExitServer, Pong DEF Presence
<1>5. QED BY <1>1, <1>2, <1>3, <1>4, Stutter DEF Next

\* The inductive invariant holds in every reachable state.
LEMMA IInvHolds == Spec => []IInv
BY InitIInv, StepIInv, PTL DEF Spec

\* Every variable has its type in every reachable state.
THEOREM TypeCorrect == Spec => []TypeOK
<1>1. IInv => TypeOK
  BY DEF IInv, MSync, ISync, Rest, CmdOK, TypeOK
<1>2. QED BY <1>1, IInvHolds, PTL

\* Both sides of a membership and both counters agree after every step of
\* every handler (add_user_to_channel, remove_user_from_channel).
THEOREM MembershipAlwaysConsistent == Spec => []MembershipConsistent
<1>1. IInv => MembershipConsistent
  BY DEF IInv, MSync
<1>2. QED BY <1>1, IInvHolds, PTL

\* A channel exists exactly while it has members, except inside the SJOIN
\* that creates it (sub1_from_channel, m_sjoin).
THEOREM NoEmptyNorFreedChannel == Spec => []ChannelIffMembers
<1>1. IInv => ChannelIffMembers
  BY DEF IInv
<1>2. QED BY <1>1, IInvHolds, PTL

\* Both sides of an invitation agree, and an invitation is for a channel
\* that exists and a client that is online (add_invite, del_invite).
THEOREM InvitesAlwaysConsistent == Spec => []InvitesConsistent
<1>1. IInv => InvitesConsistent
  BY DEF IInv, ISync, Tables, InvitesConsistent
<1>2. QED BY <1>1, IInvHolds, PTL

\* No list of invitations outgrows its limit (add_invite).
THEOREM InvitesAlwaysBounded == Spec => []InvitesBounded
<1>1. IInv => InvitesBounded
  BY DEF IInv, ISync
<1>2. QED BY <1>1, IInvHolds, PTL

\* An invitation admits once (m_join, m_invite).
THEOREM InvitationsConsumed == Spec => []InvitationConsumed
<1>1. IInv => InvitationConsumed
  BY DEF IInv, Tables
<1>2. QED BY <1>1, IInvHolds, PTL

\* Nobody who has left is on a list (exit_one_client).
THEOREM NeverGhosts == Spec => []NoGhosts
<1>1. IInv => NoGhosts
  BY DEF IInv, Tables, NoGhosts
<1>2. QED BY <1>1, IInvHolds, PTL

\* The channel tables and the lists of invitations are sound after every step
\* of every handler (add_user_to_channel, remove_user_from_channel,
\* sub1_from_channel; add_invite, del_invite).
THEOREM TablesAlwaysSound == Spec => []ChannelTables
BY TypeCorrect, MembershipAlwaysConsistent, NoEmptyNorFreedChannel, PTL DEF ChannelTables

\* The same for invitations: mirrored, bounded, used once, and of no client that is gone.
THEOREM InvitationsAlwaysSound == Spec => []Invitations
BY InvitesAlwaysConsistent, InvitesAlwaysBounded, InvitationsConsumed, NeverGhosts, PTL
   DEF Invitations

----------------------------------------------------------------------------
(* Authority.                                                              *)

\* What a running command may still do, by the rank its sender had when it
\* started: m_mode fixed the level then, and a half operator who kicks is still
\* one, as it cannot be among its own targets.
RankOK ==
  /\ cmd.kind = "MODE" /\ cmd.rank \in {"user", "half"} =>
       /\ cmd.by # Srv /\ cmd.by \notin ULines
       /\ cmd.level = IF cmd.rank = "half" THEN 1 ELSE 0
  /\ cmd.kind = "KICK" =>
       /\ cmd.rank # "user"
       /\ cmd.rank = "half" => cmd.by \in Users /\ is_only_halfop(cmd.by, cmd.chan)

\* What RankRespected and OpProvenance say of a step.
RankStep ==
  cmd.kind \in {"MODE", "KICK"} /\ cmd'.kind = cmd.kind =>
    /\ cmd.rank = "user" => UNCHANGED <<chanVars, invVars>>
    /\ cmd.rank = "half" =>
         /\ \A u \in Users : (flags'[cmd.chan][u] \cap {"o", "h"})
                                = (flags[cmd.chan][u] \cap {"o", "h"})
         /\ UNCHANGED invVars
OpStep ==
  \A c \in Channels, u \in Users :
    "o" \in flags'[c][u] /\ "o" \notin flags[c][u] =>
      \/ /\ c \notin chans /\ cmd.kind = "none" /\ u \in LocalUsers
         /\ server_was_split => u \in Opers \/ SplitOpOk
      \/ cmd.kind = "MODE" /\ cmd.rank \in {"op", "super"}
      \/ cmd.kind = "SJOIN" /\ u \in RemoteUsers

Authority == RankOK' /\ RankStep /\ OpStep

\* A handler that is one action, or not one of MODE and KICK.
LEMMA OtherHandlers ==
  ASSUME IInv, cmd.kind \notin {"MODE", "KICK"}, cmd'.kind \notin {"MODE", "KICK"}, OpStep
  PROVE  Authority
BY DEF Authority, RankOK, RankStep

\* Status that is given when a client enters.
LEMMA EntersWith ==
  ASSUME IInv, NEW c \in Channels, NEW u \in Users, NEW fl, add_user_to_channel(c, u, fl)
  PROVE  \A d \in Channels, v \in Users :
           flags'[d][v] = IF d = c /\ v = u THEN fl ELSE flags[d][v]
BY DEF add_user_to_channel, IInv, Rest

\* Status that is lost when a client leaves.
LEMMA LeavesWith ==
  ASSUME IInv, NEW c \in Channels, NEW u \in Users, remove_user_from_channel(u, c)
  PROVE  \A d \in Channels, v \in Users :
           flags'[d][v] = IF d = c /\ v = u THEN {} ELSE flags[d][v]
BY DEF remove_user_from_channel, IInv, Rest

\* JOIN in all its forms, PART and INVITE.
LEMMA JoinsAuthority ==
  ASSUME IInv, Joins
  PROVE  Authority
<1>1. PICK u \in Users, c \in Channels :
         \/ \E t \in 1..MaxTS : m_join_create(u, c, t) \/ m_join_remote(u, c, t)
         \/ \E gate \in Gates : m_join_existing(u, c, gate)
         \/ m_sajoin(u, c) \/ m_part(u, c)
         \/ \E who \in Users : m_invite(u, who, c)
         \/ \E newts \in 0..MaxTS : m_sjoin_client(u, c, newts)
  BY DEF Joins
<1>2. cmd.kind = "none" /\ cmd' = cmd
  BY <1>1, IdleCmd DEF m_join_create, m_join_remote, m_join_existing, m_sajoin, m_part, m_invite,
     m_sjoin_client
<1>3. OpStep
  <2>1. ASSUME NEW t, m_join_create(u, c, t) PROVE OpStep
    <3> DEFINE fl == IF u \in Opers \/ ~ server_was_split \/ SplitOpOk THEN {"o"} ELSE {}
    <3>1. add_user_to_channel(c, u, fl) /\ u \in LocalUsers /\ c \notin chans
      BY <2>1 DEF m_join_create
    <3>2. \A d \in Channels, v \in Users : flags'[d][v] = IF d = c /\ v = u THEN fl ELSE flags[d][v]
      BY <3>1, EntersWith
    <3> QED BY <1>2, <3>1, <3>2 DEF OpStep
  <2>2. ASSUME add_user_to_channel(c, u, {}) PROVE OpStep
    BY <2>2, EntersWith DEF OpStep
  <2>3. ASSUME m_part(u, c) PROVE OpStep
    BY <2>3, LeavesWith DEF OpStep, m_part
  <2>4. ASSUME UNCHANGED flags PROVE OpStep
    BY <2>4 DEF OpStep
  <2>5. ASSUME NEW newts, m_sjoin_client(u, c, newts) PROVE OpStep
    BY <2>5, <2>2, <2>4 DEF m_sjoin_client
  <2>6. ASSUME NEW who, m_invite(u, who, c) PROVE OpStep
    BY <2>6, <2>4 DEF m_invite, chanVars
  <2>7. ASSUME NEW t, m_join_remote(u, c, t) PROVE OpStep
    BY <2>7, <2>2 DEF m_join_remote
  <2>8. ASSUME NEW gate, m_join_existing(u, c, gate) PROVE OpStep
    BY <2>8, <2>2 DEF m_join_existing
  <2>9. ASSUME m_sajoin(u, c) PROVE OpStep
    BY <2>9, <2>2 DEF m_sajoin
  <2> QED BY <1>1, <2>1, <2>3, <2>5, <2>6, <2>7, <2>8, <2>9
<1> QED BY <1>2, <1>3, OtherHandlers

\* MODE and KICK start with the rank and the level their sender has.
LEMMA StartsRanked ==
  ASSUME IInv, NEW u \in Users \cup {Srv}, NEW c \in Channels,
         \/ \E modets \in 0..MaxTS : m_mode(u, c, modets)
         \/ m_samode(u, c)
         \/ m_kick(u, c)
  PROVE  Authority
<1>1. cmd.kind = "none" /\ UNCHANGED <<members, flags>>
  BY IdleCmd DEF m_mode, m_samode, m_kick, chanVars
<1>2. OpStep /\ RankStep
  BY <1>1 DEF OpStep, RankStep
<1>3. ASSUME NEW modets, m_mode(u, c, modets) PROVE RankOK'
  <2>1. /\ cmd'.kind = "MODE" /\ cmd'.by = u /\ cmd'.level = mode_level(u, c)
        /\ cmd'.rank = RankOf(u, c)
    BY <1>3 DEF m_mode, Idle
  <2>2. ASSUME RankOf(u, c) \in {"user", "half"}
        PROVE  /\ u # Srv /\ u \notin ULines
               /\ mode_level(u, c) = IF RankOf(u, c) = "half" THEN 1 ELSE 0
    BY <2>2 DEF RankOf, mode_level, is_only_halfop, is_halfop, is_chan_op
  <2> QED BY <2>1, <2>2 DEF RankOK
<1>4. ASSUME m_samode(u, c) PROVE RankOK'
  <2>1. cmd'.kind = "MODE" /\ cmd'.rank = "super"
    BY <1>4 DEF m_samode, Idle, RankOf
  <2> QED BY <2>1 DEF RankOK
<1>5. ASSUME m_kick(u, c) PROVE RankOK'
  <2>1. /\ cmd'.kind = "KICK" /\ cmd'.by = u /\ cmd'.chan = c
        /\ cmd'.rank = IF u # Srv /\ ~ MyClient(u) THEN "super" ELSE RankOf(u, c)
    BY <1>5 DEF m_kick, Idle
  <2>2. \/ u = Srv \/ u \in ULines \/ is_chan_op(u, c) \/ is_halfop(u, c) \/ ~ MyClient(u)
    BY <1>5 DEF m_kick
  <2>3. cmd'.rank # "user"
    BY <2>1, <2>2 DEF RankOf
  <2>4. ASSUME cmd'.rank = "half" PROVE u \in Users /\ is_only_halfop(u, c)
    BY <2>1, <2>4 DEF RankOf, is_only_halfop, is_halfop, is_chan_op
  <2>5. is_only_halfop(u, c) => is_only_halfop(u, c)'
    BY <1>1 DEF is_only_halfop, is_halfop, find_user_member
  <2> QED BY <2>1, <2>3, <2>4, <2>5 DEF RankOK, is_only_halfop, is_halfop, find_user_member
<1> QED BY <1>2, <1>3, <1>4, <1>5 DEF Authority

\* A letter is set within the rank that the command started with.
LEMMA LettersRanked ==
  ASSUME IInv, RankOK, NEW plus \in BOOLEAN,
         \/ \E x \in Status, who \in Users : set_mode_status(x, plus, who)
         \/ \E n \in 1..MaxLimit : set_mode_l(plus, n)
         \/ \E x \in Flags : set_mode_flag(x, plus)
  PROVE  Authority
<1>1. cmd.kind = "MODE" /\ cmd \in Cmds /\ cmd.chan \in Channels
  BY DEF set_mode_status, set_mode_l, set_mode_flag, IInv, CmdOK
<1>2. cmd'.kind = "MODE" /\ cmd'.by = cmd.by /\ cmd'.level = cmd.level /\ cmd'.rank = cmd.rank
  BY <1>1 DEF set_mode_status, set_mode_l, set_mode_flag, Cmds
<1>3. RankOK'
  BY <1>1, <1>2 DEF RankOK
<1>4. cmd.rank \in Ranks /\ cmd.level \in 0..4
  BY <1>1 DEF Cmds
<1>5. ASSUME NEW x \in Status, NEW who \in Users, set_mode_status(x, plus, who)
      PROVE  RankStep /\ OpStep
  <2>1. /\ cmd.rank # "user" /\ (cmd.rank = "half" => x = "v")
        /\ x = "o" => cmd.rank \in {"op", "super"}
    BY <1>1, <1>4, <1>5 DEF set_mode_status, check_level, RankOK, Ranks, Status
  <2>2. /\ \A d \in Channels, w \in Users :
             flags'[d][w] = IF d = cmd.chan /\ w = who THEN Signed(flags[d][w], plus, x) ELSE flags[d][w]
        /\ UNCHANGED invVars
    BY <1>1, <1>5 DEF set_mode_status, IInv, Rest
  <2>3. RankStep
    BY <1>1, <2>1, <2>2, ZenonT(40) DEF RankStep, Signed
  <2>4. OpStep
    <3>1. CASE x = "o"
      BY <1>1, <2>1, <3>1 DEF OpStep
    <3>2. CASE x # "o"
      <4>1. \A d \in Channels, w \in Users : "o" \in flags'[d][w] => "o" \in flags[d][w]
        <5>1. ASSUME NEW d \in Channels, NEW w \in Users
              PROVE  flags'[d][w] = flags[d][w] \/ flags'[d][w] = Signed(flags[d][w], plus, x)
          BY <2>2
        <5>2. \A S : "o" \in Signed(S, plus, x) => "o" \in S
          BY <3>2 DEF Signed
        <5> QED BY <5>1, <5>2
      <4> QED BY <4>1 DEF OpStep
    <3> QED BY <3>1, <3>2
  <2> QED BY <2>3, <2>4
<1>6. ASSUME NEW n, set_mode_l(plus, n) PROVE RankStep /\ OpStep
  <2>1. cmd.rank # "user" /\ UNCHANGED <<flags, invVars>>
    BY <1>1, <1>4, <1>6 DEF set_mode_l, check_level, RankOK
  <2> QED BY <2>1 DEF RankStep, OpStep
<1>7. ASSUME NEW x \in Flags, set_mode_flag(x, plus) PROVE RankStep /\ OpStep
  <2>1. may_set_flag(x) /\ UNCHANGED flags
    BY <1>7 DEF set_mode_flag
  <2>2. cmd.rank # "user" /\ (cmd.rank = "half" => x # "i")
    BY <1>1, <1>4, <2>1 DEF may_set_flag, check_level, RankOK, Flags
  <2>3. cmd.rank = "half" => UNCHANGED invVars
    BY <1>7, <2>2 DEF set_mode_flag
  <2> QED BY <2>1, <2>2, <2>3 DEF RankStep, OpStep
<1> QED BY <1>3, <1>5, <1>6, <1>7 DEF Authority

\* A half operator kicks nobody of its rank, so neither itself nor the last
\* member of the channel.
LEMMA KicksRanked ==
  ASSUME IInv, RankOK, NEW who \in Users, kick_target(who)
  PROVE  Authority
<1> DEFINE c == cmd.chan
<1>1. /\ cmd.kind = "KICK" /\ c \in Channels /\ cmd \in Cmds
      /\ remove_user_from_channel(who, c) /\ cmd' = [cmd EXCEPT !.left = @ - 1]
  BY DEF kick_target, IInv, CmdOK
<1>2. who \in members[c]
  BY <1>1 DEF kick_target, IsMember, IInv, MSync, MembershipConsistent
<1>3. /\ cmd'.kind = "KICK" /\ cmd'.by = cmd.by /\ cmd'.chan = c /\ cmd'.rank = cmd.rank
  BY <1>1 DEF Cmds
<1>4. \A d \in Channels, v \in Users : flags'[d][v] = IF d = c /\ v = who THEN {} ELSE flags[d][v]
  BY <1>1, LeavesWith
<1>5. OpStep
  BY <1>4 DEF OpStep
<1>6. ASSUME cmd.rank = "half"
      PROVE  /\ cmd.by \in Users /\ is_only_halfop(cmd.by, c)'
             /\ "o" \notin flags[c][who] /\ "h" \notin flags[c][who] /\ UNCHANGED invVars
  <2>1. cmd.by \in Users /\ is_only_halfop(cmd.by, c)
    BY <1>1, <1>6 DEF RankOK
  <2>2. "o" \notin flags[c][who] /\ "h" \notin flags[c][who]
    BY <1>2, <2>1 DEF kick_target, is_chan_op, is_halfop, find_user_member
  <2>3. cmd.by # who /\ cmd.by \in members[c] /\ "h" \in flags[c][cmd.by] /\ "o" \notin flags[c][cmd.by]
    BY <2>1, <2>2 DEF is_only_halfop, is_halfop, find_user_member
  <2>4. /\ members' = [members EXCEPT ![c] = @ \ {who}]
        /\ members'[c] # {} => UNCHANGED invVars
    BY <1>1, <1>2, RemoveUser DEF IInv
  <2>5. members'[c] = members[c] \ {who}
    BY <1>1, <2>4 DEF IInv, MSync
  <2>6. cmd.by \in members'[c] /\ flags'[c][cmd.by] = flags[c][cmd.by]
    BY <1>1, <1>4, <2>1, <2>3, <2>5
  <2>7. is_only_halfop(cmd.by, c)'
    BY <1>3, <2>3, <2>6 DEF is_only_halfop, is_halfop, find_user_member
  <2> QED BY <2>1, <2>2, <2>4, <2>6, <2>7
<1>7. RankOK'
  BY <1>1, <1>3, <1>6 DEF RankOK
<1>8. RankStep
  <2>1. cmd.rank # "user"
    BY <1>1 DEF RankOK
  <2>2. ASSUME cmd.rank = "half", NEW u \in Users
        PROVE  (flags'[c][u] \cap {"o", "h"}) = (flags[c][u] \cap {"o", "h"})
    BY <1>1, <1>4, <1>6, <2>2
  <2> QED BY <1>6, <2>1, <2>2 DEF RankStep
<1> QED BY <1>5, <1>7, <1>8 DEF Authority

\* SJOIN, exits and splits.
LEMMA OthersRanked ==
  ASSUME IInv, Bursts \/ Presence
  PROVE  Authority
<1>1. ASSUME NEW c \in Channels, NEW newts, NEW newmode, NEW newlimit,
             m_sjoin(c, newts, newmode, newlimit)
      PROVE  Authority
  <2>1. cmd.kind = "none" /\ cmd'.kind = "SJOIN"
    BY <1>1, IdleCmd DEF m_sjoin, Idle
  <2>2. flags' = flags \/ flags' = [flags EXCEPT ![c] = NoFlags]
    BY <1>1 DEF m_sjoin
  <2>3. \A d \in Channels, v \in Users : flags'[d][v] \in {flags[d][v], {}}
    BY <2>2 DEF NoFlags, IInv, Rest
  <2>4. OpStep
    BY <2>3 DEF OpStep
  <2> QED BY <2>1, <2>4, OtherHandlers
<1>2. ASSUME NEW u \in Users, NEW fl, sjoin_nick(u, fl) PROVE Authority
  <2>1. cmd.kind = "SJOIN" /\ cmd' = cmd /\ u \in RemoteUsers /\ cmd.chan \in Channels
    BY <1>2 DEF sjoin_nick, IInv, CmdOK
  <2>2. PICK f : add_user_to_channel(cmd.chan, u, f)
    BY <1>2 DEF sjoin_nick
  <2>3. OpStep
    BY <2>1, <2>2, EntersWith DEF OpStep
  <2> QED BY <2>1, <2>3, OtherHandlers
<1>3. ASSUME sjoin_end PROVE Authority
  BY <1>3, IdleCmd, OtherHandlers DEF sjoin_end, OpStep
<1>4. ASSUME NEW c \in Channels, leave_next(c) PROVE Authority
  <2>1. cmd.kind \in {"JOIN0", "EXIT"} /\ cmd' = cmd /\ cmd.by \in Users
    BY <1>4 DEF leave_next, IInv, CmdOK
  <2>2. OpStep
    BY <1>4, <2>1, LeavesWith DEF leave_next, OpStep
  <2> QED BY <2>1, <2>2, OtherHandlers
<1>5. ASSUME UNCHANGED flags, cmd.kind \notin {"MODE", "KICK"}, cmd'.kind \notin {"MODE", "KICK"}
      PROVE  Authority
  <2>1. OpStep
    BY <1>5 DEF OpStep
  <2> QED BY <1>5, <2>1, OtherHandlers
<1>6. ASSUME NEW u \in Users, register_user(u) \/ m_join_zero(u) \/ exit_one_client(u)
      PROVE  Authority
  <2>1. UNCHANGED flags /\ cmd.kind \notin {"MODE", "KICK"} /\ cmd'.kind \notin {"MODE", "KICK"}
    BY <1>6, IdleCmd DEF register_user, m_join_zero, exit_one_client, chanVars, Idle
  <2> QED BY <1>5, <2>1
<1>7. ASSUME join_zero_end \/ uninvite_next \/ exit_server \/ m_pong PROVE Authority
  <2>1. UNCHANGED flags /\ cmd.kind \notin {"MODE", "KICK"} /\ cmd'.kind \notin {"MODE", "KICK"}
    BY <1>7, IdleCmd DEF join_zero_end, uninvite_next, exit_server, m_pong, chanVars, Idle
  <2> QED BY <1>5, <2>1
<1>8. ASSUME exit_end PROVE Authority
  <2>1. cmd.kind = "EXIT" /\ UNCHANGED flags /\ cmd \in Cmds
    BY <1>8 DEF exit_end, chanVars, IInv, CmdOK
  <2>2. cmd' = Idle \/ \E w : cmd' = [cmd EXCEPT !.by = w]
    BY <1>8 DEF exit_end
  <2>3. cmd'.kind \in {"none", "EXIT"}
    BY <2>1, <2>2, IdleCmd DEF Cmds
  <2> QED BY <1>5, <2>1, <2>3
<1> QED BY <1>1, <1>2, <1>3, <1>4, <1>6, <1>7, <1>8 DEF Bursts, Presence

LEMMA StepRanked ==
  ASSUME IInv, RankOK, [Next]_vars
  PROVE  RankOK' /\ [RankStep]_vars /\ [OpStep]_vars
<1>1. CASE Joins
  BY <1>1, JoinsAuthority DEF Authority
<1>2. CASE Commands
  <2>1. CASE end_command
    <3>1. cmd.kind \in {"MODE", "KICK"} /\ cmd'.kind = "none" /\ UNCHANGED flags
      BY <2>1, IdleCmd DEF end_command, chanVars
    <3> QED BY <3>1 DEF RankOK, RankStep, OpStep
  <2> QED BY <1>2, <2>1, StartsRanked, LettersRanked, KicksRanked DEF Commands, Authority
<1>3. CASE Bursts \/ Presence
  BY <1>3, OthersRanked DEF Authority
<1>4. CASE UNCHANGED vars
  <2>1. UNCHANGED <<cmd, members, flags>>
    BY <1>4 DEF vars, chanVars
  <2> QED BY <1>4, <2>1 DEF RankOK, is_only_halfop, is_halfop, find_user_member
<1> QED BY <1>1, <1>2, <1>3, <1>4 DEF Next

LEMMA RankHolds == Spec => [](IInv /\ RankOK) /\ [][RankStep]_vars /\ [][OpStep]_vars
<1>1. Init => RankOK
  BY IdleCmd DEF Init, RankOK
<1> QED BY <1>1, InitIInv, StepIInv, StepRanked, PTL DEF Spec

\* No command does more than the rank its sender had when it started, for any
\* number of letters and targets and whatever the command does to its sender on
\* the way (m_mode, set_mode, m_kick).
THEOREM RankAlwaysRespected == Spec => RankRespected
BY RankHolds, PTL DEF RankRespected, RankStep

\* Operators come from the creation of a channel, from a command of somebody who
\* was operator or better when it started, or from a SJOIN (m_join,
\* set_mode, m_sjoin), however long the history.
THEOREM OpsAccountedFor == Spec => OpProvenance
BY RankHolds, PTL DEF OpProvenance, OpStep
============================================================================
