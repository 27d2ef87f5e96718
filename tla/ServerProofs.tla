---------------------------- MODULE ServerProofs ----------------------------
(***************************************************************************)
(* Connections that sign on are read from exactly when their lookups are   *)
(* over, the counters are right, and nobody is kept or dropped against the *)
(* clocks; the clone table counts every client where it is; the throttle   *)
(* keeps out whom it sent away and lets no burst through; and across       *)
(* rehashes no connection points into freed configuration: for any number  *)
(* of connections, addresses, limits and files and any times.              *)
(***************************************************************************)
EXTENDS SignOn, Clones, ConfRehash, ListLemmas

----------------------------------------------------------------------------
(* Module SignOn.                                                          *)

Unknown(f) == {c \in Comers : f[c] # None /\ f[c].st = "unknown"}
Known(f)   == {c \in Comers : f[c] # None /\ f[c].st = "person"}

SignTypeOK == /\ sock \in [Comers -> Conns \cup {None}]
              /\ count \in [unknown : Int, local : Int]
              /\ nextping \in 0 .. CheckEvery

\* What the flags of one connection say of each other.
FlagsRight(x) == /\ x.reads <=> ~ x.dns /\ ~ x.auth
                 /\ (x.st = "person") <=> (x.nick /\ x.user)
                 /\ x.st = "person" => x.reads

\* What the clocks of one connection say, when check_pings is np seconds away.
\* Lookups end before a connection is unknown for too long, because nothing is
\* heard while they last; a PING is sent after a whole ping's silence.
ClocksRight(x, np) ==
  /\ x.st = "unknown" => x.first + np <= UnknownTime + CheckEvery
  /\ x.dns \/ x.auth => /\ x.since = x.first /\ x.last = x.first
                        /\ x.first + np <= ConnectTimeout + CheckEvery
  /\ x.st = "person" /\ x.pinged = None =>
       x.last = x.heard /\ x.heard + np <= PingFreq + CheckEvery
  /\ x.st = "person" /\ x.pinged # None =>
       /\ x.last = x.pinged + PingFreq
       /\ x.heard > x.last /\ x.heard <= x.last + CheckEvery
       /\ x.pinged + np <= PingFreq + CheckEvery

CountsRight == /\ count.unknown = Cardinality(Unknown(sock))
               /\ count.local = Cardinality(Known(sock))

SignInv == /\ SignTypeOK /\ CountsRight
           /\ \A c \in Live : FlagsRight(sock[c]) /\ ClocksRight(sock[c], nextping)

\* The times and how they compare.
LEMMA Times ==
  /\ ConnectTimeout \in Nat /\ UnknownTime \in Nat /\ PingFreq \in Nat /\ CheckEvery \in Nat
  /\ ConnectTimeout > 0 /\ UnknownTime > 0 /\ PingFreq > 0 /\ CheckEvery > 0
  /\ ConnectTimeout + CheckEvery < UnknownTime
  /\ AgeCap \in Nat /\ AgeCap = UnknownTime + 2 * (PingFreq + CheckEvery) + 1
BY SignOnAssumption DEF AgeCap

\* The fields of a connection.
LEMMA Fields ==
  ASSUME NEW x \in Conns
  PROVE  /\ x.st \in {"unknown", "person"} /\ x # None
         /\ x.dns \in BOOLEAN /\ x.auth \in BOOLEAN /\ x.wrauth \in BOOLEAN
         /\ x.reads \in BOOLEAN /\ x.dead \in BOOLEAN
         /\ x.nick \in BOOLEAN /\ x.user \in BOOLEAN
         /\ x.first \in Ages /\ x.since \in Ages /\ x.last \in Ages /\ x.heard \in Ages
         /\ x.pinged \in Ages \cup {None}
BY NoneAssumption DEF Conns

\* add_connection.
LEMMA NewGood ==
  ASSUME NEW dns \in BOOLEAN, NEW auth \in BOOLEAN, NEW np \in 0 .. CheckEvery
  PROVE  LET x == check_client_fd([NewConn EXCEPT !.dns = dns, !.auth = auth, !.wrauth = auth])
         IN  x \in Conns /\ FlagsRight(x) /\ ClocksRight(x, np) /\ x.st = "unknown"
<1> DEFINE y == [NewConn EXCEPT !.dns = dns, !.auth = auth, !.wrauth = auth]
           z == check_client_fd(y)
<1>1. NewConn \in Conns
  BY Times DEF NewConn, Conns, Ages
<1>2. NewConn.st = "unknown" /\ NewConn.first = 0 /\ NewConn.since = 0 /\ NewConn.last = 0
      /\ NewConn.nick = FALSE /\ NewConn.reads = FALSE
  BY DEF NewConn
<1>3. /\ y \in Conns /\ y.st = "unknown" /\ y.first = 0 /\ y.since = 0 /\ y.last = 0
      /\ y.nick = FALSE /\ y.reads = FALSE
  BY <1>1, <1>2 DEF Conns
<1> HIDE DEF y
<1>4. /\ z \in Conns /\ z.st = "unknown" /\ z.first = 0 /\ z.since = 0 /\ z.last = 0
      /\ z.nick = FALSE /\ z.dns = y.dns /\ z.auth = y.auth
      /\ z.reads = IF y.auth \/ y.dns THEN FALSE ELSE TRUE
  BY <1>3 DEF check_client_fd, Conns
<1> HIDE DEF z
<1>5. FlagsRight(z)
  BY <1>3, <1>4 DEF FlagsRight
<1>6. ClocksRight(z, np)
  BY <1>4, Times DEF ClocksRight
<1> QED BY <1>4, <1>5, <1>6 DEF y, z

\* The lookups of x become fewer, as far as y says, and check_client_fd looks.
LEMMA LookupsEnd ==
  ASSUME NEW x \in Conns, FlagsRight(x), NEW y \in Conns,
         y.dns => x.dns, y.auth => x.auth, y.reads = x.reads,
         y.st = x.st, y.nick = x.nick, y.user = x.user
  PROVE  LET z == check_client_fd(y)
         IN  /\ z \in Conns /\ FlagsRight(z) /\ z.st = x.st
             /\ z.first = y.first /\ z.since = y.since /\ z.last = y.last
             /\ z.heard = y.heard /\ z.pinged = y.pinged /\ z.dns = y.dns /\ z.auth = y.auth
<1> DEFINE z == check_client_fd(y)
<1>1. /\ z \in Conns /\ z.st = y.st /\ z.nick = y.nick /\ z.user = y.user
      /\ z.dns = y.dns /\ z.auth = y.auth
      /\ z.reads = IF y.auth \/ y.dns THEN y.reads ELSE TRUE
      /\ z.first = y.first /\ z.since = y.since /\ z.last = y.last
      /\ z.heard = y.heard /\ z.pinged = y.pinged
  BY ZenonT(40) DEF check_client_fd, Conns
<1> HIDE DEF z
<1>2. FlagsRight(z)
  BY <1>1 DEF FlagsRight
<1> QED BY <1>1, <1>2 DEF z

\* The clocks after lookups have ended.
LEMMA SameClocks ==
  ASSUME NEW x \in Conns, NEW np, ClocksRight(x, np), NEW z \in Conns,
         z.st = x.st, z.first = x.first, z.since = x.since, z.last = x.last,
         z.heard = x.heard, z.pinged = x.pinged, z.dns => x.dns, z.auth => x.auth
  PROVE  ClocksRight(z, np)
BY DEF ClocksRight

\* The clocks after something was heard.
LEMMA HeardClocks ==
  ASSUME NEW x \in Conns, NEW np \in 0 .. CheckEvery, ClocksRight(x, np), NEW z \in Conns,
         z.st = "unknown" => x.st = "unknown", z.first = x.first, z.last = 0,
         z.heard = 0, z.pinged = None, ~ z.dns, ~ z.auth
  PROVE  ClocksRight(z, np)
BY Times DEF ClocksRight

\* What read_packet and the handlers of NICK, USER and other lines leave.
LEMMA HeardFields ==
  ASSUME NEW x \in Conns
  PROVE  LET z == heard(x)
         IN  /\ z \in Conns /\ z.first = x.first /\ z.last = 0 /\ z.heard = 0
             /\ z.pinged = None /\ z.dns = x.dns /\ z.auth = x.auth /\ z.reads = x.reads
             /\ z.st = x.st /\ z.nick = x.nick /\ z.user = x.user
<1>1. 0 \in Ages
  BY Times DEF Ages
<1> QED BY <1>1 DEF heard, Conns

\* A second passes.
LEMMA OlderGood ==
  ASSUME NEW x \in Conns, FlagsRight(x), NEW np \in 1 .. CheckEvery, ClocksRight(x, np)
  PROVE  LET z == [x EXCEPT !.first = older(@), !.since = older(@), !.last = older(@),
                            !.heard = older(@),
                            !.pinged = IF @ = None THEN None ELSE older(@)]
         IN  z \in Conns /\ FlagsRight(z) /\ ClocksRight(z, np - 1) /\ z.st = x.st
<1> DEFINE z == [x EXCEPT !.first = older(@), !.since = older(@), !.last = older(@),
                          !.heard = older(@),
                          !.pinged = IF @ = None THEN None ELSE older(@)]
<1>1. \A n \in Ages : older(n) \in Ages /\ older(n) <= n + 1 /\ (n < AgeCap => older(n) = n + 1)
  BY Times DEF Ages, older
<1>2. /\ x.first \in Ages /\ x.since \in Ages /\ x.last \in Ages /\ x.heard \in Ages
      /\ x.pinged \in Ages \cup {None}
  BY Fields
<1>3. /\ z \in Conns /\ z.first = older(x.first) /\ z.since = older(x.since)
      /\ z.last = older(x.last) /\ z.heard = older(x.heard)
      /\ z.pinged = (IF x.pinged = None THEN None ELSE older(x.pinged))
      /\ z.dns = x.dns /\ z.auth = x.auth /\ z.reads = x.reads
      /\ z.st = x.st /\ z.nick = x.nick /\ z.user = x.user
  BY <1>1, <1>2 DEF Conns
<1> HIDE DEF z
<1>4. FlagsRight(z)
  BY <1>3 DEF FlagsRight
<1>5. ClocksRight(z, np - 1)
  <2>1. z.st = "unknown" => z.first + (np - 1) <= UnknownTime + CheckEvery
    BY <1>1, <1>2, <1>3, Times DEF ClocksRight, Ages
  <2>2. z.dns \/ z.auth => /\ z.since = z.first /\ z.last = z.first
                           /\ z.first + (np - 1) <= ConnectTimeout + CheckEvery
    BY <1>1, <1>2, <1>3, Times DEF ClocksRight, Ages
  <2>3. z.st = "person" /\ z.pinged = None =>
          z.last = z.heard /\ z.heard + (np - 1) <= PingFreq + CheckEvery
    <3> SUFFICES ASSUME z.st = "person", z.pinged = None
                 PROVE  z.last = z.heard /\ z.heard + (np - 1) <= PingFreq + CheckEvery
      OBVIOUS
    <3>1. x.pinged = None
      BY <1>1, <1>2, <1>3, NoneAssumption DEF Ages
    <3> QED BY <3>1, <1>1, <1>2, <1>3, Times DEF ClocksRight, Ages
  <2>4. z.st = "person" /\ z.pinged # None =>
       /\ z.last = z.pinged + PingFreq
       /\ z.heard > z.last /\ z.heard <= z.last + CheckEvery
       /\ z.pinged + (np - 1) <= PingFreq + CheckEvery
    <3> SUFFICES ASSUME z.st = "person", z.pinged # None
                 PROVE  /\ z.last = z.pinged + PingFreq
                        /\ z.heard > z.last /\ z.heard <= z.last + CheckEvery
                        /\ z.pinged + (np - 1) <= PingFreq + CheckEvery
      OBVIOUS
    <3>1. /\ x.last = x.pinged + PingFreq
          /\ x.heard > x.last /\ x.heard <= x.last + CheckEvery
          /\ x.pinged + np <= PingFreq + CheckEvery /\ x.pinged \in Ages
      BY <1>2, <1>3 DEF ClocksRight
    <3>2. x.heard < AgeCap /\ x.last < AgeCap /\ x.pinged < AgeCap
      BY <3>1, <1>2, Times DEF Ages
    <3> QED BY <3>1, <3>2, <1>1, <1>2, <1>3, Times DEF Ages
  <2> QED BY <2>1, <2>2, <2>3, <2>4 DEF ClocksRight
<1> QED BY <1>3, <1>4, <1>5 DEF z

\* check_pings goes on with a client it does not end.
LEMMA CheckedGood ==
  ASSUME NEW x \in Conns, FlagsRight(x), ClocksRight(x, 0), ~ Drops(x)
  PROVE  LET z == Checked(x)
         IN  z \in Conns /\ FlagsRight(z) /\ ClocksRight(z, CheckEvery) /\ z.st = x.st
<1> DEFINE z == Checked(x)
<1>1. /\ x.first \in Nat /\ x.since \in Nat /\ x.last \in Nat /\ x.heard \in Nat
      /\ x.pinged \in Nat \cup {None} /\ x.st \in {"unknown", "person"}
      /\ x.dns \in BOOLEAN /\ x.auth \in BOOLEAN
  BY Fields, Times DEF Ages
<1>2. /\ ping(x) = IF x.st = "person" THEN PingFreq ELSE ConnectTimeout
      /\ ping(x) \in Ages /\ ping(x) \in Nat
  BY Times DEF ping, Ages
<1>a. /\ Late(x) => x.dns \/ x.auth
      /\ ~ Late(x) => ~ (x.st = "unknown" /\ x.first > UnknownTime)
  BY DEF Drops
<1>b. 0 \in Ages
  BY Times DEF Ages
<1>3. CASE Late(x)
  <2> DEFINE y == [x EXCEPT !.dns = FALSE, !.auth = FALSE, !.since = 0]
  <2>1. x.dns \/ x.auth
    BY <1>3, <1>a
  <2>2. z = check_client_fd(y)
    BY <1>3 DEF Checked, lookups_over
  <2>3. /\ y \in Conns /\ ~ y.dns /\ ~ y.auth /\ y.reads = x.reads /\ y.st = x.st
        /\ y.nick = x.nick /\ y.user = x.user /\ y.first = x.first
    BY <1>b DEF Conns
  <2> HIDE DEF y
  <2>4. /\ z \in Conns /\ FlagsRight(z) /\ z.st = x.st /\ z.first = x.first
        /\ ~ z.dns /\ ~ z.auth
    BY <2>2, <2>3, LookupsEnd
  <2>5. x.st = "unknown" /\ x.first <= ConnectTimeout + CheckEvery
    BY <2>1, <1>1 DEF FlagsRight, ClocksRight
  <2>6. ClocksRight(z, CheckEvery)
    BY <2>4, <2>5, <1>1, Times DEF ClocksRight
  <2> QED BY <2>4, <2>6
<1>4. CASE ~ Late(x) /\ Silent(x) /\ x.pinged = None
  <2>1. z = pinged(x)
    BY <1>4 DEF Checked
  <2>2. /\ z \in Conns /\ z.pinged = 0 /\ z.last = ping(x) /\ z.st = x.st
        /\ z.first = x.first /\ z.since = x.since /\ z.heard = x.heard
        /\ z.dns = x.dns /\ z.auth = x.auth /\ z.reads = x.reads
        /\ z.nick = x.nick /\ z.user = x.user
    <3>1. z = [x EXCEPT !.pinged = 0, !.last = ping(x)]
      BY <2>1 DEF pinged
    <3> HIDE DEF z
    <3> QED BY <3>1, <1>2, <1>b DEF Conns
  <2>3. FlagsRight(z)
    BY <2>2 DEF FlagsRight
  <2>4. ~ (x.dns \/ x.auth)
    <3> SUFFICES ASSUME x.dns \/ x.auth PROVE FALSE
      OBVIOUS
    <3>1. x.st = "unknown" /\ x.since = x.first /\ x.last = x.first
      BY <1>1 DEF FlagsRight, ClocksRight
    <3> QED BY <3>1, <1>1, <1>2, <1>4, Times DEF Late, Silent
  <2>5. x.st = "unknown" => x.first <= UnknownTime
    BY <1>1, <1>4, <1>a, Times
  <2>6. x.st = "person" => x.last = x.heard /\ x.heard <= PingFreq + CheckEvery /\ x.last > PingFreq
    BY <1>1, <1>2, <1>4 DEF ClocksRight, Silent
  <2>7. 0 # None
    BY NoneAssumption
  <2> HIDE DEF z
  <2>8. ClocksRight(z, CheckEvery)
    BY <2>2, <2>4, <2>5, <2>6, <2>7, <1>1, <1>2, Times DEF ClocksRight
  <2> QED BY <2>2, <2>3, <2>8 DEF z
<1>5. CASE ~ Late(x) /\ ~ (Silent(x) /\ x.pinged = None)
  <2>1. z = x
    BY <1>5 DEF Checked
  <2>2. x.st = "unknown" => x.first <= UnknownTime
    BY <1>1, <1>5, <1>a, Times
  <2>3. x.dns \/ x.auth => x.first <= ConnectTimeout
    <3> SUFFICES ASSUME x.dns \/ x.auth PROVE x.first <= ConnectTimeout
      OBVIOUS
    <3>1. x.st = "unknown" /\ x.since = x.first /\ x.last = x.first
      BY <1>1 DEF FlagsRight, ClocksRight
    <3> QED BY <3>1, <1>1, <1>2, <1>5, Times DEF Late, Silent
  <2>4. x.st = "person" /\ x.pinged = None => x.heard <= PingFreq
    BY <1>1, <1>2, <1>5, Times DEF ClocksRight, Late, Silent
  <2>5. x.st = "person" /\ x.pinged # None => x.pinged <= PingFreq
    BY <1>1, <1>2, <1>5, Times DEF ClocksRight, Late, Silent
  <2>6. ClocksRight(x, CheckEvery)
    <3>1. x.st = "unknown" => x.first + CheckEvery <= UnknownTime + CheckEvery
      BY <2>2, <1>1, Times
    <3>2. x.dns \/ x.auth => /\ x.since = x.first /\ x.last = x.first
                             /\ x.first + CheckEvery <= ConnectTimeout + CheckEvery
      BY <2>3, <1>1, Times DEF ClocksRight
    <3>3. x.st = "person" /\ x.pinged = None =>
            x.last = x.heard /\ x.heard + CheckEvery <= PingFreq + CheckEvery
      BY <2>4, <1>1, Times DEF ClocksRight
    <3>4. x.st = "person" /\ x.pinged # None =>
            /\ x.last = x.pinged + PingFreq
            /\ x.heard > x.last /\ x.heard <= x.last + CheckEvery
            /\ x.pinged + CheckEvery <= PingFreq + CheckEvery
      BY <2>5, <1>1, Times DEF ClocksRight
    <3> QED BY <3>1, <3>2, <3>3, <3>4 DEF ClocksRight
  <2> QED BY <2>1, <2>6
<1> QED BY <1>3, <1>4, <1>5

----------------------------------------------------------------------------
(* The counters.                                                           *)

\* The connections of each kind can be counted.
LEMMA Countable ==
  ASSUME NEW f
  PROVE  /\ IsFiniteSet(Unknown(f)) /\ Cardinality(Unknown(f)) \in Nat
         /\ IsFiniteSet(Known(f)) /\ Cardinality(Known(f)) \in Nat
<1>1. Unknown(f) \in SUBSET Comers /\ Known(f) \in SUBSET Comers /\ IsFiniteSet(Comers)
  BY SignOnAssumption DEF Unknown, Known
<1> QED BY <1>1, FS_Subset, FS_CardinalityType

\* exit_client for the clients of a set: what `without' leaves.
LEMMA GoneCounted ==
  ASSUME NEW f, NEW g, NEW cs \in SUBSET Comers, NEW n,
         \A c \in cs : f[c] # None /\ g[c] = None,
         \A c \in Comers \ cs : (g[c] = None <=> f[c] = None) /\ g[c].st = f[c].st,
         n = [unknown |-> Cardinality(Unknown(f)), local |-> Cardinality(Known(f))]
  PROVE  without(n, f, cs) = [unknown |-> Cardinality(Unknown(g)), local |-> Cardinality(Known(g))]
<1> DEFINE U == {c \in cs : f[c].st = "unknown"}
           K == {c \in cs : f[c].st = "person"}
<1>1. Unknown(g) = Unknown(f) \ U /\ Unknown(f) \cap U = U
  BY DEF Unknown
<1>2. Known(g) = Known(f) \ K /\ Known(f) \cap K = K
  BY DEF Known
<1>3. Cardinality(Unknown(g)) = Cardinality(Unknown(f)) - Cardinality(U)
  <2>1. Cardinality(Unknown(f) \ U) = Cardinality(Unknown(f)) - Cardinality(Unknown(f) \cap U)
    BY Countable, FS_Difference
  <2> QED BY <1>1, <2>1
<1>4. Cardinality(Known(g)) = Cardinality(Known(f)) - Cardinality(K)
  <2>1. Cardinality(Known(f) \ K) = Cardinality(Known(f)) - Cardinality(Known(f) \cap K)
    BY Countable, FS_Difference
  <2> QED BY <1>2, <2>1
<1> QED BY <1>3, <1>4 DEF without

\* A step that changes the connection of c, and not what kind it is.
LEMMA OneChanges ==
  ASSUME SignInv, NEW c \in Live, NEW x \in Conns, FlagsRight(x), ClocksRight(x, nextping),
         x.st = sock[c].st, sock' = [sock EXCEPT ![c] = x], UNCHANGED <<count, nextping>>
  PROVE  SignInv'
<1>1. sock' \in [Comers -> Conns \cup {None}] /\ \A d \in Comers \ {c} : sock'[d] = sock[d]
  BY DEF SignInv, SignTypeOK, Live
<1>2. sock'[c] = x /\ x # None /\ c \in Comers /\ sock[c] # None
  BY Fields DEF SignInv, SignTypeOK, Live
<1>3. Unknown(sock') = Unknown(sock) /\ Known(sock') = Known(sock)
  BY <1>1, <1>2 DEF Unknown, Known
<1>4. \A d \in Live' : FlagsRight(sock'[d]) /\ ClocksRight(sock'[d], nextping')
  BY <1>1, <1>2 DEF SignInv, Live
<1> QED BY <1>1, <1>3, <1>4 DEF SignInv, SignTypeOK, CountsRight

\* The counters as a record of cardinalities.
LEMMA CountRecord ==
  ASSUME SignInv
  PROVE  count = [unknown |-> Cardinality(Unknown(sock)), local |-> Cardinality(Known(sock))]
BY DEF SignInv, SignTypeOK, CountsRight

\* A client exits.
LEMMA ExitGood ==
  ASSUME SignInv, NEW c \in Live, exit_sock(c), UNCHANGED nextping
  PROVE  SignInv'
<1>1. sock' \in [Comers -> Conns \cup {None}] /\ \A d \in Comers \ {c} : sock'[d] = sock[d]
  BY DEF SignInv, SignTypeOK, Live, exit_sock
<1>2. sock'[c] = None /\ sock[c] # None /\ c \in Comers
  BY DEF SignInv, SignTypeOK, Live, exit_sock
<1>3. count' = [unknown |-> Cardinality(Unknown(sock')), local |-> Cardinality(Known(sock'))]
  <2>1. count' = without(count, sock, {c})
    BY DEF exit_sock
  <2> QED BY <1>1, <1>2, <2>1, CountRecord, GoneCounted
<1>4. \A d \in Live' : FlagsRight(sock'[d]) /\ ClocksRight(sock'[d], nextping')
  BY <1>1, <1>2 DEF SignInv, Live
<1>5. count' \in [unknown : Int, local : Int] /\ CountsRight'
  BY <1>3, Countable DEF CountsRight
<1> QED BY <1>1, <1>4, <1>5 DEF SignInv, SignTypeOK

\* register_user lets a client in.
LEMMA LetIn ==
  ASSUME SignInv, NEW c \in Live, NEW x \in Conns, FlagsRight(x), ClocksRight(x, nextping),
         sock[c].st = "unknown", x.st = "person", sock' = [sock EXCEPT ![c] = x],
         count' = [unknown |-> count.unknown - 1, local |-> count.local + 1],
         UNCHANGED nextping
  PROVE  SignInv'
<1>1. sock' \in [Comers -> Conns \cup {None}] /\ \A d \in Comers \ {c} : sock'[d] = sock[d]
  BY DEF SignInv, SignTypeOK, Live
<1>2. sock'[c] = x /\ x # None /\ c \in Comers /\ sock[c] # None
  BY Fields DEF SignInv, SignTypeOK, Live
<1>3. Unknown(sock') = Unknown(sock) \ {c} /\ c \in Unknown(sock)
  BY <1>1, <1>2 DEF Unknown
<1>4. Known(sock') = Known(sock) \cup {c} /\ c \notin Known(sock)
  BY <1>1, <1>2 DEF Known
<1>5. Cardinality(Unknown(sock')) = Cardinality(Unknown(sock)) - 1
  BY <1>3, Countable, FS_RemoveElement, ZenonT(40)
<1>6. Cardinality(Known(sock')) = Cardinality(Known(sock)) + 1
  BY <1>4, Countable, FS_AddElement
<1>7. \A d \in Live' : FlagsRight(sock'[d]) /\ ClocksRight(sock'[d], nextping')
  BY <1>1, <1>2 DEF SignInv, Live
<1>8. count' \in [unknown : Int, local : Int] /\ CountsRight'
  <2>1. count.unknown = Cardinality(Unknown(sock)) /\ count.local = Cardinality(Known(sock))
    BY DEF SignInv, CountsRight
  <2> QED BY <2>1, <1>5, <1>6, Countable DEF CountsRight
<1> QED BY <1>1, <1>7, <1>8 DEF SignInv, SignTypeOK

\* The NICK, or the USER, of a connection that is read from: x is what it leaves.
LEMMA NickUser ==
  ASSUME SignInv, NEW c \in Live, sock[c].reads, sock[c].st = "unknown", NEW x \in Conns,
         x.st = "unknown", x.dns = sock[c].dns, x.auth = sock[c].auth, x.reads = sock[c].reads,
         x.first = sock[c].first, x.last = 0, x.heard = 0, x.pinged = None,
         x.nick = sock[c].nick \/ x.user = sock[c].user,
         IF x.nick /\ x.user THEN register_sock(c, x)
         ELSE sock' = [sock EXCEPT ![c] = x] /\ UNCHANGED count,
         UNCHANGED nextping
  PROVE  SignInv'
<1>1. /\ sock[c] \in Conns /\ FlagsRight(sock[c]) /\ ClocksRight(sock[c], nextping)
      /\ nextping \in 0 .. CheckEvery
  BY DEF SignInv, SignTypeOK, Live
<1>2. ~ x.dns /\ ~ x.auth /\ x.reads
  BY <1>1 DEF FlagsRight
<1>3. CASE ~ (x.nick /\ x.user)
  <2>1. FlagsRight(x)
    BY <1>2, <1>3 DEF FlagsRight
  <2>2. ClocksRight(x, nextping)
    BY <1>1, <1>2, HeardClocks
  <2> QED BY <1>3, <2>1, <2>2, OneChanges
<1>4. CASE x.nick /\ x.user
  <2> DEFINE y == [x EXCEPT !.st = "person"]
  <2>1. /\ y \in Conns /\ y.st = "person" /\ y.dns = x.dns /\ y.auth = x.auth
        /\ y.reads = x.reads /\ y.first = x.first /\ y.last = 0 /\ y.heard = 0
        /\ y.pinged = None /\ y.nick = x.nick /\ y.user = x.user
    BY DEF Conns
  <2> HIDE DEF y
  <2>2. FlagsRight(y)
    BY <1>2, <1>4, <2>1 DEF FlagsRight
  <2>3. ClocksRight(y, nextping)
    BY <1>1, <1>2, <2>1, HeardClocks
  <2>4. CASE /\ sock' = [sock EXCEPT ![c] = y]
             /\ count' = [unknown |-> count.unknown - 1, local |-> count.local + 1]
    BY <2>1, <2>2, <2>3, <2>4, LetIn
  <2>5. CASE refused(c)
    BY <2>5, ExitGood DEF refused
  <2> QED BY <1>4, <2>4, <2>5 DEF register_sock, y
<1> QED BY <1>3, <1>4

\* check_pings as a whole.
LEMMA PingsChecked ==
  ASSUME SignInv, check_pings
  PROVE  SignInv'
<1> DEFINE gone == {c \in Live : Drops(sock[c])}
<1>1. /\ nextping = 0 /\ nextping' = CheckEvery /\ count' = without(count, sock, gone)
      /\ sock' = [c \in Comers |-> IF c \notin Live \/ c \in gone THEN None ELSE Checked(sock[c])]
  BY DEF check_pings
<1>2. \A c \in Live : sock[c] \in Conns /\ FlagsRight(sock[c]) /\ ClocksRight(sock[c], 0)
  BY <1>1 DEF SignInv, SignTypeOK, Live
<1>3. \A c \in Live \ gone :
        /\ Checked(sock[c]) \in Conns /\ FlagsRight(Checked(sock[c]))
        /\ ClocksRight(Checked(sock[c]), CheckEvery) /\ Checked(sock[c]).st = sock[c].st
  BY <1>2, CheckedGood
<1> HIDE DEF gone
<1>4. gone \subseteq Live /\ Live \subseteq Comers
  BY DEF gone, Live
<1>5. \A c \in Comers : /\ c \in gone \/ c \notin Live => sock'[c] = None
                        /\ c \in Live \ gone => sock'[c] = Checked(sock[c])
                        /\ (c \notin Live => sock[c] = None)
                        /\ (c \in Live => sock[c] # None)
  BY <1>1 DEF Live
<1>6. \A c \in Live \ gone : sock'[c] \in Conns /\ sock'[c] # None /\ sock'[c].st = sock[c].st
  BY <1>3, <1>4, <1>5, NoneAssumption
<1>7. sock' \in [Comers -> Conns \cup {None}]
  <2>1. \A c \in Comers : (IF c \notin Live \/ c \in gone THEN None ELSE Checked(sock[c]))
                            \in Conns \cup {None}
    BY <1>3
  <2> QED BY <1>1, <2>1
<1>8. count' = [unknown |-> Cardinality(Unknown(sock')), local |-> Cardinality(Known(sock'))]
  <2>1. gone \in SUBSET Comers /\ \A c \in gone : sock[c] # None /\ sock'[c] = None
    BY <1>4, <1>5
  <2>2. \A c \in Comers \ gone : (sock'[c] = None <=> sock[c] = None) /\ sock'[c].st = sock[c].st
    BY <1>5, <1>6
  <2>3. count' = without(count, sock, gone)
    BY <1>1
  <2> QED BY <2>1, <2>2, <2>3, CountRecord, GoneCounted
<1>9. count' \in [unknown : Int, local : Int] /\ CountsRight'
  BY <1>8, Countable DEF CountsRight
<1>10. \A c \in Live' : FlagsRight(sock'[c]) /\ ClocksRight(sock'[c], nextping')
  <2>1. \A c \in Live' : c \in Live \ gone
    BY <1>5 DEF Live
  <2> QED BY <1>1, <1>3, <1>4, <1>5, <2>1
<1> QED BY <1>1, <1>7, <1>9, <1>10, Times DEF SignInv, SignTypeOK

\* A second passes for everybody.
LEMMA SecondPasses ==
  ASSUME SignInv, second
  PROVE  SignInv'
<1> DEFINE aged(x) == [x EXCEPT !.first = older(@), !.since = older(@), !.last = older(@),
                                !.heard = older(@),
                                !.pinged = IF @ = None THEN None ELSE older(@)]
<1>1. /\ nextping > 0 /\ nextping' = nextping - 1 /\ count' = count
      /\ sock' = [c \in Comers |-> IF sock[c] = None THEN None ELSE aged(sock[c])]
  BY DEF second
<1>2. nextping \in 1 .. CheckEvery /\ nextping' \in 0 .. CheckEvery
  <2>1. nextping > 0 /\ nextping' = nextping - 1 /\ nextping \in 0 .. CheckEvery
    BY <1>1 DEF SignInv, SignTypeOK
  <2> QED BY <2>1, Times
<1>3. \A c \in Live : sock[c] \in Conns /\ FlagsRight(sock[c]) /\ ClocksRight(sock[c], nextping)
  BY DEF SignInv, SignTypeOK, Live
<1>4. \A c \in Live : /\ aged(sock[c]) \in Conns /\ FlagsRight(aged(sock[c]))
                      /\ ClocksRight(aged(sock[c]), nextping - 1)
                      /\ aged(sock[c]).st = sock[c].st
  BY <1>2, <1>3, OlderGood
<1> HIDE DEF aged
<1>5. \A c \in Comers : /\ c \notin Live => sock[c] = None /\ sock'[c] = None
                        /\ c \in Live => sock[c] # None /\ sock'[c] = aged(sock[c])
  BY <1>1 DEF Live
<1>6. \A c \in Live : sock'[c] \in Conns /\ sock'[c] # None /\ sock'[c].st = sock[c].st
  BY <1>4, <1>5, NoneAssumption DEF Live
<1>7. sock' \in [Comers -> Conns \cup {None}]
  <2>1. \A c \in Comers : (IF sock[c] = None THEN None ELSE aged(sock[c])) \in Conns \cup {None}
    BY <1>4 DEF Live
  <2> QED BY <1>1, <2>1
<1>8. Unknown(sock') = Unknown(sock) /\ Known(sock') = Known(sock)
  BY <1>5, <1>6 DEF Unknown, Known
<1>9. \A c \in Live' : FlagsRight(sock'[c]) /\ ClocksRight(sock'[c], nextping')
  <2>1. \A c \in Live' : c \in Live
    BY <1>5 DEF Live
  <2> QED BY <1>1, <1>4, <1>5, <2>1 DEF Live
<1> QED BY <1>1, <1>2, <1>7, <1>8, <1>9 DEF SignInv, SignTypeOK, CountsRight

LEMMA SignInitInv == SignInit => SignInv
<1> SUFFICES ASSUME SignInit PROVE SignInv
  OBVIOUS
<1>1. Live = {} /\ Unknown(sock) = {} /\ Known(sock) = {}
  BY DEF SignInit, Live, Unknown, Known
<1>2. SignTypeOK
  BY Times DEF SignInit, SignTypeOK
<1>3. CountsRight
  BY <1>1, FS_EmptySet DEF SignInit, CountsRight
<1> QED BY <1>1, <1>2, <1>3 DEF SignInv

LEMMA SignStep == SignInv /\ [SignNext]_signVars => SignInv'
<1> SUFFICES ASSUME SignInv, [SignNext]_signVars PROVE SignInv'
  OBVIOUS
<1>a. \A c \in Live : /\ c \in Comers /\ sock[c] \in Conns /\ FlagsRight(sock[c])
                      /\ ClocksRight(sock[c], nextping)
  BY DEF SignInv, SignTypeOK, Live
<1>b. nextping \in 0 .. CheckEvery
  BY DEF SignInv, SignTypeOK
<1>1. CASE check_pings
  BY <1>1, PingsChecked
<1>2. CASE second
  BY <1>2, SecondPasses
<1>3. ASSUME NEW c \in Comers, NEW dns \in BOOLEAN, NEW auth \in BOOLEAN,
             add_connection(c, dns, auth)
      PROVE  SignInv'
  <2> DEFINE x == check_client_fd([NewConn EXCEPT !.dns = dns, !.auth = auth, !.wrauth = auth])
  <2>1. x \in Conns /\ FlagsRight(x) /\ ClocksRight(x, nextping) /\ x.st = "unknown"
    BY <1>b, NewGood
  <2>2. /\ sock[c] = None /\ sock' = [sock EXCEPT ![c] = x] /\ nextping' = nextping
        /\ count' = [count EXCEPT !.unknown = @ + 1]
    BY <1>3 DEF add_connection
  <2> HIDE DEF x
  <2>3. sock' \in [Comers -> Conns \cup {None}] /\ \A d \in Comers \ {c} : sock'[d] = sock[d]
    BY <2>1, <2>2 DEF SignInv, SignTypeOK
  <2>4. sock'[c] = x /\ x # None
    BY <2>1, <2>2, Fields DEF SignInv, SignTypeOK
  <2>5. /\ Unknown(sock') = Unknown(sock) \cup {c} /\ c \notin Unknown(sock)
        /\ Known(sock') = Known(sock)
    BY <2>1, <2>2, <2>3, <2>4 DEF Unknown, Known
  <2>6. Cardinality(Unknown(sock')) = Cardinality(Unknown(sock)) + 1
    BY <2>5, Countable, FS_AddElement
  <2>7. count' \in [unknown : Int, local : Int] /\ CountsRight'
    <3>1. /\ count.unknown = Cardinality(Unknown(sock)) /\ count.local = Cardinality(Known(sock))
          /\ count \in [unknown : Int, local : Int]
      BY DEF SignInv, SignTypeOK, CountsRight
    <3>2. count'.unknown = count.unknown + 1 /\ count'.local = count.local
          /\ count' \in [unknown : Int, local : Int]
      BY <2>2, <3>1
    <3> QED BY <3>1, <3>2, <2>5, <2>6 DEF CountsRight
  <2>8. \A d \in Live' : FlagsRight(sock'[d]) /\ ClocksRight(sock'[d], nextping')
    BY <1>a, <2>1, <2>2, <2>3, <2>4 DEF Live
  <2> QED BY <1>b, <2>2, <2>3, <2>7, <2>8 DEF SignInv, SignTypeOK
<1>4. ASSUME NEW c \in Comers, hang_up(c) PROVE SignInv'
  BY <1>4, ExitGood DEF hang_up, Live
<1>5. ASSUME NEW c \in Comers, dead_sock(c) PROVE SignInv'
  <2> DEFINE x == [sock[c] EXCEPT !.dead = TRUE]
  <2>1. c \in Live /\ sock' = [sock EXCEPT ![c] = x] /\ UNCHANGED <<count, nextping>>
    BY <1>5 DEF dead_sock, Live
  <2>2. /\ x \in Conns /\ x.st = sock[c].st /\ x.first = sock[c].first
        /\ x.since = sock[c].since /\ x.last = sock[c].last /\ x.heard = sock[c].heard
        /\ x.pinged = sock[c].pinged /\ x.dns = sock[c].dns /\ x.auth = sock[c].auth
        /\ x.reads = sock[c].reads /\ x.nick = sock[c].nick /\ x.user = sock[c].user
    BY <1>a, <2>1 DEF Conns
  <2> HIDE DEF x
  <2>3. FlagsRight(x)
    BY <1>a, <2>1, <2>2 DEF FlagsRight
  <2>4. ClocksRight(x, nextping)
    BY <1>a, <2>1, <2>2, SameClocks
  <2> QED BY <2>1, <2>2, <2>3, <2>4, OneChanges
<1>6. ASSUME NEW c \in Live, NEW y \in Conns, change(c, check_client_fd(y)),
             y.dns => sock[c].dns, y.auth => sock[c].auth, y.reads = sock[c].reads,
             y.st = sock[c].st, y.nick = sock[c].nick, y.user = sock[c].user,
             y.first = sock[c].first, y.since = sock[c].since, y.last = sock[c].last,
             y.heard = sock[c].heard, y.pinged = sock[c].pinged
      PROVE  SignInv'
  <2> DEFINE z == check_client_fd(y)
  <2>1. /\ z \in Conns /\ FlagsRight(z) /\ z.st = sock[c].st
        /\ z.first = y.first /\ z.since = y.since /\ z.last = y.last
        /\ z.heard = y.heard /\ z.pinged = y.pinged /\ z.dns = y.dns /\ z.auth = y.auth
    BY <1>a, <1>6, LookupsEnd
  <2>2. sock' = [sock EXCEPT ![c] = z] /\ UNCHANGED <<count, nextping>>
    BY <1>6 DEF change
  <2> HIDE DEF z
  <2>3. ClocksRight(z, nextping)
    BY <1>a, <1>6, <2>1, SameClocks
  <2> QED BY <2>1, <2>2, <2>3, OneChanges
<1>7. ASSUME NEW c \in Comers, dns_done(c) PROVE SignInv'
  <2> DEFINE y == [sock[c] EXCEPT !.dns = FALSE]
  <2>1. c \in Live /\ change(c, check_client_fd(y))
    BY <1>7 DEF dns_done, Live
  <2>2. /\ y \in Conns /\ ~ y.dns /\ y.auth = sock[c].auth /\ y.reads = sock[c].reads
        /\ y.st = sock[c].st /\ y.nick = sock[c].nick /\ y.user = sock[c].user
        /\ y.first = sock[c].first /\ y.since = sock[c].since /\ y.last = sock[c].last
        /\ y.heard = sock[c].heard /\ y.pinged = sock[c].pinged
    BY <1>a, <2>1 DEF Conns
  <2> HIDE DEF y
  <2> QED BY <2>1, <2>2, <1>6
<1>8. ASSUME NEW c \in Comers, read_authports(c) PROVE SignInv'
  <2> DEFINE y == [sock[c] EXCEPT !.auth = FALSE]
  <2>1. c \in Live /\ change(c, check_client_fd(y))
    BY <1>8 DEF read_authports, Live
  <2>2. /\ y \in Conns /\ ~ y.auth /\ y.dns = sock[c].dns /\ y.reads = sock[c].reads
        /\ y.st = sock[c].st /\ y.nick = sock[c].nick /\ y.user = sock[c].user
        /\ y.first = sock[c].first /\ y.since = sock[c].since /\ y.last = sock[c].last
        /\ y.heard = sock[c].heard /\ y.pinged = sock[c].pinged
    BY <1>a, <2>1 DEF Conns
  <2> HIDE DEF y
  <2> QED BY <2>1, <2>2, <1>6
<1>9. ASSUME NEW c \in Comers, NEW sent \in BOOLEAN, send_authports(c, sent) PROVE SignInv'
  <2> DEFINE y == [sock[c] EXCEPT !.wrauth = FALSE, !.auth = sent]
  <2>1. c \in Live /\ change(c, check_client_fd(y)) /\ sock[c].auth
    BY <1>9 DEF send_authports, Live
  <2>2. /\ y \in Conns /\ y.dns = sock[c].dns /\ y.reads = sock[c].reads
        /\ y.st = sock[c].st /\ y.nick = sock[c].nick /\ y.user = sock[c].user
        /\ y.first = sock[c].first /\ y.since = sock[c].since /\ y.last = sock[c].last
        /\ y.heard = sock[c].heard /\ y.pinged = sock[c].pinged
    BY <1>a, <2>1 DEF Conns
  <2> HIDE DEF y
  <2> QED BY <2>1, <2>2, <1>6
<1>10. ASSUME NEW c \in Comers, m_nick_sock(c) PROVE SignInv'
  <2> DEFINE x == [heard(sock[c]) EXCEPT !.nick = TRUE]
  <2>1. /\ c \in Live /\ sock[c].reads /\ sock[c].st = "unknown" /\ UNCHANGED nextping
        /\ IF x.user THEN register_sock(c, x)
           ELSE sock' = [sock EXCEPT ![c] = x] /\ UNCHANGED count
    BY <1>10 DEF m_nick_sock, Live
  <2>2. /\ x \in Conns /\ x.nick = TRUE /\ x.user = sock[c].user /\ x.st = sock[c].st
        /\ x.dns = sock[c].dns /\ x.auth = sock[c].auth /\ x.reads = sock[c].reads
        /\ x.first = sock[c].first /\ x.last = 0 /\ x.heard = 0 /\ x.pinged = None
    <3> DEFINE h == heard(sock[c])
    <3>1. /\ h \in Conns /\ h.first = sock[c].first /\ h.last = 0 /\ h.heard = 0
          /\ h.pinged = None /\ h.dns = sock[c].dns /\ h.auth = sock[c].auth
          /\ h.reads = sock[c].reads /\ h.st = sock[c].st /\ h.user = sock[c].user
      BY <1>a, <2>1, HeardFields
    <3> HIDE DEF h
    <3>2. [h EXCEPT !.nick = TRUE] \in Conns
      BY <3>1 DEF Conns
    <3> QED BY <3>1, <3>2 DEF Conns, h
  <2> HIDE DEF x
  <2> QED BY <2>1, <2>2, NickUser
<1>11. ASSUME NEW c \in Comers, m_user_sock(c) PROVE SignInv'
  <2> DEFINE x == [heard(sock[c]) EXCEPT !.user = TRUE]
  <2>1. /\ c \in Live /\ sock[c].reads /\ sock[c].st = "unknown" /\ UNCHANGED nextping
        /\ IF x.nick THEN register_sock(c, x)
           ELSE sock' = [sock EXCEPT ![c] = x] /\ UNCHANGED count
    BY <1>11 DEF m_user_sock, Live
  <2>2. /\ x \in Conns /\ x.user = TRUE /\ x.nick = sock[c].nick /\ x.st = sock[c].st
        /\ x.dns = sock[c].dns /\ x.auth = sock[c].auth /\ x.reads = sock[c].reads
        /\ x.first = sock[c].first /\ x.last = 0 /\ x.heard = 0 /\ x.pinged = None
    <3> DEFINE h == heard(sock[c])
    <3>1. /\ h \in Conns /\ h.first = sock[c].first /\ h.last = 0 /\ h.heard = 0
          /\ h.pinged = None /\ h.dns = sock[c].dns /\ h.auth = sock[c].auth
          /\ h.reads = sock[c].reads /\ h.st = sock[c].st /\ h.nick = sock[c].nick
      BY <1>a, <2>1, HeardFields
    <3> HIDE DEF h
    <3>2. [h EXCEPT !.user = TRUE] \in Conns
      BY <3>1 DEF Conns
    <3> QED BY <3>1, <3>2 DEF Conns, h
  <2> HIDE DEF x
  <2> QED BY <2>1, <2>2, NickUser
<1>12. ASSUME NEW c \in Comers, other_line(c) PROVE SignInv'
  <2> DEFINE z == heard(sock[c])
  <2>1. /\ c \in Live /\ sock[c].reads /\ sock' = [sock EXCEPT ![c] = z]
        /\ UNCHANGED <<count, nextping>>
    BY <1>12 DEF other_line, change, Live
  <2>2. /\ z \in Conns /\ z.first = sock[c].first /\ z.last = 0 /\ z.heard = 0
        /\ z.pinged = None /\ z.dns = sock[c].dns /\ z.auth = sock[c].auth
        /\ z.reads = sock[c].reads /\ z.st = sock[c].st
        /\ z.nick = sock[c].nick /\ z.user = sock[c].user
    BY <1>a, <2>1, HeardFields
  <2> HIDE DEF z
  <2>3. FlagsRight(z)
    BY <1>a, <2>1, <2>2 DEF FlagsRight
  <2>4. ClocksRight(z, nextping)
    BY <1>a, <1>b, <2>1, <2>2, HeardClocks DEF FlagsRight
  <2> QED BY <2>1, <2>2, <2>3, <2>4, OneChanges
<1>13. CASE UNCHANGED signVars
  BY <1>13 DEF signVars, SignInv, SignTypeOK, CountsRight, Live
<1> QED
  BY <1>1, <1>2, <1>3, <1>4, <1>5, <1>7, <1>8, <1>9, <1>10, <1>11, <1>12, <1>13 DEF SignNext

LEMMA SignInvHolds == SignSpec => []SignInv
BY SignInitInv, SignStep, PTL DEF SignSpec

\* Connections are read from exactly when no lookup is under way, those that
\* sent NICK and USER are registered, and Count.unknown and Count.local are the
\* numbers of connections of each kind (add_connection, check_client_fd,
\* register_user, exit_client, check_pings).
THEOREM SignOnAlwaysRight == SignSpec => []SignOnRight
<1>1. SignInv => SignOnRight
  <2> SUFFICES ASSUME SignInv PROVE SignOnRight
    OBVIOUS
  <2>1. /\ Unknown(sock) = {c \in Live : sock[c].st = "unknown"}
        /\ Known(sock) = {c \in Live : sock[c].st = "person"}
    BY DEF Unknown, Known, Live
  <2> QED BY <2>1 DEF SignInv, CountsRight, FlagsRight, SignOnRight
<1> QED BY <1>1, SignInvHolds, PTL

\* No connection stays unknown or silent much longer than it may, and nobody is
\* ended by check_pings before two pings' silence and a whole one after the PING
\* (check_pings), whatever lookups, lines and dead sockets come in between.
THEOREM SignOnTimely == SignSpec => Timely
<1>1. SignInv => NotForever
  <2> SUFFICES ASSUME SignInv, NEW c \in Live
               PROVE  /\ sock[c].st = "unknown" => sock[c].first <= UnknownTime + CheckEvery + 1
                      /\ sock[c].st = "person" => sock[c].heard <= 2 * (PingFreq + CheckEvery + 1)
    BY DEF NotForever
  <2>1. sock[c] \in Conns /\ ClocksRight(sock[c], nextping) /\ nextping \in 0 .. CheckEvery
    BY DEF SignInv, SignTypeOK, Live
  <2>2. /\ sock[c].first \in Nat /\ sock[c].heard \in Nat /\ sock[c].last \in Nat
        /\ sock[c].pinged \in Nat \cup {None}
    BY <2>1, Fields, Times DEF Ages
  <2>3. CASE sock[c].st = "unknown"
    BY <2>1, <2>2, <2>3, Times DEF ClocksRight
  <2>4. CASE sock[c].st = "person" /\ sock[c].pinged = None
    BY <2>1, <2>2, <2>4, Times DEF ClocksRight
  <2>5. CASE sock[c].st = "person" /\ sock[c].pinged # None
    BY <2>1, <2>2, <2>5, Times DEF ClocksRight
  <2>6. sock[c].st \in {"unknown", "person"}
    BY <2>1, Fields
  <2> QED BY <2>3, <2>4, <2>5, <2>6
<1>2. SignInv /\ [SignNext]_signVars => [FairlyEnded]_signVars
  <2> SUFFICES ASSUME SignInv, SignNext, nextping' > nextping, NEW c \in Live,
                      sock'[c] = None, sock[c].st = "person", ~ sock[c].dead
               PROVE  /\ sock[c].pinged # None /\ sock[c].pinged >= PingFreq
                      /\ sock[c].heard > 2 * PingFreq
    BY DEF FairlyEnded
  <2>1. check_pings
    <3>1. nextping \in Nat
      BY DEF SignInv, SignTypeOK
    <3>2. ~ second
      <4>1. ASSUME second PROVE nextping' = nextping - 1
        BY <4>1, Zenon DEF second
      <4> QED BY <3>1, <4>1
    <3>3. nextping' # nextping
      BY <3>1
    <3>4. ASSUME NEW d \in Comers PROVE ~ (dns_done(d) \/ read_authports(d) \/ other_line(d))
      BY <3>3 DEF dns_done, read_authports, other_line, change
    <3>5. ASSUME NEW d \in Comers, NEW b \in BOOLEAN, NEW e \in BOOLEAN
          PROVE  ~ send_authports(d, b) /\ ~ add_connection(d, b, e)
      BY <3>3 DEF send_authports, change, add_connection
    <3>6. ASSUME NEW d \in Comers
          PROVE  ~ (hang_up(d) \/ dead_sock(d) \/ m_nick_sock(d) \/ m_user_sock(d))
      BY <3>3 DEF hang_up, dead_sock, m_nick_sock, m_user_sock
    <3> QED BY <3>2, <3>4, <3>5, <3>6 DEF SignNext
  <2>2. sock[c] \in Conns /\ FlagsRight(sock[c]) /\ ClocksRight(sock[c], nextping)
    BY DEF SignInv, SignTypeOK, Live
  <2>3. Drops(sock[c])
    <3> SUFFICES ASSUME ~ Drops(sock[c]) PROVE FALSE
      OBVIOUS
    <3>1. sock'[c] = Checked(sock[c]) /\ nextping = 0
      BY <2>1 DEF check_pings, Live
    <3>2. Checked(sock[c]) \in Conns
      BY <2>2, <3>1, CheckedGood
    <3> QED BY <3>1, <3>2, NoneAssumption
  <2>4. Late(sock[c])
    BY <2>3 DEF Drops
  <2>5. /\ sock[c].last \in Nat /\ sock[c].heard \in Nat /\ sock[c].pinged \in Nat \cup {None}
    BY <2>2, Fields, Times DEF Ages
  <2>6. sock[c].pinged # None /\ sock[c].last >= 2 * PingFreq
    BY <2>4 DEF Late, ping
  <2>7. sock[c].last = sock[c].pinged + PingFreq /\ sock[c].heard > sock[c].last
    BY <2>2, <2>6 DEF ClocksRight
  <2> QED BY <2>5, <2>6, <2>7, Times
<1> QED BY <1>1, <1>2, SignInvHolds, PTL DEF Timely, SignSpec

----------------------------------------------------------------------------
(* Clone limits.                                                           *)

\* The clients that p counts at k, those of this server, and those among them
\* that passed the default limit.
AtOf(p, k)   == {c \in Clients : /\ p[c] # None /\ p[c].ip # None
                                 /\ k \in {p[c].ip, siteOf[p[c].ip]}}
OursOf(p, k) == {c \in AtOf(p, k) : p[c].local = TRUE}
Plain(p, k)  == {c \in OursOf(p, k) : p[c].free = FALSE}

\* What an entry ce for k says of the clients p.
Counts(p, ce, k) ==
  /\ ce = None \/ ce \in CloneRecs
  /\ IsFiniteSet(AtOf(p, k))
  /\ entry(ce).gcount = Cardinality(AtOf(p, k)) /\ entry(ce).lcount + entry(ce).wrong = Cardinality(OursOf(p, k))
  /\ ce # None <=> AtOf(p, k) # {} \/ <<entry(ce).limit, entry(ce).sglimit, entry(ce).sllimit>> # <<0, 0, 0>>
  /\ k \in Addrs => Range(entry(ce).clients) = AtOf(p, k) /\ IsInjective(entry(ce).clients)

Counted(p, all) == /\ p \in [Clients -> Persons \cup {None}]
                   /\ all \in [Keys -> CloneRecs \cup {None}]
                   /\ \A k \in Keys : Counts(p, all[k], k)

\* An entry, or the one that is made when there is none.
LEMMA EntryType ==
  /\ NoClone \in CloneRecs /\ NoClone.limit = 0 /\ NoClone.sglimit = 0 /\ NoClone.sllimit = 0
  /\ NoClone.gcount = 0 /\ NoClone.lcount = 0 /\ NoClone.wrong = 0 /\ NoClone.clients = << >>
  /\ \A ce \in CloneRecs \cup {None} : entry(ce) \in CloneRecs
  /\ \A ce \in CloneRecs : entry(ce) = ce /\ ce # None
<1>1. NoClone \in CloneRecs
  BY DEF NoClone, CloneRecs
<1> QED BY <1>1, ClonesNull DEF NoClone, entry

\* The parts of an entry.
LEMMA RecFields ==
  ASSUME NEW ce \in CloneRecs
  PROVE  /\ ce.gcount \in Nat /\ ce.lcount \in Int /\ ce.wrong \in Nat /\ ce.clients \in Seq(Clients)
         /\ ce.limit \in Nat /\ ce.sglimit \in Nat /\ ce.sllimit \in Nat
BY DEF CloneRecs

\* What a client more or less at an entry does to it.
LEMMA RecMore ==
  ASSUME NEW ce \in CloneRecs, NEW here \in BOOLEAN
  PROVE  LET f == more(ce, here)
         IN  /\ f \in CloneRecs /\ f.gcount = ce.gcount + 1
             /\ here = TRUE => f.lcount = ce.lcount + 1
             /\ here # TRUE => f.lcount = ce.lcount
             /\ f.clients = ce.clients /\ f.wrong = ce.wrong /\ f.limit = ce.limit /\ f.sglimit = ce.sglimit /\ f.sllimit = ce.sllimit
<1> PICK g : g = [ce EXCEPT !.gcount = ce.gcount + 1] OBVIOUS
<1>1. /\ g \in CloneRecs /\ g.gcount = ce.gcount + 1 /\ g.lcount = ce.lcount /\ g.clients = ce.clients
      /\ g.wrong = ce.wrong /\ g.limit = ce.limit /\ g.sglimit = ce.sglimit /\ g.sllimit = ce.sllimit
  BY DEF CloneRecs
<1> PICK l : l = IF here = TRUE THEN ce.lcount + 1 ELSE ce.lcount OBVIOUS
<1>2. more(ce, here) = [g EXCEPT !.lcount = l]
  BY DEF CloneRecs, more
<1>3. l \in Int
  BY RecFields
<1> PICK f : f = [g EXCEPT !.lcount = l] OBVIOUS
<1>4. /\ f \in CloneRecs /\ f.gcount = g.gcount /\ f.lcount = l /\ f.clients = g.clients
      /\ f.wrong = g.wrong /\ f.limit = g.limit /\ f.sglimit = g.sglimit /\ f.sllimit = g.sllimit
  BY <1>1, <1>3 DEF CloneRecs
<1> QED BY <1>1, <1>2, <1>4

\* ... one less.
LEMMA RecLess ==
  ASSUME NEW ce \in CloneRecs, NEW here \in BOOLEAN, ce.gcount > 0
  PROVE  LET f == less(ce, here)
         IN  /\ f \in CloneRecs /\ f.gcount = ce.gcount - 1
             /\ here = TRUE => f.lcount = ce.lcount - 1
             /\ here # TRUE => f.lcount = ce.lcount
             /\ f.clients = ce.clients /\ f.wrong = ce.wrong /\ f.limit = ce.limit /\ f.sglimit = ce.sglimit /\ f.sllimit = ce.sllimit
<1> PICK g : g = [ce EXCEPT !.gcount = ce.gcount - 1] OBVIOUS
<1>1. /\ g \in CloneRecs /\ g.gcount = ce.gcount - 1 /\ g.lcount = ce.lcount /\ g.clients = ce.clients
      /\ g.wrong = ce.wrong /\ g.limit = ce.limit /\ g.sglimit = ce.sglimit /\ g.sllimit = ce.sllimit
  BY DEF CloneRecs
<1> PICK l : l = IF here = TRUE THEN ce.lcount - 1 ELSE ce.lcount OBVIOUS
<1>2. less(ce, here) = [g EXCEPT !.lcount = l]
  BY DEF CloneRecs, less
<1>3. l \in Int
  BY RecFields
<1> PICK f : f = [g EXCEPT !.lcount = l] OBVIOUS
<1>4. /\ f \in CloneRecs /\ f.gcount = g.gcount /\ f.lcount = l /\ f.clients = g.clients
      /\ f.wrong = g.wrong /\ f.limit = g.limit /\ f.sglimit = g.sglimit /\ f.sllimit = g.sllimit
  BY <1>1, <1>3 DEF CloneRecs
<1> QED BY <1>1, <1>2, <1>4

\* ... a client in its list.
LEMMA RecListed ==
  ASSUME NEW ce \in CloneRecs, NEW c \in Clients
  PROVE  LET f == listed(ce, c)
         IN  /\ f \in CloneRecs /\ f.gcount = ce.gcount /\ f.lcount = ce.lcount
             /\ f.clients = <<c>> \o ce.clients
             /\ f.wrong = ce.wrong /\ f.limit = ce.limit /\ f.sglimit = ce.sglimit /\ f.sllimit = ce.sllimit
<1>1. <<c>> \o ce.clients \in Seq(Clients)
  BY RecFields, PushSpec
<1> QED BY <1>1 DEF CloneRecs, listed

\* ... and out of it.
LEMMA RecUnlisted ==
  ASSUME NEW ce \in CloneRecs, IsInjective(ce.clients), NEW c \in Clients
  PROVE  LET f == unlisted(ce, c)
         IN  /\ f \in CloneRecs /\ f.gcount = ce.gcount /\ f.lcount = ce.lcount
             /\ f.clients = RemoveFirst(ce.clients, c)
             /\ f.wrong = ce.wrong /\ f.limit = ce.limit /\ f.sglimit = ce.sglimit /\ f.sllimit = ce.sllimit
<1>1. RemoveFirst(ce.clients, c) \in Seq(Clients)
  BY RecFields, RemoveFirstSpec
<1> QED BY <1>1 DEF CloneRecs, unlisted

\* No entry counts right where there is nobody.
LEMMA CountNone ==
  ASSUME NEW p, NEW k, AtOf(p, k) = {}, OursOf(p, k) = {}
  PROVE  Counts(p, None, k)
<1>1. entry(None) = NoClone
  BY DEF entry
<1>2. IsFiniteSet({}) /\ Cardinality({}) = 0
  BY FS_EmptySet
<1>3. IsFiniteSet(AtOf(p, k)) /\ Cardinality(AtOf(p, k)) = 0 /\ Cardinality(OursOf(p, k)) = 0
  BY <1>2, Zenon
<1>4. Range(<< >>) = {} /\ IsInjective(<< >>)
  BY DEF Range, IsInjective
<1>5. k \in Addrs => Range(entry(None).clients) = AtOf(p, k) /\ IsInjective(entry(None).clients)
  BY <1>1, <1>4, EntryType, Zenon
<1>6. /\ entry(None).gcount = 0 /\ entry(None).lcount = 0 /\ entry(None).wrong = 0
      /\ <<entry(None).limit, entry(None).sglimit, entry(None).sllimit>> = <<0, 0, 0>>
  BY <1>1, EntryType, Zenon
<1>7. entry(None).lcount + entry(None).wrong = 0
  BY <1>6
<1>8. /\ entry(None).gcount = Cardinality(AtOf(p, k))
      /\ entry(None).lcount + entry(None).wrong = Cardinality(OursOf(p, k))
  BY <1>3, <1>6, <1>7, Zenon
<1> QED BY <1>3, <1>5, <1>6, <1>8, Zenon DEF Counts

\* An entry goes on to count right when the client and the entry change alike.
LEMMA CountMore ==
  ASSUME NEW p, NEW q, NEW k, NEW ce, Counts(p, ce, k), NEW e, e = entry(ce), NEW c \in Clients, c \notin AtOf(p, k),
         AtOf(q, k) = AtOf(p, k) \cup {c},
         NEW f \in CloneRecs, f.gcount = e.gcount + 1, f.wrong = e.wrong,
         \/ OursOf(q, k) = OursOf(p, k) \cup {c} /\ f.lcount = e.lcount + 1
         \/ OursOf(q, k) = OursOf(p, k) /\ f.lcount = e.lcount,
         k \in Addrs => Range(f.clients) = Range(e.clients) \cup {c},
         k \in Addrs /\ IsInjective(e.clients) /\ c \notin Range(e.clients) => IsInjective(f.clients)
  PROVE  Counts(q, f, k)
<1>1. /\ IsFiniteSet(AtOf(p, k))
      /\ entry(ce).gcount = Cardinality(AtOf(p, k)) /\ entry(ce).lcount + entry(ce).wrong = Cardinality(OursOf(p, k))
      /\ k \in Addrs => Range(entry(ce).clients) = AtOf(p, k) /\ IsInjective(entry(ce).clients)
      /\ entry(ce) \in CloneRecs
  BY EntryType DEF Counts
<1>2. IsFiniteSet(OursOf(p, k)) /\ c \notin OursOf(p, k)
  <2>1. OursOf(p, k) \in SUBSET AtOf(p, k)
    BY DEF OursOf
  <2> QED BY <1>1, <2>1, FS_Subset
<1>3. IsFiniteSet(AtOf(q, k)) /\ Cardinality(AtOf(q, k)) = Cardinality(AtOf(p, k)) + 1
  BY <1>1, FS_AddElement
<1>4. Cardinality(OursOf(p, k) \cup {c}) = Cardinality(OursOf(p, k)) + 1
  BY <1>2, FS_AddElement
<1>5. k \in Addrs => Range(f.clients) = AtOf(q, k) /\ IsInjective(f.clients)
  BY <1>1
<1>6. f # None /\ entry(f) = f
  BY EntryType
<1>7. f.lcount + f.wrong = Cardinality(OursOf(q, k))
  <2>1. e.lcount \in Int /\ e.wrong \in Nat /\ e.lcount + e.wrong = Cardinality(OursOf(p, k))
    BY <1>1, RecFields
  <2>2. PICK x : x = Cardinality(OursOf(p, k))
    OBVIOUS
  <2>3. PICK y : y = Cardinality(OursOf(q, k))
    OBVIOUS
  <2>4. \/ y = x + 1 /\ f.lcount = e.lcount + 1
        \/ y = x /\ f.lcount = e.lcount
    BY <1>4, <2>2, <2>3, Zenon
  <2>5. e.lcount + e.wrong = x /\ f.wrong = e.wrong
    BY <2>1, <2>2, Zenon
  <2>6. f.lcount + f.wrong = y
    BY <2>1, <2>4, <2>5
  <2> QED BY <2>3, <2>6, Zenon
<1> QED BY <1>1, <1>3, <1>5, <1>6, <1>7 DEF Counts

\* ... and when the client goes.
LEMMA CountLess ==
  ASSUME NEW p, NEW q, NEW k, NEW ce \in CloneRecs, Counts(p, ce, k), NEW c \in Clients, c \in AtOf(p, k),
         AtOf(q, k) = AtOf(p, k) \ {c},
         NEW f \in CloneRecs, f.gcount = ce.gcount - 1, f.wrong = ce.wrong,
         \/ /\ c \in OursOf(p, k) /\ OursOf(q, k) = OursOf(p, k) \ {c}
            /\ f.lcount = ce.lcount - 1
         \/ OursOf(q, k) = OursOf(p, k) /\ f.lcount = ce.lcount,
         k \in Addrs => f.clients = RemoveFirst(ce.clients, c)
  PROVE  Counts(q, expire_clone(f), k)
<1>1. /\ IsFiniteSet(AtOf(p, k)) /\ entry(ce) = ce
      /\ ce.gcount = Cardinality(AtOf(p, k)) /\ ce.lcount + ce.wrong = Cardinality(OursOf(p, k))
      /\ k \in Addrs => Range(ce.clients) = AtOf(p, k) /\ IsInjective(ce.clients)
  BY EntryType DEF Counts
<1>2. IsFiniteSet(OursOf(p, k))
  <2>1. OursOf(p, k) \in SUBSET AtOf(p, k)
    BY DEF OursOf
  <2> QED BY <1>1, <2>1, FS_Subset
<1>3. IsFiniteSet(AtOf(q, k)) /\ Cardinality(AtOf(q, k)) = Cardinality(AtOf(p, k)) - 1
  BY <1>1, FS_RemoveElement
<1>4. c \in OursOf(p, k) => Cardinality(OursOf(p, k) \ {c}) = Cardinality(OursOf(p, k)) - 1
  BY <1>2, FS_RemoveElement
<1>5. k \in Addrs => Range(f.clients) = AtOf(q, k) /\ IsInjective(f.clients)
  BY <1>1, RecFields, RemoveFirstSpec
<1>6. f # None /\ entry(f) = f /\ f.gcount \in Nat /\ f.limit \in Nat /\ f.sglimit \in Nat /\ f.sllimit \in Nat
  BY EntryType, RecFields
<1>7. f.gcount = Cardinality(AtOf(q, k)) /\ f.lcount + f.wrong = Cardinality(OursOf(q, k))
  <2>1. ce.lcount \in Int /\ ce.wrong \in Nat /\ ce.gcount \in Nat
    BY RecFields
  <2>2. PICK x : x = Cardinality(OursOf(p, k))
    OBVIOUS
  <2>3. PICK y : y = Cardinality(OursOf(q, k))
    OBVIOUS
  <2>4. \/ y = x - 1 /\ f.lcount = ce.lcount - 1
        \/ y = x /\ f.lcount = ce.lcount
    BY <1>4, <2>2, <2>3, Zenon
  <2>5. ce.lcount + ce.wrong = x /\ f.wrong = ce.wrong
    BY <1>1, <2>2, Zenon
  <2>6. f.lcount + f.wrong = y
    BY <2>1, <2>4, <2>5
  <2>7. f.gcount = Cardinality(AtOf(q, k))
    BY <1>1, <1>3, Zenon
  <2> QED BY <2>3, <2>6, <2>7, Zenon
<1>8. f.gcount = 0 <=> AtOf(q, k) = {}
  BY <1>3, <1>7, FS_EmptySet
<1>9. CASE f.gcount = 0 /\ f.limit = 0 /\ f.sglimit = 0 /\ f.sllimit = 0
  <2>1. expire_clone(f) = None
    BY <1>9 DEF expire_clone
  <2>2. AtOf(q, k) = {} /\ OursOf(q, k) = {}
    BY <1>8, <1>9 DEF OursOf
  <2>3. Counts(q, None, k)
    BY <2>2, CountNone
  <2> QED BY <2>1, <2>3, Zenon
<1>10. CASE ~ (f.gcount = 0 /\ f.limit = 0 /\ f.sglimit = 0 /\ f.sllimit = 0)
  <2>1. expire_clone(f) = f
    BY <1>10 DEF expire_clone
  <2>2. AtOf(q, k) # {} \/ <<f.limit, f.sglimit, f.sllimit>> # <<0, 0, 0>>
    BY <1>8, <1>10
  <2> QED BY <1>3, <1>5, <1>6, <1>7, <2>1, <2>2 DEF Counts
<1> QED BY <1>9, <1>10

\* ... and when neither changes at k.
LEMMA CountSame ==
  ASSUME NEW p, NEW q, NEW k, NEW ce, Counts(p, ce, k), AtOf(q, k) = AtOf(p, k), OursOf(q, k) = OursOf(p, k)
  PROVE  Counts(q, ce, k)
BY DEF Counts

SameLimits(new, all) ==
  \A k \in Keys : /\ entry(new[k]).limit = entry(all[k]).limit
                  /\ entry(new[k]).sglimit = entry(all[k]).sglimit
                  /\ entry(new[k]).sllimit = entry(all[k]).sllimit

\* The introductions that name this server are not forgotten while an entry
\* lives.
StrayGrown(new, all) == \A k \in Keys : entry(new[k]).wrong >= entry(all[k]).wrong
StrayKept(new, all)  == \A k \in Keys : new[k] = None \/ entry(new[k]).wrong >= entry(all[k]).wrong

\* clones_add counts the client where it comes from.
LEMMA CloneAdded ==
  ASSUME NEW p, NEW all, Counted(p, all), NEW c \in Clients, p[c] = None, NEW h \in Addrs,
         NEW r \in Persons, r.ip = h
  PROVE  LET q == [p EXCEPT ![c] = r]
             new == clones_add(all, c, h, r.local)
         IN  /\ Counted(q, new)
             /\ SameLimits(new, all) /\ StrayGrown(new, all)
<1> PICK q : q = [p EXCEPT ![c] = r] OBVIOUS
<1> PICK here \in BOOLEAN : here = r.local
  BY DEF Persons
<1> PICK new : new = clones_add(all, c, h, here) OBVIOUS
<1> PICK s : s = siteOf[h] OBVIOUS
<1>1. /\ p \in [Clients -> Persons \cup {None}] /\ all \in [Keys -> CloneRecs \cup {None}]
      /\ \A k \in Keys : Counts(p, all[k], k)
  BY DEF Counted
<1>2. h \in Keys /\ s \in Keys /\ s # h /\ s \notin Addrs
  BY ClonesAssumption DEF Keys
<1> PICK f : f = listed(more(entry(all[h]), here), c) OBVIOUS
<1> PICK g : g = more(entry(all[s]), here) OBVIOUS
<1>3. new[h] = f /\ new[s] = g /\ \A k \in Keys : k # h /\ k # s => new[k] = all[k]
  BY <1>1, <1>2 DEF clones_add
<1>4. entry(all[h]) \in CloneRecs /\ entry(all[s]) \in CloneRecs
  BY <1>1, <1>2, EntryType
<1>5. /\ f \in CloneRecs /\ f.gcount = entry(all[h]).gcount + 1
      /\ here = TRUE => f.lcount = entry(all[h]).lcount + 1
      /\ here # TRUE => f.lcount = entry(all[h]).lcount
      /\ f.clients = <<c>> \o entry(all[h]).clients
      /\ f.wrong = entry(all[h]).wrong /\ f.limit = entry(all[h]).limit /\ f.sglimit = entry(all[h]).sglimit /\ f.sllimit = entry(all[h]).sllimit
  <2> PICK e : e = entry(all[h]) OBVIOUS
  <2> PICK m : m = more(e, here) OBVIOUS
  <2>1. /\ m \in CloneRecs /\ m.gcount = e.gcount + 1 /\ (here = TRUE => m.lcount = e.lcount + 1)
        /\ (here # TRUE => m.lcount = e.lcount)
        /\ m.wrong = e.wrong /\ m.clients = e.clients /\ m.limit = e.limit /\ m.sglimit = e.sglimit /\ m.sllimit = e.sllimit
    BY <1>4, RecMore, ZenonT(40)
  <2>2. /\ f \in CloneRecs /\ f.gcount = m.gcount /\ f.lcount = m.lcount
        /\ f.clients = <<c>> \o m.clients
        /\ f.wrong = m.wrong /\ f.limit = m.limit /\ f.sglimit = m.sglimit /\ f.sllimit = m.sllimit
    BY <2>1, RecListed, SMTT(30)
  <2> QED BY <2>1, <2>2
<1>6. /\ g \in CloneRecs /\ g.gcount = entry(all[s]).gcount + 1
      /\ here = TRUE => g.lcount = entry(all[s]).lcount + 1
      /\ here # TRUE => g.lcount = entry(all[s]).lcount
      /\ g.wrong = entry(all[s]).wrong /\ g.limit = entry(all[s]).limit /\ g.sglimit = entry(all[s]).sglimit /\ g.sllimit = entry(all[s]).sllimit
  BY <1>4, RecMore
<1>7. new \in [Keys -> CloneRecs \cup {None}]
  BY <1>1, <1>2, <1>5, <1>6 DEF clones_add
<1>8. ASSUME NEW k \in Keys
      PROVE  /\ q \in [Clients -> Persons \cup {None}] /\ c \notin AtOf(p, k)
             /\ k = h \/ k = s => AtOf(q, k) = AtOf(p, k) \cup {c}
             /\ k # h /\ k # s => AtOf(q, k) = AtOf(p, k)
             /\ (k = h \/ k = s) /\ here = TRUE => OursOf(q, k) = OursOf(p, k) \cup {c}
             /\ (k # h /\ k # s) \/ here # TRUE => OursOf(q, k) = OursOf(p, k)
  <2>1. q \in [Clients -> Persons \cup {None}] /\ q[c] = r /\ \A d \in Clients : d # c => q[d] = p[d]
    BY <1>1
  <2>2. r # None /\ h # None
    BY ClonesNull
  <2>3. c \notin AtOf(p, k)
    BY DEF AtOf
  <2>4. \A d \in Clients : d \in AtOf(q, k) <=> d \in AtOf(p, k) \/ (d = c /\ k \in {h, siteOf[h]})
    BY <2>1, <2>2 DEF AtOf
  <2>5. \A d \in Clients : d \in OursOf(q, k) <=> d \in OursOf(p, k) \/ (d = c /\ k \in {h, siteOf[h]} /\ r.local = TRUE)
    BY <2>1, <2>3, <2>4, ZenonT(40) DEF OursOf
  <2>6. AtOf(p, k) \subseteq Clients /\ AtOf(q, k) \subseteq Clients /\ OursOf(p, k) \subseteq Clients /\ OursOf(q, k) \subseteq Clients
    BY DEF AtOf, OursOf
  <2>7. k \in {h, siteOf[h]} => AtOf(q, k) = AtOf(p, k) \cup {c}
    BY <2>4, <2>6
  <2>8. k \notin {h, siteOf[h]} => AtOf(q, k) = AtOf(p, k)
    BY <2>4, <2>6
  <2>9. k \in {h, siteOf[h]} /\ r.local = TRUE => OursOf(q, k) = OursOf(p, k) \cup {c}
    BY <2>5, <2>6
  <2>10. k \notin {h, siteOf[h]} \/ r.local # TRUE => OursOf(q, k) = OursOf(p, k)
    BY <2>5, <2>6
  <2> QED BY <2>1, <2>3, <2>7, <2>8, <2>9, <2>10
<1>9. ASSUME NEW k \in Keys PROVE Counts(q, new[k], k)
  <2>1. Counts(p, all[k], k)
    BY <1>1
  <2>2. CASE k = h
    <3>1. Counts(q, f, h)
      <4>1. /\ Counts(p, all[h], h) /\ c \notin AtOf(p, h) /\ AtOf(q, h) = AtOf(p, h) \cup {c}
            /\ here = TRUE => OursOf(q, h) = OursOf(p, h) \cup {c}
            /\ here # TRUE => OursOf(q, h) = OursOf(p, h)
        BY <1>1, <1>2, <1>8
      <4>2. /\ Range(f.clients) = Range(entry(all[h]).clients) \cup {c}
            /\ IsInjective(entry(all[h]).clients) /\ c \notin Range(entry(all[h]).clients) => IsInjective(f.clients)
        BY <1>4, <1>5, RecFields, PushSpec
      <4> PICK e : e = entry(all[h]) OBVIOUS
      <4> PICK ce : ce = all[h] OBVIOUS
      <4>3. \/ OursOf(q, h) = OursOf(p, h) \cup {c} /\ f.lcount = e.lcount + 1
            \/ OursOf(q, h) = OursOf(p, h) /\ f.lcount = e.lcount
        BY <1>5, <4>1
      <4>4. /\ Range(f.clients) = Range(e.clients) \cup {c} /\ f \in CloneRecs /\ f.gcount = e.gcount + 1 /\ f.wrong = e.wrong
            /\ IsInjective(e.clients) /\ c \notin Range(e.clients) => IsInjective(f.clients)
        BY <1>5, <4>2
      <4> QED BY <4>1, <4>3, <4>4, CountMore, ZenonT(40)
    <3> QED BY <1>3, <2>2, <3>1
  <2>3. CASE k = s
    <3>1. Counts(q, g, s)
      <4>1. /\ Counts(p, all[s], s) /\ c \notin AtOf(p, s) /\ AtOf(q, s) = AtOf(p, s) \cup {c}
            /\ here = TRUE => OursOf(q, s) = OursOf(p, s) \cup {c}
            /\ here # TRUE => OursOf(q, s) = OursOf(p, s)
        BY <1>1, <1>2, <1>8
      <4> PICK e : e = entry(all[s]) OBVIOUS
      <4> PICK ce : ce = all[s] OBVIOUS
      <4>3. \/ OursOf(q, s) = OursOf(p, s) \cup {c} /\ g.lcount = e.lcount + 1
            \/ OursOf(q, s) = OursOf(p, s) /\ g.lcount = e.lcount
        BY <1>6, <4>1
      <4>4. g \in CloneRecs /\ g.gcount = e.gcount + 1 /\ g.wrong = e.wrong
        BY <1>6
      <4> QED BY <1>2, <4>1, <4>3, <4>4, CountMore, ZenonT(40)
    <3> QED BY <1>3, <2>3, <3>1
  <2>4. CASE k # h /\ k # s
    BY <1>3, <1>8, <2>1, <2>4, CountSame
  <2> QED BY <2>2, <2>3, <2>4
<1>10. Counted(q, new)
  BY <1>2, <1>7, <1>8, <1>9 DEF Counted
<1>11. ASSUME NEW k \in Keys
       PROVE  /\ entry(new[k]).limit = entry(all[k]).limit
              /\ entry(new[k]).sglimit = entry(all[k]).sglimit
              /\ entry(new[k]).sllimit = entry(all[k]).sllimit
              /\ entry(new[k]).wrong = entry(all[k]).wrong
  <2>1. entry(f) = f /\ entry(g) = g
    BY <1>5, <1>6, EntryType
  <2> QED BY <1>3, <1>5, <1>6, <2>1
<1>12. ASSUME NEW k \in Keys PROVE entry(new[k]).wrong >= entry(all[k]).wrong
  <2>1. entry(all[k]).wrong \in Nat
    BY <1>1, EntryType, RecFields
  <2> QED BY <1>11, <2>1
<1> QED BY <1>10, <1>11, <1>12 DEF SameLimits, StrayGrown

\* clones_remove takes it out again.
LEMMA CloneRemoved ==
  ASSUME NEW p, NEW all, Counted(p, all), NEW c \in Clients, NEW h \in Addrs, p[c] # None,
         p[c].ip = h
  PROVE  LET q == [p EXCEPT ![c] = None]
             new == clones_remove(all, c, h, p[c].local)
         IN  /\ Counted(q, new)
             /\ SameLimits(new, all) /\ StrayKept(new, all)
<1> PICK q : q = [p EXCEPT ![c] = None] OBVIOUS
<1>0. p[c] \in Persons
  BY DEF Counted
<1> PICK here \in BOOLEAN : here = p[c].local
  BY <1>0 DEF Persons
<1> PICK new : new = clones_remove(all, c, h, here) OBVIOUS
<1> PICK s : s = siteOf[h] OBVIOUS
<1>1. /\ p \in [Clients -> Persons \cup {None}] /\ all \in [Keys -> CloneRecs \cup {None}]
      /\ \A k \in Keys : Counts(p, all[k], k)
  BY DEF Counted
<1>2. h \in Keys /\ s \in Keys /\ s # h /\ s \notin Addrs
  BY ClonesAssumption DEF Keys
<1>3. ASSUME NEW k \in Keys
      PROVE  /\ q \in [Clients -> Persons \cup {None}]
             /\ k = h \/ k = s => c \in AtOf(p, k) /\ AtOf(q, k) = AtOf(p, k) \ {c}
             /\ k # h /\ k # s => AtOf(q, k) = AtOf(p, k)
             /\ (k = h \/ k = s) /\ here = TRUE => c \in OursOf(p, k) /\ OursOf(q, k) = OursOf(p, k) \ {c}
             /\ (k # h /\ k # s) \/ here # TRUE => OursOf(q, k) = OursOf(p, k)
  <2>1. q \in [Clients -> Persons \cup {None}] /\ q[c] = None /\ \A d \in Clients : d # c => q[d] = p[d]
    BY <1>1
  <2>2. h # None
    BY ClonesNull
  <2>3. c \in AtOf(p, k) <=> k \in {h, siteOf[h]}
    BY <2>2 DEF AtOf
  <2>4. \A d \in Clients : d \in AtOf(q, k) <=> d \in AtOf(p, k) /\ d # c
    BY <2>1 DEF AtOf
  <2>5. \A d \in Clients : d \in OursOf(q, k) <=> d \in OursOf(p, k) /\ d # c
    BY <2>1, <2>4 DEF OursOf
  <2>6. AtOf(p, k) \subseteq Clients /\ AtOf(q, k) \subseteq Clients /\ OursOf(p, k) \subseteq Clients /\ OursOf(q, k) \subseteq Clients
    BY DEF AtOf, OursOf
  <2>7. c \in OursOf(p, k) <=> k \in {h, siteOf[h]} /\ p[c].local = TRUE
    BY <2>3 DEF OursOf
  <2> QED BY <2>1, <2>3, <2>4, <2>5, <2>6, <2>7, ZenonT(40)
<1>4. ASSUME NEW k \in {h, s}
      PROVE  /\ all[k] \in CloneRecs /\ all[k].gcount > 0
             /\ k \in Addrs => IsInjective(all[k].clients)
             /\ entry(all[k]) = all[k]
  <2>1. k \in Keys /\ Counts(p, all[k], k) /\ c \in AtOf(p, k)
    BY <1>1, <1>2, <1>3
  <2>2. all[k] \in CloneRecs /\ entry(all[k]) = all[k]
    BY <1>1, <2>1, EntryType DEF Counts
  <2>3. IsFiniteSet(AtOf(p, k))
    BY <2>1 DEF Counts
  <2>4. Cardinality(AtOf(p, k)) # 0
    BY <2>1, <2>3, FS_EmptySet
  <2>5. all[k].gcount \in Nat
    BY <2>2, RecFields
  <2> QED BY <2>1, <2>2, <2>4, <2>5 DEF Counts
<1> PICK e : e = all[h] OBVIOUS
<1> PICK l : l = less(e, here) OBVIOUS
<1> PICK f : f = unlisted(l, c) OBVIOUS
<1> PICK g : g = less(all[s], here) OBVIOUS
<1>5. /\ new[h] = expire_clone(f) /\ new[s] = expire_clone(g)
      /\ \A k \in Keys : k # h /\ k # s => new[k] = all[k]
  BY <1>1, <1>2 DEF clones_remove
<1>6. /\ f \in CloneRecs /\ f.gcount = e.gcount - 1 /\ (here = TRUE => f.lcount = e.lcount - 1)
      /\ (here # TRUE => f.lcount = e.lcount) /\ f.clients = RemoveFirst(e.clients, c)
      /\ f.wrong = e.wrong /\ f.limit = e.limit /\ f.sglimit = e.sglimit /\ f.sllimit = e.sllimit
  <2>1. e \in CloneRecs /\ e.gcount > 0 /\ IsInjective(e.clients)
    BY <1>4
  <2>2. /\ l \in CloneRecs /\ l.gcount = e.gcount - 1 /\ (here = TRUE => l.lcount = e.lcount - 1)
        /\ (here # TRUE => l.lcount = e.lcount)
        /\ l.wrong = e.wrong /\ l.clients = e.clients /\ l.limit = e.limit /\ l.sglimit = e.sglimit /\ l.sllimit = e.sllimit
    BY <2>1, RecLess
  <2>3. /\ f \in CloneRecs /\ f.gcount = l.gcount /\ f.lcount = l.lcount
        /\ f.clients = RemoveFirst(l.clients, c)
        /\ f.wrong = l.wrong /\ f.limit = l.limit /\ f.sglimit = l.sglimit /\ f.sllimit = l.sllimit
    BY <2>1, <2>2, RecUnlisted
  <2> QED BY <2>2, <2>3, ZenonT(40)
<1>7. /\ g \in CloneRecs /\ g.gcount = all[s].gcount - 1
      /\ here = TRUE => g.lcount = all[s].lcount - 1
      /\ here # TRUE => g.lcount = all[s].lcount
      /\ g.wrong = all[s].wrong /\ g.limit = all[s].limit /\ g.sglimit = all[s].sglimit /\ g.sllimit = all[s].sllimit
  BY <1>4, RecLess, ZenonT(40)
<1>8. new \in [Keys -> CloneRecs \cup {None}]
  BY <1>1, <1>2, <1>6, <1>7 DEF clones_remove, expire_clone
<1>9. ASSUME NEW k \in Keys PROVE Counts(q, new[k], k)
  <2>1. Counts(p, all[k], k)
    BY <1>1
  <2>2. CASE k = h
    <3>1. Counts(q, expire_clone(f), h)
      <4>1. /\ Counts(p, all[h], h) /\ c \in AtOf(p, h) /\ AtOf(q, h) = AtOf(p, h) \ {c}
            /\ here = TRUE => c \in OursOf(p, h) /\ OursOf(q, h) = OursOf(p, h) \ {c}
            /\ here # TRUE => OursOf(q, h) = OursOf(p, h)
            /\ all[h] \in CloneRecs
        BY <1>1, <1>2, <1>3, <1>4
      <4> QED BY <1>2, <1>6, <4>1, CountLess, ZenonT(40)
    <3> QED BY <1>5, <2>2, <3>1
  <2>3. CASE k = s
    <3>1. Counts(q, expire_clone(g), s)
      <4>1. /\ Counts(p, all[s], s) /\ c \in AtOf(p, s) /\ AtOf(q, s) = AtOf(p, s) \ {c}
            /\ here = TRUE => c \in OursOf(p, s) /\ OursOf(q, s) = OursOf(p, s) \ {c}
            /\ here # TRUE => OursOf(q, s) = OursOf(p, s)
            /\ all[s] \in CloneRecs
        BY <1>1, <1>2, <1>3, <1>4
      <4> QED BY <1>2, <1>7, <4>1, CountLess, ZenonT(40)
    <3> QED BY <1>5, <2>3, <3>1
  <2>4. CASE k # h /\ k # s
    BY <1>3, <1>5, <2>1, <2>4, CountSame
  <2> QED BY <2>2, <2>3, <2>4
<1>10. Counted(q, new)
  BY <1>2, <1>3, <1>8, <1>9 DEF Counted
<1>11. ASSUME NEW x \in CloneRecs
       PROVE  /\ entry(expire_clone(x)).limit = x.limit /\ entry(expire_clone(x)).sglimit = x.sglimit
              /\ entry(expire_clone(x)).sllimit = x.sllimit
              /\ expire_clone(x) = None \/ entry(expire_clone(x)).wrong = x.wrong
  <2>1. CASE x.gcount = 0 /\ x.limit = 0 /\ x.sglimit = 0 /\ x.sllimit = 0
    <3>1. expire_clone(x) = None /\ entry(None) = NoClone
      BY <2>1 DEF expire_clone, entry
    <3> QED BY <2>1, <3>1, EntryType
  <2>2. CASE ~ (x.gcount = 0 /\ x.limit = 0 /\ x.sglimit = 0 /\ x.sllimit = 0)
    <3>1. expire_clone(x) = x /\ entry(x) = x
      BY <2>2, EntryType DEF expire_clone
    <3> QED BY <3>1
  <2> QED BY <2>1, <2>2
<1>12. ASSUME NEW k \in Keys
       PROVE  /\ entry(new[k]).limit = entry(all[k]).limit
              /\ entry(new[k]).sglimit = entry(all[k]).sglimit
              /\ entry(new[k]).sllimit = entry(all[k]).sllimit
              /\ new[k] = None \/ entry(new[k]).wrong = entry(all[k]).wrong
  BY <1>4, <1>5, <1>6, <1>7, <1>11
<1>13. ASSUME NEW k \in Keys, new[k] # None PROVE entry(new[k]).wrong >= entry(all[k]).wrong
  <2>1. entry(all[k]).wrong \in Nat
    BY <1>1, EntryType, RecFields
  <2> QED BY <1>12, <1>13, <2>1
<1> QED BY <1>10, <1>12, <1>13 DEF SameLimits, StrayKept

\* An introduction that names this server: the client is here when it is
\* removed, and one more such introduction is known of.
LEMMA Blamed ==
  ASSUME NEW p, NEW all, Counted(p, all), NEW c \in Clients, NEW h \in Addrs, p[c] # None,
         p[c].ip = h, p[c].local = FALSE, NEW r \in Persons, r.ip = h, r.local = TRUE
  PROVE  LET q == [p EXCEPT ![c] = r]
             new == blamed(all, h)
         IN  Counted(q, new) /\ SameLimits(new, all) /\ StrayGrown(new, all)
<1> PICK q : q = [p EXCEPT ![c] = r] OBVIOUS
<1> PICK new : new = blamed(all, h) OBVIOUS
<1> PICK s : s = siteOf[h] OBVIOUS
<1>1. /\ p \in [Clients -> Persons \cup {None}] /\ all \in [Keys -> CloneRecs \cup {None}]
      /\ \A k \in Keys : Counts(p, all[k], k)
  BY DEF Counted
<1>2. h \in Keys /\ s \in Keys /\ s # h /\ s \notin Addrs
  BY ClonesAssumption DEF Keys
<1>3. /\ q \in [Clients -> Persons \cup {None}] /\ q[c] = r /\ r # None /\ h # None
      /\ \A d \in Clients : d # c => q[d] = p[d]
  BY <1>1, ClonesNull
<1>4. ASSUME NEW k \in Keys
      PROVE  /\ AtOf(q, k) = AtOf(p, k)
             /\ k = h \/ k = s => c \in AtOf(p, k) /\ c \notin OursOf(p, k) /\ OursOf(q, k) = OursOf(p, k) \cup {c}
             /\ k # h /\ k # s => OursOf(q, k) = OursOf(p, k)
  <2>1. c \in AtOf(p, k) <=> k \in {h, siteOf[h]}
    BY <1>3 DEF AtOf
  <2>2. c \in AtOf(q, k) <=> k \in {h, siteOf[h]}
    BY <1>3 DEF AtOf
  <2>3. \A d \in Clients : d # c => (d \in AtOf(q, k) <=> d \in AtOf(p, k))
    BY <1>3 DEF AtOf
  <2>4. AtOf(p, k) \subseteq Clients /\ AtOf(q, k) \subseteq Clients /\ OursOf(p, k) \subseteq Clients /\ OursOf(q, k) \subseteq Clients
    BY DEF AtOf, OursOf
  <2>5. AtOf(q, k) = AtOf(p, k)
    <3>1. \A d \in Clients : d \in AtOf(q, k) <=> d \in AtOf(p, k)
      BY <2>1, <2>2, <2>3, Zenon
    <3> QED BY <2>4, <3>1, Zenon
  <2>6. c \notin OursOf(p, k) /\ (c \in OursOf(q, k) <=> k \in {h, siteOf[h]})
    BY <1>3, <2>2 DEF OursOf
  <2>7. \A d \in Clients : d # c => (d \in OursOf(q, k) <=> d \in OursOf(p, k))
    BY <1>3, <2>3 DEF OursOf
  <2>8. CASE k = h \/ k = s
    <3>1. c \in OursOf(q, k) /\ c \in AtOf(p, k)
      BY <2>1, <2>6, <2>8
    <3>2. \A d \in Clients : d \in OursOf(q, k) <=> d \in OursOf(p, k) \cup {c}
      BY <2>7, <3>1, Zenon
    <3>3. OursOf(q, k) = OursOf(p, k) \cup {c}
      BY <2>4, <3>2
    <3> QED BY <2>5, <2>6, <2>8, <3>1, <3>3, Zenon
  <2>9. CASE k # h /\ k # s
    <3>1. c \notin OursOf(q, k)
      BY <2>6, <2>9
    <3>2. \A d \in Clients : d \in OursOf(q, k) <=> d \in OursOf(p, k)
      BY <2>6, <2>7, <3>1, Zenon
    <3>3. OursOf(q, k) = OursOf(p, k)
      BY <2>4, <3>2, Zenon
    <3> QED BY <2>5, <2>9, <3>3, Zenon
  <2> QED BY <2>8, <2>9, Zenon
<1>5. ASSUME NEW k \in Keys, k = h \/ k = s
      PROVE  all[k] \in CloneRecs /\ entry(all[k]) = all[k]
  BY <1>1, <1>4, <1>5, EntryType DEF Counts
<1> PICK e : e = all[h] OBVIOUS
<1> PICK d : d = all[s] OBVIOUS
<1> PICK f : f = [e EXCEPT !.wrong = e.wrong + 1] OBVIOUS
<1> PICK g : g = [d EXCEPT !.wrong = d.wrong + 1] OBVIOUS
<1>6. e \in CloneRecs /\ entry(e) = e /\ d \in CloneRecs /\ entry(d) = d
  BY <1>2, <1>5
<1>7. ASSUME NEW x \in CloneRecs, NEW y, y = [x EXCEPT !.wrong = x.wrong + 1]
      PROVE  /\ y \in CloneRecs /\ entry(y) = y /\ y.wrong = x.wrong + 1 /\ y.gcount = x.gcount
             /\ y.lcount = x.lcount /\ y.clients = x.clients /\ y.limit = x.limit
             /\ y.sglimit = x.sglimit /\ y.sllimit = x.sllimit
  <2>1. x.wrong + 1 \in Nat
    BY RecFields
  <2>2. y \in CloneRecs
    BY <1>7, <2>1 DEF CloneRecs
  <2>3. /\ y.wrong = x.wrong + 1 /\ y.gcount = x.gcount
        /\ y.lcount = x.lcount /\ y.clients = x.clients /\ y.limit = x.limit
        /\ y.sglimit = x.sglimit /\ y.sllimit = x.sllimit
    BY <1>7 DEF CloneRecs
  <2> QED BY <2>2, <2>3, EntryType
<1>8. /\ new[h] = f /\ new[s] = g /\ \A k \in Keys : k # h /\ k # s => new[k] = all[k]
      /\ new \in [Keys -> CloneRecs \cup {None}]
  <2>1. new = [all EXCEPT ![h] = f, ![s] = g]
    BY <1>1, <1>2 DEF blamed
  <2>2. f \in CloneRecs /\ g \in CloneRecs
    BY <1>6, <1>7
  <2> QED BY <1>1, <1>2, <2>1, <2>2
<1>9. ASSUME NEW k \in Keys, NEW x \in CloneRecs, NEW y, y = [x EXCEPT !.wrong = x.wrong + 1],
             x = all[k], k = h \/ k = s
      PROVE  Counts(q, y, k)
  <2>1. /\ y \in CloneRecs /\ entry(y) = y /\ y.wrong = x.wrong + 1 /\ y.gcount = x.gcount
        /\ y.lcount = x.lcount /\ y.clients = x.clients /\ y # None
    BY <1>7, <1>9, EntryType
  <2>2. /\ IsFiniteSet(AtOf(p, k)) /\ x.gcount = Cardinality(AtOf(p, k))
        /\ x.lcount + x.wrong = Cardinality(OursOf(p, k))
        /\ k \in Addrs => Range(x.clients) = AtOf(p, k) /\ IsInjective(x.clients)
    <3>1. Counts(p, x, k) /\ entry(x) = x
      BY <1>1, <1>9, EntryType
    <3> QED BY <3>1 DEF Counts
  <2>3. /\ AtOf(q, k) = AtOf(p, k) /\ AtOf(q, k) # {}
        /\ c \notin OursOf(p, k) /\ OursOf(q, k) = OursOf(p, k) \cup {c}
    BY <1>4, <1>9
  <2>4. Cardinality(OursOf(q, k)) = Cardinality(OursOf(p, k)) + 1
    <3>1. OursOf(p, k) \in SUBSET AtOf(p, k)
      BY DEF OursOf
    <3>2. IsFiniteSet(OursOf(p, k))
      BY <2>2, <3>1, FS_Subset
    <3> QED BY <2>3, <3>2, FS_AddElement
  <2>5. y.lcount + y.wrong = Cardinality(OursOf(q, k))
    <3>1. x.lcount \in Int /\ x.wrong \in Nat
      BY RecFields
    <3> QED BY <2>1, <2>2, <2>4, <3>1
  <2> QED BY <2>1, <2>2, <2>3, <2>5 DEF Counts
<1>10. Counts(q, f, h) /\ Counts(q, g, s)
  BY <1>2, <1>6, <1>9
<1>11. ASSUME NEW k \in Keys PROVE Counts(q, new[k], k)
  <2>1. CASE k # h /\ k # s
    BY <1>1, <1>4, <1>8, <2>1, CountSame
  <2> QED BY <1>8, <1>10, <2>1
<1>12. Counted(q, new)
  BY <1>3, <1>8, <1>11 DEF Counted
<1>13. ASSUME NEW k \in Keys
       PROVE  /\ entry(new[k]).limit = entry(all[k]).limit
              /\ entry(new[k]).sglimit = entry(all[k]).sglimit
              /\ entry(new[k]).sllimit = entry(all[k]).sllimit
              /\ entry(new[k]).wrong >= entry(all[k]).wrong
  <2>1. entry(all[k]).wrong \in Nat
    BY <1>1, EntryType, RecFields
  <2>2. /\ entry(f) = f /\ f.limit = e.limit /\ f.sglimit = e.sglimit /\ f.sllimit = e.sllimit /\ f.wrong = e.wrong + 1
        /\ entry(g) = g /\ g.limit = d.limit /\ g.sglimit = d.sglimit /\ g.sllimit = d.sllimit /\ g.wrong = d.wrong + 1
    BY <1>6, <1>7
  <2>3. e.wrong \in Nat /\ d.wrong \in Nat
    BY <1>6, RecFields
  <2>4. CASE k = h
    <3>1. entry(new[k]) = f /\ entry(all[k]) = e
      BY <1>6, <1>8, <2>2, <2>4, Zenon
    <3> QED BY <2>2, <2>3, <3>1
  <2>5. CASE k = s
    <3>1. entry(new[k]) = g /\ entry(all[k]) = d
      BY <1>6, <1>8, <2>2, <2>5, Zenon
    <3> QED BY <2>2, <2>3, <3>1
  <2>6. CASE k # h /\ k # s
    <3>1. new[k] = all[k]
      BY <1>8, <2>6, Zenon
    <3> QED BY <2>1, <3>1
  <2> QED BY <2>4, <2>5, <2>6, Zenon
<1> QED BY <1>12, <1>13 DEF SameLimits, StrayGrown

----------------------------------------------------------------------------
\* Nobody eased the limits of k.
Strict(k) == /\ entry(clones[k]).limit = 0 /\ entry(clones[k]).sglimit = 0
             /\ entry(clones[k]).sllimit = 0

ClonesInv ==
  /\ Counted(person, clones)
  /\ \A k \in Keys : k \notin eased => Strict(k)
  /\ \A h \in Addrs : h \notin eased /\ siteOf[h] \notin eased
                      => Cardinality(Plain(person, h)) <= LocalLimit + entry(clones[h]).wrong

\* The clients under the default limit, after client c changed.
LEMMA PlainAfter ==
  ASSUME NEW p \in [Clients -> Persons \cup {None}], NEW q \in [Clients -> Persons \cup {None}],
         NEW c \in Clients, \A d \in Clients : d # c => q[d] = p[d], NEW h \in Addrs
  PROVE  /\ Plain(q, h) \subseteq Plain(p, h) \cup {c}
         /\ q[c] = None \/ q[c].ip # h \/ q[c].local # TRUE \/ q[c].free # FALSE
            => Plain(q, h) \subseteq Plain(p, h)
<1>1. \A d \in Clients : d # c => (d \in Plain(q, h) <=> d \in Plain(p, h))
  BY DEF Plain, OursOf, AtOf
<1>2. Plain(q, h) \subseteq Clients
  BY DEF Plain, OursOf, AtOf
<1>3. c \in Plain(q, h) => q[c] # None /\ q[c].ip = h /\ q[c].local = TRUE /\ q[c].free = FALSE
  <2> SUFFICES ASSUME c \in Plain(q, h) PROVE q[c] # None /\ q[c].ip = h /\ q[c].local = TRUE /\ q[c].free = FALSE
    OBVIOUS
  <2>1. /\ q[c] # None /\ q[c].ip # None /\ h \in {q[c].ip, siteOf[q[c].ip]}
        /\ q[c].local = TRUE /\ q[c].free = FALSE
    BY DEF Plain, OursOf, AtOf
  <2>2. q[c] \in Persons
    BY <2>1
  <2>3. q[c].ip \in Addrs
    BY <2>1, <2>2 DEF Persons
  <2>4. siteOf[q[c].ip] # h
    BY <2>3, ClonesAssumption
  <2> QED BY <2>1, <2>4
<1> QED BY <1>1, <1>2, <1>3

\* Their number is at most that of all clients of this server at h.
LEMMA PlainFew ==
  ASSUME NEW p, NEW ce, NEW h, Counts(p, ce, h)
  PROVE  /\ IsFiniteSet(Plain(p, h)) /\ Cardinality(Plain(p, h)) \in Nat
         /\ Cardinality(Plain(p, h)) <= entry(ce).lcount + entry(ce).wrong
         /\ ce = None => Plain(p, h) = {}
<1>1. IsFiniteSet(AtOf(p, h)) /\ entry(ce).lcount + entry(ce).wrong = Cardinality(OursOf(p, h)) /\ (ce = None => AtOf(p, h) = {})
  BY DEF Counts
<1>2. OursOf(p, h) \in SUBSET AtOf(p, h) /\ Plain(p, h) \in SUBSET OursOf(p, h)
  BY DEF OursOf, Plain
<1>3. IsFiniteSet(OursOf(p, h))
  BY <1>1, <1>2, FS_Subset
<1>4. IsFiniteSet(Plain(p, h)) /\ Cardinality(Plain(p, h)) <= Cardinality(OursOf(p, h))
  BY <1>2, <1>3, FS_Subset
<1> QED BY <1>1, <1>2, <1>4, FS_CardinalityType

\* A step that adds nobody under the default limit, and keeps the limits.
LEMMA LimitKept ==
  ASSUME ClonesInv, Counted(person', clones'), eased' = eased,
         SameLimits(clones', clones), StrayKept(clones', clones),
         \A h \in Addrs : Plain(person', h) \subseteq Plain(person, h)
  PROVE  ClonesInv'
<1>1. \A k \in Keys : k \notin eased => Strict(k)
  BY DEF ClonesInv
<1>2. \A k \in Keys : k \notin eased' => Strict(k)'
  BY <1>1 DEF Strict, SameLimits
<1>3. ASSUME NEW h \in Addrs, h \notin eased', siteOf[h] \notin eased'
      PROVE  Cardinality(Plain(person', h)) <= LocalLimit + entry(clones'[h]).wrong
  <2>1. Cardinality(Plain(person, h)) <= LocalLimit + entry(clones[h]).wrong
    BY <1>3 DEF ClonesInv
  <2>2. h \in Keys /\ Counts(person, clones[h], h) /\ Counts(person', clones'[h], h)
    BY DEF ClonesInv, Counted, Keys
  <2>3. IsFiniteSet(Plain(person, h)) /\ Cardinality(Plain(person, h)) \in Nat
    BY <2>2, PlainFew
  <2>4. IsFiniteSet(Plain(person', h)) /\ Cardinality(Plain(person', h)) <= Cardinality(Plain(person, h))
    <3>1. Plain(person', h) \in SUBSET Plain(person, h)
      OBVIOUS
    <3> QED BY <2>3, <3>1, FS_Subset
  <2>5. Cardinality(Plain(person', h)) \in Nat /\ LocalLimit \in Nat
    BY <2>4, FS_CardinalityType, ClonesAssumption
  <2>6. entry(clones[h]).wrong \in Nat /\ entry(clones'[h]).wrong \in Nat
    BY <2>2, EntryType, RecFields DEF ClonesInv, Counted
  <2>7. CASE clones'[h] = None
    <3>1. Cardinality(Plain(person', h)) = 0
      <4> PICK q : q = person' OBVIOUS
      <4> PICK ce : ce = clones'[h] OBVIOUS
      <4>1. Counts(q, ce, h) /\ ce = None
        BY <2>2, <2>7
      <4>2. Plain(q, h) = {}
        BY <4>1, PlainFew
      <4> QED BY <4>2, FS_EmptySet
    <3> QED BY <2>5, <2>6, <3>1
  <2>8. CASE clones'[h] # None
    <3>1. entry(clones'[h]).wrong >= entry(clones[h]).wrong
      BY <2>2, <2>8 DEF StrayKept
    <3> QED BY <2>1, <2>3, <2>4, <2>5, <2>6, <3>1
  <2> QED BY <2>7, <2>8
<1> QED BY <1>2, <1>3 DEF ClonesInv

\* Nobody else is counted when a client without an address comes or goes.
LEMMA Masked ==
  ASSUME NEW p, NEW all, Counted(p, all), NEW c \in Clients, NEW q \in [Clients -> Persons \cup {None}],
         \A d \in Clients : d # c => q[d] = p[d],
         p[c] = None \/ p[c].ip = None, q[c] = None \/ q[c].ip = None
  PROVE  Counted(q, all)
<1>1. /\ p \in [Clients -> Persons \cup {None}] /\ all \in [Keys -> CloneRecs \cup {None}]
      /\ \A k \in Keys : Counts(p, all[k], k)
  BY DEF Counted
<1>2. ASSUME NEW k \in Keys PROVE AtOf(q, k) = AtOf(p, k) /\ OursOf(q, k) = OursOf(p, k)
  <2>1. \A d \in Clients : d \in AtOf(q, k) <=> d \in AtOf(p, k)
    BY DEF AtOf
  <2>2. AtOf(q, k) = AtOf(p, k) /\ c \notin AtOf(p, k)
    <3>1. AtOf(q, k) \subseteq Clients /\ AtOf(p, k) \subseteq Clients
      BY DEF AtOf
    <3>2. c \notin AtOf(p, k)
      BY DEF AtOf
    <3> QED BY <2>1, <3>1, <3>2
  <2>3. \A d \in AtOf(p, k) : q[d] = p[d]
    BY <2>2 DEF AtOf
  <2> QED BY <2>2, <2>3 DEF OursOf
<1>3. \A k \in Keys : Counts(q, all[k], k)
  BY <1>1, <1>2, CountSame
<1> QED BY <1>1, <1>3 DEF Counted

\* What is not forgotten, when nothing changes and after two steps.
LEMMA KeptSame ==
  ASSUME NEW p, NEW all, Counted(p, all)
  PROVE  StrayKept(all, all)
<1> SUFFICES ASSUME NEW k \in Keys PROVE entry(all[k]).wrong >= entry(all[k]).wrong
  BY DEF StrayKept
<1>1. entry(all[k]).wrong \in Nat
  BY EntryType, RecFields DEF Counted
<1> QED BY <1>1

LEMMA KeptBoth ==
  ASSUME NEW p, NEW a, Counted(p, a), NEW q, NEW b, Counted(q, b), NEW r, NEW d, Counted(r, d),
         SameLimits(b, a), StrayGrown(b, a), SameLimits(d, b), StrayKept(d, b)
  PROVE  SameLimits(d, a) /\ StrayKept(d, a)
<1>1. SameLimits(d, a)
  BY ZenonT(40) DEF SameLimits
<1>2. ASSUME NEW k \in Keys, d[k] # None PROVE entry(d[k]).wrong >= entry(a[k]).wrong
  <2>1. entry(a[k]).wrong \in Nat /\ entry(b[k]).wrong \in Nat /\ entry(d[k]).wrong \in Nat
    BY EntryType, RecFields DEF Counted
  <2>2. entry(d[k]).wrong >= entry(b[k]).wrong
    BY <1>2 DEF StrayKept
  <2>3. entry(b[k]).wrong >= entry(a[k]).wrong
    BY DEF StrayGrown
  <2> QED BY <2>1, <2>2, <2>3
<1> QED BY <1>1, <1>2 DEF StrayKept

\* The limit when none is set.
LEMMA FirstDefault == First(<<0, 0, LocalLimit>>) = LocalLimit
<1> DEFINE l == <<0, 0, LocalLimit>>
           P(i) == l[i] # 0 /\ \A j \in 1 .. i - 1 : l[j] = 0
<1>1. DOMAIN l = {1, 2, 3} /\ l[1] = 0 /\ l[2] = 0 /\ l[3] = LocalLimit /\ LocalLimit # 0
  BY ClonesAssumption
<1> HIDE DEF l
<1>2. 3 \in DOMAIN l /\ P(3)
  <2>1. \A j \in 1 .. 3 - 1 : j = 1 \/ j = 2
    OBVIOUS
  <2> QED BY <1>1, <2>1
<1>3. \A i \in DOMAIN l : P(i) => i = 3
  BY <1>1
<1> HIDE DEF P
<1>4. (CHOOSE i \in DOMAIN l : P(i)) = 3
  BY <1>2, <1>3
<1> QED BY <1>1, <1>4 DEF First, P, l

\* Nobody is there.
LEMMA ClonesStart == ClonesInit => ClonesInv
<1> SUFFICES ASSUME ClonesInit PROVE ClonesInv
  OBVIOUS
<1>1. /\ person = [c \in Clients |-> None] /\ clones = [k \in Keys |-> None] /\ eased = {}
  BY DEF ClonesInit
<1>2. \A k : AtOf(person, k) = {} /\ OursOf(person, k) = {} /\ Plain(person, k) = {}
  BY <1>1 DEF AtOf, OursOf, Plain
<1>3. Cardinality({}) = 0
  BY FS_EmptySet
<1>4. entry(None) = NoClone
  BY DEF entry
<1>5. \A k \in Keys : Counts(person, clones[k], k)
  <2> TAKE k \in Keys
  <2>1. clones[k] = None
    BY <1>1
  <2>2. Counts(person, None, k)
    BY <1>2, CountNone, Zenon
  <2> QED BY <2>1, <2>2, Zenon
<1>6. Counted(person, clones)
  BY <1>1, <1>5 DEF Counted
<1>7. \A k \in Keys : Strict(k)
  BY <1>1, <1>4, EntryType DEF Strict
<1>8. \A h \in Addrs : Cardinality(Plain(person, h)) <= LocalLimit + entry(clones[h]).wrong
  <2> TAKE h \in Addrs
  <2>1. LocalLimit \in Nat
    BY ClonesAssumption
  <2>2. entry(clones[h]).wrong = 0
    BY <1>1, <1>4, EntryType DEF Keys
  <2>3. 0 <= LocalLimit + 0
    BY <2>1
  <2> QED BY <1>2, <1>3, <2>2, <2>3
<1> QED BY <1>6, <1>7, <1>8 DEF ClonesInv

\* A client of this server registers.
LEMMA RegisterHere ==
  ASSUME ClonesInv, NEW c \in Clients, NEW h \in Addrs, NEW skip \in BOOLEAN, NEW mask \in BOOLEAN,
         NEW l \in ClassLimits, NEW s \in ClassSites,
         register_here(c, h, skip, [host |-> l, site |-> s], mask)
  PROVE  ClonesInv'
<1> PICK cls : cls = [host |-> l, site |-> s] OBVIOUS
<1>1. cls.host = l /\ cls.site = s /\ l \in Nat /\ s \in Nat
  BY ClonesAssumption
<1>2. person[c] = None
  BY DEF register_here
<1>3. CASE ~ skip /\ clones_check(h, cls)
  <2>1. UNCHANGED clonesVars
    BY <1>3 DEF register_here
  <2> QED BY <2>1 DEF clonesVars, ClonesInv, Strict
<1>4. CASE ~ (~ skip /\ clones_check(h, cls))
  <2> PICK fr \in BOOLEAN : fr <=> skip \/ cls.host # 0 \/ cls.site # 0
    OBVIOUS
  <2> PICK r : r = [ip |-> IF mask THEN None ELSE h, local |-> TRUE, free |-> fr] OBVIOUS
  <2>1. /\ person' = [person EXCEPT ![c] = r] /\ eased' = eased
        /\ mask => clones' = clones
        /\ ~ mask => clones' = clones_add(clones, c, h, TRUE)
    BY <1>4 DEF register_here
  <2>2. r \in Persons /\ r.local = TRUE /\ r.free = fr /\ r.ip = (IF mask THEN None ELSE h)
    BY DEF Persons
  <2>3. /\ person \in [Clients -> Persons \cup {None}] /\ Counted(person, clones)
        /\ person' \in [Clients -> Persons \cup {None}] /\ person'[c] = r
        /\ \A d \in Clients : d # c => person'[d] = person[d]
    BY <2>1, <2>2 DEF ClonesInv, Counted
  <2>4. CASE mask
    <3>1. r.ip = None
      BY <2>2, <2>4
    <3>2. Counted(person', clones)
      <4> PICK q : q = person' OBVIOUS
      <4>1. Counted(q, clones)
        BY <1>2, <2>3, <3>1, Masked
      <4> QED BY <4>1
    <3>3. \A g \in Addrs : Plain(person', g) \subseteq Plain(person, g)
      <4> TAKE g \in Addrs
      <4>1. person'[c].ip # g
        BY <2>3, <3>1, ClonesNull
      <4> QED BY <2>3, <4>1, PlainAfter
    <3>4. clones' = clones /\ SameLimits(clones', clones) /\ StrayKept(clones', clones)
      BY <2>1, <2>3, <2>4, KeptSame DEF SameLimits
    <3> QED BY <2>1, <3>2, <3>3, <3>4, LimitKept
  <2>5. CASE ~ mask
    <3> PICK q : q = [person EXCEPT ![c] = r] OBVIOUS
    <3> PICK new : new = clones_add(clones, c, h, r.local) OBVIOUS
    <3>1. person' = q /\ clones' = new /\ r.ip = h
      BY <2>1, <2>2, <2>5
    <3>2. /\ Counted(q, new)
          /\ SameLimits(new, clones) /\ StrayGrown(new, clones)
      <4> PICK p : p = person OBVIOUS
      <4> PICK all : all = clones OBVIOUS
      <4>1. Counted(p, all) /\ p[c] = None
        BY <1>2, <2>3
      <4>2. /\ Counted([p EXCEPT ![c] = r], clones_add(all, c, h, r.local))
            /\ SameLimits(clones_add(all, c, h, r.local), all)
            /\ StrayGrown(clones_add(all, c, h, r.local), all)
        BY <2>2, <3>1, <4>1, CloneAdded
      <4> QED BY <4>2
    <3>3. CASE fr
      <4>1. person'[c].free # FALSE
        BY <2>2, <2>3, <3>3
      <4>2. \A g \in Addrs : Plain(person', g) \subseteq Plain(person, g)
        BY <2>3, <4>1, PlainAfter
      <4>3. StrayKept(clones', clones)
        BY <3>1, <3>2 DEF StrayKept, StrayGrown
      <4> QED BY <2>1, <3>1, <3>2, <4>2, <4>3, LimitKept
    <3>4. CASE ~ fr
      <4>1. ~ skip /\ l = 0 /\ s = 0 /\ ~ clones_check(h, cls)
        BY <1>1, <1>4, <3>4
      <4>2. \A k \in Keys : k \notin eased' => Strict(k)'
        <5>1. \A k \in Keys : k \notin eased => Strict(k)
          BY DEF ClonesInv
        <5> QED BY <2>1, <3>1, <3>2, <5>1, ZenonT(40) DEF Strict, SameLimits
      <4>3. ASSUME NEW g \in Addrs, g \notin eased', siteOf[g] \notin eased'
            PROVE  Cardinality(Plain(q, g)) <= LocalLimit + entry(new[g]).wrong
        <5>1. Cardinality(Plain(person, g)) <= LocalLimit + entry(clones[g]).wrong /\ LocalLimit \in Nat \ {0}
          BY <2>1, <4>3, ClonesAssumption DEF ClonesInv
        <5>2. g \in Keys /\ Counts(person, clones[g], g) /\ Strict(g)
          BY <2>1, <2>3, <4>3 DEF ClonesInv, Counted, Keys
        <5>3. /\ IsFiniteSet(Plain(person, g)) /\ Cardinality(Plain(person, g)) \in Nat
              /\ Cardinality(Plain(person, g)) <= entry(clones[g]).lcount + entry(clones[g]).wrong
              /\ clones[g] = None => Plain(person, g) = {}
          BY <5>2, PlainFew
        <5>0. /\ entry(clones[g]).wrong \in Nat /\ entry(new[g]).wrong \in Nat
              /\ entry(new[g]).wrong >= entry(clones[g]).wrong
          BY <2>3, <3>2, <5>2, EntryType, RecFields DEF Counted, StrayGrown
        <5>4. Plain(q, g) \in SUBSET (Plain(person, g) \cup {c})
          BY <2>3, <3>1, PlainAfter
        <5>5. CASE g # h
          <6>1. Plain(q, g) \in SUBSET Plain(person, g)
            <7>1. q[c].ip # g
              BY <2>3, <3>1, <5>5
            <7> QED BY <2>3, <3>1, <7>1, PlainAfter
          <6>2. Cardinality(Plain(q, g)) <= Cardinality(Plain(person, g)) /\ IsFiniteSet(Plain(q, g))
            BY <5>3, <6>1, FS_Subset
          <6>3. Cardinality(Plain(q, g)) \in Nat
            BY <6>2, FS_CardinalityType
          <6>4. PICK x : x = Cardinality(Plain(q, g))
            OBVIOUS
          <6>5. PICK y : y = Cardinality(Plain(person, g))
            OBVIOUS
          <6>6. PICK v : v = entry(new[g]).wrong
            OBVIOUS
          <6>7. PICK w : w = entry(clones[g]).wrong
            OBVIOUS
          <6>8. y \in Nat /\ w \in Nat /\ v \in Nat /\ v >= w /\ y <= LocalLimit + w
            BY <5>0, <5>1, <5>3, <6>5, <6>6, <6>7, Zenon
          <6>9. x \in Nat /\ x <= y /\ LocalLimit \in Nat
            BY <5>1, <6>2, <6>3, <6>4, <6>5
          <6>10. x <= LocalLimit + v
            BY <6>8, <6>9
          <6> QED BY <6>4, <6>6, <6>10, Zenon
        <5>6. CASE g = h
          <6>1. Cardinality(Plain(person, g)) < LocalLimit + entry(clones[g]).wrong
            <7>1. CASE clones[h] = None
              <8>1. Cardinality(Plain(person, g)) = 0
                BY <5>3, <5>6, <7>1, FS_EmptySet
              <8> QED BY <5>0, <5>1, <8>1
            <7>2. CASE clones[h] # None
              <8> PICK ce : ce = clones[h] OBVIOUS
              <8>1. ~ host_full(ce, cls)
                BY <4>1, <7>2 DEF clones_check
              <8>2. ~ (ce.lcount >= First(<<ce.sllimit, cls.host, LocalLimit>>))
                BY <8>1 DEF host_full, reached
              <8>3. ce \in CloneRecs /\ entry(ce) = ce /\ ce.sllimit = 0 /\ ce.lcount \in Int
                <9>1. ce \in CloneRecs
                  BY <2>3, <5>2, <5>6, <7>2 DEF Counted
                <9> QED BY <5>2, <5>6, <9>1, EntryType, RecFields DEF Strict
              <8>4. First(<<ce.sllimit, cls.host, LocalLimit>>) = LocalLimit
                BY <1>1, <4>1, <8>3, FirstDefault
              <8>5. ce.lcount < LocalLimit
                BY <5>1, <8>2, <8>3, <8>4
              <8> QED BY <5>0, <5>1, <5>3, <5>6, <8>3, <8>5
            <7> QED BY <7>1, <7>2
          <6>2. /\ IsFiniteSet(Plain(person, g) \cup {c})
                /\ Cardinality(Plain(person, g) \cup {c}) <= Cardinality(Plain(person, g)) + 1
            <7>1. /\ IsFiniteSet(Plain(person, g) \cup {c})
                  /\ \/ Cardinality(Plain(person, g) \cup {c}) = Cardinality(Plain(person, g))
                     \/ Cardinality(Plain(person, g) \cup {c}) = Cardinality(Plain(person, g)) + 1
              BY <5>3, FS_AddElement
            <7> QED BY <5>3, <7>1
          <6>3. IsFiniteSet(Plain(q, g)) /\ Cardinality(Plain(q, g)) <= Cardinality(Plain(person, g) \cup {c})
            BY <5>4, <6>2, FS_Subset
          <6>4. Cardinality(Plain(q, g)) \in Nat /\ Cardinality(Plain(person, g) \cup {c}) \in Nat
            BY <6>2, <6>3, FS_CardinalityType
          <6>5. PICK x : x = Cardinality(Plain(q, g))
            OBVIOUS
          <6>6. PICK y : y = Cardinality(Plain(person, g))
            OBVIOUS
          <6>7. PICK v : v = entry(new[g]).wrong
            OBVIOUS
          <6>8. PICK w : w = entry(clones[g]).wrong
            OBVIOUS
          <6>9. PICK z : z = Cardinality(Plain(person, g) \cup {c})
            OBVIOUS
          <6>10. y \in Nat /\ w \in Nat /\ v \in Nat /\ v >= w /\ y < LocalLimit + w
            BY <5>0, <5>3, <6>1, <6>6, <6>7, <6>8, Zenon
          <6>11. x \in Nat /\ z \in Nat /\ x <= z /\ z <= y + 1
            BY <6>2, <6>3, <6>4, <6>5, <6>6, <6>9, Zenon
          <6>12. LocalLimit \in Nat
            BY <5>1
          <6>13. x <= LocalLimit + v
            BY <6>10, <6>11, <6>12
          <6> QED BY <6>5, <6>7, <6>13, Zenon
        <5> QED BY <5>5, <5>6
      <4> QED BY <3>1, <3>2, <4>2, <4>3 DEF ClonesInv
    <3> QED BY <3>3, <3>4
  <2> QED BY <2>4, <2>5
<1> QED BY <1>3, <1>4

\* A client of another server.
LEMMA RegisterThere ==
  ASSUME ClonesInv, NEW c \in Clients, NEW h \in Addrs, NEW via \in {"link", "other", "me"},
         register_there(c, h, via)
  PROVE  ClonesInv'
<1> PICK r : r = [ip |-> h, local |-> FALSE, free |-> FALSE] OBVIOUS
<1> PICK o : o = [ip |-> h, local |-> TRUE, free |-> FALSE] OBVIOUS
<1> PICK q : q = [person EXCEPT ![c] = r] OBVIOUS
<1> PICK m : m = [q EXCEPT ![c] = o] OBVIOUS
<1> PICK new : new = clones_add(clones, c, h, r.local) OBVIOUS
<1> PICK bad : bad = blamed(new, h) OBVIOUS
<1>1. /\ person[c] = None /\ eased' = eased
      /\ via = "other" => clones' = clones_remove(new, c, h, r.local) /\ person' = person
      /\ via = "me" => clones' = clones_remove(bad, c, h, o.local) /\ person' = person
      /\ via = "link" => clones' = new /\ person' = q
  <2>1. r.local = FALSE /\ o.local = TRUE
    OBVIOUS
  <2> QED BY <2>1 DEF register_there
<1>2. r \in Persons /\ r.ip = h /\ r.local = FALSE /\ o \in Persons /\ o.ip = h /\ o.local = TRUE
  BY DEF Persons
<1>3. Counted(person, clones) /\ person \in [Clients -> Persons \cup {None}]
  BY DEF ClonesInv, Counted
<1>4. /\ Counted(q, new)
      /\ SameLimits(new, clones) /\ StrayGrown(new, clones)
  <2> PICK p : p = person OBVIOUS
  <2> PICK all : all = clones OBVIOUS
  <2>1. Counted(p, all) /\ p[c] = None
    BY <1>1, <1>3
  <2>2. /\ Counted([p EXCEPT ![c] = r], clones_add(all, c, h, r.local))
        /\ SameLimits(clones_add(all, c, h, r.local), all)
        /\ StrayGrown(clones_add(all, c, h, r.local), all)
    BY <1>2, <2>1, CloneAdded
  <2> QED BY <2>2
<1>5. /\ q \in [Clients -> Persons \cup {None}] /\ q[c] = r /\ r # None
      /\ \A d \in Clients : d # c => q[d] = person[d]
  BY <1>2, <1>3, ClonesNull
<1>6. CASE via = "link"
  <2>1. q[c].local # TRUE
    BY <1>2, <1>5
  <2>2. \A g \in Addrs : Plain(person', g) \subseteq Plain(person, g)
    BY <1>1, <1>3, <1>5, <1>6, <2>1, PlainAfter
  <2>3. StrayKept(clones', clones)
    BY <1>1, <1>4, <1>6 DEF StrayKept, StrayGrown
  <2> QED BY <1>1, <1>4, <1>6, <2>2, <2>3, LimitKept
<1>7. CASE via = "other"
  <2>1. [q EXCEPT ![c] = None] = person
    BY <1>1, <1>3, <1>5
  <2> PICK back : back = clones_remove(new, c, h, r.local) OBVIOUS
  <2>2. /\ Counted([q EXCEPT ![c] = None], back)
        /\ SameLimits(back, new) /\ StrayKept(back, new)
    BY <1>2, <1>4, <1>5, CloneRemoved
  <2>3. person' = person /\ clones' = back /\ eased' = eased
    BY <1>1, <1>7
  <2>4. SameLimits(back, clones) /\ StrayKept(back, clones) /\ Counted(person, back)
    <3> PICK b : b = clones OBVIOUS
    <3> PICK p : p = person OBVIOUS
    <3>1. Counted(p, b) /\ SameLimits(new, b) /\ StrayGrown(new, b) /\ Counted(p, back)
      BY <1>3, <1>4, <2>1, <2>2
    <3>2. SameLimits(back, b) /\ StrayKept(back, b)
      BY <1>4, <2>2, <3>1, KeptBoth
    <3> QED BY <3>1, <3>2
  <2> QED BY <2>3, <2>4, LimitKept
<1>8. CASE via = "me"
  <2>1. /\ Counted(m, bad) /\ SameLimits(bad, new) /\ StrayGrown(bad, new)
    BY <1>2, <1>4, <1>5, Blamed
  <2>2. m[c] = o /\ o # None /\ [m EXCEPT ![c] = None] = person
    BY <1>1, <1>2, <1>3, <1>5, ClonesNull
  <2> PICK back : back = clones_remove(bad, c, h, o.local) OBVIOUS
  <2>3. /\ Counted([m EXCEPT ![c] = None], back)
        /\ SameLimits(back, bad) /\ StrayKept(back, bad)
    <3>1. m[c] # None /\ m[c].ip = h /\ m[c].local = o.local
      BY <1>2, <2>2, Zenon
    <3>2. ASSUME NEW p, NEW all, Counted(p, all), p[c] # None, p[c].ip = h, p[c].local = o.local
          PROVE  LET z == [p EXCEPT ![c] = None]
                     n == clones_remove(all, c, h, o.local)
                 IN  Counted(z, n) /\ SameLimits(n, all) /\ StrayKept(n, all)
      <4>1. LET z == [p EXCEPT ![c] = None]
                n == clones_remove(all, c, h, p[c].local)
            IN  Counted(z, n) /\ SameLimits(n, all) /\ StrayKept(n, all)
        BY <3>2, CloneRemoved
      <4> QED BY <3>2, <4>1, Zenon
    <3> QED BY <2>1, <3>1, <3>2, Zenon
  <2>4. person' = person /\ clones' = back /\ eased' = eased
    BY <1>1, <1>8
  <2>5. SameLimits(back, clones) /\ StrayKept(back, clones) /\ Counted(person, back)
    <3> PICK b : b = clones OBVIOUS
    <3> PICK p : p = person OBVIOUS
    <3>1. Counted(p, b) /\ SameLimits(new, b) /\ StrayGrown(new, b) /\ Counted(p, back)
      BY <1>3, <1>4, <2>2, <2>3
    <3>3. SameLimits(back, new) /\ StrayKept(back, new)
      BY <1>4, <2>1, <2>3, <3>1, KeptBoth
    <3>4. SameLimits(back, b) /\ StrayKept(back, b)
      BY <1>4, <3>1, <3>3, KeptBoth
    <3> QED BY <3>1, <3>4
  <2> QED BY <2>4, <2>5, LimitKept
<1> QED BY <1>6, <1>7, <1>8

\* A client exits.
LEMMA CloneExits ==
  ASSUME ClonesInv, NEW c \in Clients, exit_one_client(c)
  PROVE  ClonesInv'
<1> PICK q : q = [person EXCEPT ![c] = None] OBVIOUS
<1> PICK r : r = person[c] OBVIOUS
<1>1. /\ r # None /\ person' = q /\ eased' = eased
      /\ clones' = IF r.ip = None THEN clones ELSE clones_remove(clones, c, r.ip, r.local)
  BY DEF exit_one_client
<1>2. Counted(person, clones) /\ person \in [Clients -> Persons \cup {None}]
  BY DEF ClonesInv, Counted
<1>3. /\ r \in Persons /\ q \in [Clients -> Persons \cup {None}] /\ q[c] = None
      /\ \A d \in Clients : d # c => q[d] = person[d]
  BY <1>1, <1>2
<1>4. \A g \in Addrs : Plain(person', g) \subseteq Plain(person, g)
  BY <1>1, <1>2, <1>3, PlainAfter
<1>5. CASE r.ip = None
  <2>1. Counted(q, clones)
    BY <1>2, <1>3, <1>5, Masked
  <2>2. clones' = clones /\ SameLimits(clones', clones) /\ StrayKept(clones', clones)
    BY <1>1, <1>2, <1>5, KeptSame DEF SameLimits
  <2> QED BY <1>1, <1>4, <2>1, <2>2, LimitKept
<1>6. CASE r.ip # None
  <2> PICK h : h = r.ip OBVIOUS
  <2> PICK new : new = clones_remove(clones, c, h, r.local) OBVIOUS
  <2>1. h \in Addrs
    BY <1>3, <1>6 DEF Persons
  <2>2. /\ Counted(q, new)
        /\ SameLimits(new, clones) /\ StrayKept(new, clones)
    <3> PICK p : p = person OBVIOUS
    <3> PICK all : all = clones OBVIOUS
    <3>1. Counted(p, all) /\ p[c] # None /\ p[c].ip = h
      BY <1>1, <1>2
    <3>2. /\ Counted([p EXCEPT ![c] = None], clones_remove(all, c, h, p[c].local))
          /\ SameLimits(clones_remove(all, c, h, p[c].local), all)
          /\ StrayKept(clones_remove(all, c, h, p[c].local), all)
      BY <2>1, <3>1, CloneRemoved
    <3> QED BY <3>2
  <2> QED BY <1>1, <1>4, <1>6, <2>2, LimitKept
<1> QED BY <1>5, <1>6

\* Somebody sets a limit.
LEMMA CloneSet ==
  ASSUME ClonesInv, NEW k \in Keys, NEW kind \in {"hard", "soft", "local"}, NEW n \in Nat,
         clones_set(k, kind, n)
  PROVE  ClonesInv'
<1>2. /\ Counted(person, clones) /\ person \in [Clients -> Persons \cup {None}]
      /\ clones \in [Keys -> CloneRecs \cup {None}]
  BY DEF ClonesInv, Counted
<1> PICK ce : ce = entry(clones[k]) OBVIOUS
<1>3. ce \in CloneRecs
  BY <1>2, EntryType
<1>4. PICK f \in CloneRecs : /\ f.gcount = ce.gcount /\ f.lcount = ce.lcount /\ f.wrong = ce.wrong /\ f.clients = ce.clients
                             /\ clones' = [clones EXCEPT ![k] = expire_clone(f)]
  <2>1. CASE kind = "hard"
    <3> PICK sg : sg = IF n # 0 /\ ce.sglimit > n THEN 0 ELSE ce.sglimit OBVIOUS
    <3> PICK g : g = [ce EXCEPT !.limit = n] OBVIOUS
    <3> PICK f : f = [g EXCEPT !.sglimit = sg] OBVIOUS
    <3>1. sg \in Nat
      BY <1>3, RecFields
    <3>2. /\ g \in CloneRecs /\ g.gcount = ce.gcount /\ g.lcount = ce.lcount /\ g.wrong = ce.wrong /\ g.clients = ce.clients
          /\ g.sglimit = ce.sglimit
      BY <1>3 DEF CloneRecs
    <3>3. f \in CloneRecs /\ f.gcount = ce.gcount /\ f.lcount = ce.lcount /\ f.wrong = ce.wrong /\ f.clients = ce.clients
      BY <3>1, <3>2 DEF CloneRecs
    <3>4. clones' = [clones EXCEPT ![k] = expire_clone(f)]
      BY <2>1, <3>2 DEF clones_set, Entry
    <3> QED BY <3>3, <3>4
  <2>2. CASE kind = "soft"
    <3> PICK f : f = [ce EXCEPT !.sglimit = n] OBVIOUS
    <3>1. f \in CloneRecs /\ f.gcount = ce.gcount /\ f.lcount = ce.lcount /\ f.wrong = ce.wrong /\ f.clients = ce.clients
      BY <1>3 DEF CloneRecs
    <3>2. clones' = [clones EXCEPT ![k] = expire_clone(f)]
      BY <2>2 DEF clones_set, Entry
    <3> QED BY <3>1, <3>2
  <2>3. CASE kind = "local"
    <3> PICK f : f = [ce EXCEPT !.sllimit = n] OBVIOUS
    <3>1. f \in CloneRecs /\ f.gcount = ce.gcount /\ f.lcount = ce.lcount /\ f.wrong = ce.wrong /\ f.clients = ce.clients
      BY <1>3 DEF CloneRecs
    <3>2. clones' = [clones EXCEPT ![k] = expire_clone(f)]
      BY <2>3 DEF clones_set, Entry
    <3> QED BY <3>1, <3>2
  <2> QED BY <2>1, <2>2, <2>3
<1>5. person' = person /\ eased' = eased \cup {k}
  BY DEF clones_set
<1>6. /\ clones'[k] = expire_clone(f) /\ \A j \in Keys : j # k => clones'[j] = clones[j]
      /\ clones' \in [Keys -> CloneRecs \cup {None}]
  BY <1>2, <1>4 DEF expire_clone
<1>7. Counts(person, expire_clone(f), k)
  <2>1. /\ IsFiniteSet(AtOf(person, k)) /\ ce.gcount = Cardinality(AtOf(person, k))
        /\ ce.lcount + ce.wrong = Cardinality(OursOf(person, k))
        /\ k \in Addrs => Range(ce.clients) = AtOf(person, k) /\ IsInjective(ce.clients)
    <3>1. Counts(person, clones[k], k)
      BY <1>2 DEF Counted
    <3> QED BY <3>1 DEF Counts
  <2>2. f.gcount = 0 <=> AtOf(person, k) = {}
    BY <1>4, <2>1, FS_EmptySet
  <2>3. CASE f.gcount = 0 /\ f.limit = 0 /\ f.sglimit = 0 /\ f.sllimit = 0
    <3>1. expire_clone(f) = None /\ entry(None) = NoClone
      BY <2>3 DEF expire_clone, entry
    <3>2. AtOf(person, k) = {} /\ OursOf(person, k) = {} /\ Cardinality({}) = 0
      BY <2>2, <2>3, FS_EmptySet DEF OursOf
    <3>3. Range(<< >>) = {} /\ IsInjective(<< >>)
      BY DEF Range, IsInjective
    <3> QED BY <2>1, <3>1, <3>2, <3>3, EntryType DEF Counts
  <2>4. CASE ~ (f.gcount = 0 /\ f.limit = 0 /\ f.sglimit = 0 /\ f.sllimit = 0)
    <3>1. expire_clone(f) = f /\ entry(f) = f /\ f # None
      BY <2>4, EntryType DEF expire_clone
    <3>2. AtOf(person, k) # {} \/ <<f.limit, f.sglimit, f.sllimit>> # <<0, 0, 0>>
      BY <2>2, <2>4
    <3> QED BY <1>4, <2>1, <3>1, <3>2 DEF Counts
  <2> QED BY <2>3, <2>4
<1>8. Counted(person', clones')
  <2>1. \A j \in Keys : Counts(person, clones[j], j)
    BY <1>2 DEF Counted
  <2>2. \A j \in Keys : Counts(person, clones'[j], j)
    BY <1>6, <1>7, <2>1
  <2> QED BY <1>2, <1>5, <1>6, <2>2 DEF Counted
<1>9. \A j \in Keys : j \notin eased' => Strict(j)'
  <2>1. \A j \in Keys : j \notin eased => Strict(j)
    BY DEF ClonesInv
  <2> QED BY <1>5, <1>6, <2>1 DEF Strict
<1>10. \A g \in Addrs : g \notin eased' /\ siteOf[g] \notin eased'
                        => Cardinality(Plain(person', g)) <= LocalLimit + entry(clones'[g]).wrong
  <2> TAKE g \in Addrs
  <2>1. CASE g = k
    BY <1>5, <2>1
  <2>2. CASE g # k
    <3>1. clones'[g] = clones[g]
      BY <1>6, <2>2 DEF Keys
    <3> QED BY <1>5, <3>1 DEF ClonesInv
  <2> QED BY <2>1, <2>2
<1> QED BY <1>8, <1>9, <1>10 DEF ClonesInv

\* Every step counts the clients where they are.
LEMMA ClonesStep ==
  ClonesInv /\ [ClonesNext \/ (ThrottleNext /\ UNCHANGED clonesVars)]_<<clonesVars, throttleVars>> => ClonesInv'
<1> SUFFICES ASSUME ClonesInv,
                    [ClonesNext \/ (ThrottleNext /\ UNCHANGED clonesVars)]_<<clonesVars, throttleVars>>
             PROVE  ClonesInv'
  OBVIOUS
<1>1. CASE ClonesNext
  <2>1. ASSUME NEW set \in Settable, clones_set(set[1], set[2], set[3]) PROVE ClonesInv'
    <3>1. set[1] \in Keys /\ set[2] \in {"hard", "soft", "local"} /\ set[3] \in Nat
      BY ClonesAssumption DEF Keys
    <3> QED BY <2>1, <3>1, CloneSet
  <2> QED BY <1>1, <2>1, RegisterHere, RegisterThere, CloneExits DEF ClonesNext
<1>2. CASE UNCHANGED clonesVars
  BY <1>2 DEF clonesVars, ClonesInv, Strict
<1> QED BY <1>1, <1>2

\* Counting right, the limits hold.
LEMMA ClonesInvRight == ClonesInv => ClonesRight
<1> SUFFICES ASSUME ClonesInv PROVE ClonesRight
  OBVIOUS
<1>1. \A k \in Keys : Counts(person, clones[k], k)
  BY DEF ClonesInv, Counted
<1>2. \A k \in Keys : At(k) = AtOf(person, k)
  BY DEF At, AtOf
<1>3. \A k \in Keys : Ours(k) = OursOf(person, k)
  <2> TAKE k \in Keys
  <2>1. \A c \in AtOf(person, k) : person[c] \in Persons
    BY DEF AtOf, ClonesInv, Counted
  <2>2. \A c \in AtOf(person, k) : person[c].local <=> person[c].local = TRUE
    BY <2>1 DEF Persons
  <2> QED BY <1>2, <2>2 DEF Ours, OursOf
<1>4. CloneCounts
  BY <1>1, <1>2, <1>3 DEF CloneCounts, Counts, Entry
<1>5. ASSUME NEW h \in Addrs, {h, siteOf[h]} \cap eased = {}, \A c \in Ours(h) : ~ person[c].free
      PROVE  Cardinality(Ours(h)) <= LocalLimit + Entry(h).wrong
  <2>1. h \in Keys
    BY DEF Keys
  <2>2. Plain(person, h) = Ours(h)
    <3>1. \A c \in OursOf(person, h) : person[c] \in Persons
      BY DEF OursOf, AtOf, ClonesInv, Counted
    <3>2. \A c \in OursOf(person, h) : person[c].free = FALSE
      BY <1>3, <1>5, <2>1, <3>1 DEF Persons
    <3> QED BY <1>3, <2>1, <3>2 DEF Plain
  <2>3. Cardinality(Plain(person, h)) <= LocalLimit + Entry(h).wrong
    BY <1>5 DEF ClonesInv, Entry
  <2> QED BY <2>2, <2>3
<1>6. ClonesLimited
  BY <1>5 DEF ClonesLimited
<1> QED BY <1>4, <1>6 DEF ClonesRight

\* For every set of addresses and limits: the clone table counts every client
\* where it is, whatever fails half-way and whoever is counted without an address,
\* and no more clients than the default limit pass it, but for the introductions
\* that name this server and so lower the local count (clones.c).
THEOREM ClonesAlwaysRight == ClonesSpec => []ClonesRight
<1> QED BY ClonesStart, ClonesStep, ClonesInvRight, PTL DEF ClonesSpec

----------------------------------------------------------------------------
(* Module Throttle: the record of one host and the log of its connections. *)

Entries == [time : Nat, ok : BOOLEAN, wait : Nat]

\* How many of i .. j were let in.
Passed(a, i, j) == Cardinality({x \in i .. j : a[x].ok})

\* How many of the current count were let in, at most.
Current(tp) == IF tp.conns \in 0 .. TrigCount - 1 THEN tp.conns ELSE TrigCount - 1

\* StaysOut and NoBurst of one log.
Stay(a) == \A i, j \in 1 .. Len(a) : i < j /\ ~ a[i].ok /\ a[j].ok => a[j].time - a[i].time >= a[i].wait
Burst(a) == \A i, j \in 1 .. Len(a) : i < j /\ Passed(a, i, j) >= 2 * TrigCount - 1
                                        => a[j].time - a[i].time > TrigTime

LogOK(a, now) ==
  /\ a \in Seq(Entries) /\ Stay(a) /\ Burst(a)
  /\ \A i \in 1 .. Len(a) : a[i].time <= now
  /\ \A i, j \in 1 .. Len(a) : i < j => a[i].time <= a[j].time

\* Whoever was sent away has waited, or is kept out until `till' by the record.
Kept(a, now, till) ==
  \A i \in 1 .. Len(a) : ~ a[i].ok => a[i].time + a[i].wait <= now \/ a[i].time + a[i].wait <= till

\* No record: all is long ago.
NoneOK(a, now) == /\ \A i \in 1 .. Len(a) : a[i].time + TrigTime < now
                  /\ Kept(a, now, now)

\* A z-line.
ZlineOK(tp, a, now) ==
  /\ tp.stage # -1 /\ tp.zline_start <= now
  /\ \A i \in 1 .. Len(a) : a[i].time <= tp.zline_start
  /\ Kept(a, now, tp.zline_start + throttle_get_zline_time(tp.stage))

\* A count: those let in since it began are counted, and of those within TrigTime
\* no more than another count's.
CountOK(tp, a, now) ==
  /\ tp.first <= now /\ tp.first <= tp.last + TrigTime
  /\ \A i \in 1 .. Len(a) : a[i].time <= tp.first + TrigTime /\ a[i].time <= tp.last + TrigTime
  /\ Kept(a, now, IF tp.conns = -1 THEN tp.first + TrigTime + 1 ELSE now)
  /\ \A i \in 1 .. Len(a) : tp.first <= a[i].time => Passed(a, i, Len(a)) <= Current(tp)
  /\ \A i \in 1 .. Len(a) : now <= a[i].time + TrigTime
                              => Passed(a, i, Len(a)) <= TrigCount - 1 + Current(tp)

RecordOK(tp, a, now) ==
  \/ tp = None /\ NoneOK(a, now)
  \/ tp \in ThrottleRecs /\ tp.zline_start # 0 /\ ZlineOK(tp, a, now)
  \/ tp \in ThrottleRecs /\ tp.zline_start = 0 /\ CountOK(tp, a, now)

HostOK(tp, a, now) == LogOK(a, now) /\ RecordOK(tp, a, now)

ThrottleInv ==
  /\ NOW \in Nat \ {0}
  /\ throttles \in [Addrs -> ThrottleRecs \cup {None}] /\ attempts \in [Addrs -> Seq(Entries)]
  /\ \A h \in Addrs : HostOK(throttles[h], attempts[h], NOW)

----------------------------------------------------------------------------
(* Counting.                                                               *)

LEMMA PassedFinite ==
  ASSUME NEW a, NEW i \in Int, NEW j \in Int
  PROVE  IsFiniteSet({x \in i .. j : a[x].ok}) /\ Passed(a, i, j) \in Nat
<1>1. IsFiniteSet(i .. j)
  BY FS_Interval
<1>2. {x \in i .. j : a[x].ok} \subseteq i .. j
  OBVIOUS
<1>3. IsFiniteSet({x \in i .. j : a[x].ok})
  BY <1>1, <1>2, FS_Subset
<1> QED BY <1>3, FS_CardinalityType DEF Passed

\* A log that is one longer.
Appended(b, a, e) == b = Append(a, e)

LEMMA PassedAppend ==
  ASSUME NEW a \in Seq(Entries), NEW e \in Entries, NEW b, Appended(b, a, e), NEW i \in 1 .. Len(a) + 1
  PROVE  /\ \A j \in 0 .. Len(a) : Passed(b, i, j) = Passed(a, i, j)
         /\ e.ok => Passed(b, i, Len(a) + 1) = Passed(a, i, Len(a)) + 1
         /\ ~ e.ok => Passed(b, i, Len(a) + 1) = Passed(a, i, Len(a))
<1>1. PICK n \in Nat : n = Len(a)
  OBVIOUS
<1>2. \A x \in 1 .. n : b[x] = a[x]
  BY <1>1 DEF Appended
<1>3. b[n + 1] = e
  BY <1>1 DEF Appended
<1>4. ASSUME NEW j \in 0 .. n PROVE Passed(b, i, j) = Passed(a, i, j)
  <2>1. \A x \in i .. j : b[x] = a[x]
    BY <1>1, <1>2
  <2>2. {x \in i .. j : b[x].ok} = {x \in i .. j : a[x].ok}
    BY <2>1
  <2> QED BY <2>2 DEF Passed
<1>5. PICK S : S = {x \in i .. n : a[x].ok}
  OBVIOUS
<1>6. IsFiniteSet(S) /\ Cardinality(S) = Passed(a, i, n) /\ Cardinality(S) \in Nat
  <2>1. i \in Int /\ n \in Int
    BY <1>1
  <2> QED BY <1>5, <2>1, PassedFinite DEF Passed
<1>7. n + 1 \notin S
  BY <1>5
<1>8. \A x : x \in i .. n + 1 <=> x \in i .. n \/ x = n + 1
  BY <1>1
<1>9. \A x \in i .. n : b[x] = a[x]
  BY <1>1, <1>2
<1>10. CASE e.ok
  <2>1. {x \in i .. n + 1 : b[x].ok} = S \cup {n + 1}
    BY <1>3, <1>5, <1>8, <1>9, <1>10
  <2>2. Cardinality(S \cup {n + 1}) = Cardinality(S) + 1
    BY <1>6, <1>7, FS_AddElement
  <2> QED BY <1>1, <1>4, <1>6, <1>10, <2>1, <2>2 DEF Passed
<1>11. CASE ~ e.ok
  <2>1. {x \in i .. n + 1 : b[x].ok} = S
    BY <1>3, <1>5, <1>8, <1>9, <1>11
  <2> QED BY <1>1, <1>4, <1>6, <1>11, <2>1 DEF Passed
<1> QED BY <1>10, <1>11

\* The oldest entry is dropped.
Dropped(b, a) == a # << >> /\ b = Tail(a)

LEMMA PassedTail ==
  ASSUME NEW a \in Seq(Entries), NEW b, Dropped(b, a),
         NEW i \in 1 .. Len(b), NEW j \in 1 .. Len(b)
  PROVE  Passed(b, i, j) = Passed(a, i + 1, j + 1)
<1>1. /\ Len(b) = Len(a) - 1 /\ Len(a) \in Nat /\ Len(b) \in Nat
      /\ \A x \in 1 .. Len(b) : b[x] = a[x + 1]
  BY DEF Dropped
<1>2. PICK S, T : S = {x \in i .. j : b[x].ok} /\ T = {x \in i + 1 .. j + 1 : a[x].ok}
  OBVIOUS
<1>3. \A x \in i .. j : x \in 1 .. Len(b) /\ x + 1 \in i + 1 .. j + 1
  BY <1>1
<1>4. \A y \in i + 1 .. j + 1 : y - 1 \in i .. j /\ y - 1 + 1 = y
  BY <1>1
<1> DEFINE f == [x \in S |-> x + 1]
<1>5. \A x \in S : x \in Int /\ x + 1 \in T
  BY <1>1, <1>2, <1>3
<1>6. f \in Injection(S, T)
  BY <1>5 DEF Injection, IsInjective
<1>7. \A y \in T : y - 1 \in S /\ y - 1 + 1 = y
  BY <1>1, <1>2, <1>3, <1>4
<1>8. f \in Surjection(S, T)
  <2>1. f \in [S -> T]
    BY <1>5
  <2>2. \A y \in T : \E x \in S : f[x] = y
    BY <1>7
  <2> QED BY <2>1, <2>2 DEF Surjection
<1>9. ExistsBijection(S, T)
  BY <1>6, <1>8 DEF ExistsBijection, Bijection
<1>10. IsFiniteSet(S)
  <2>1. i \in Int /\ j \in Int
    BY <1>1
  <2> QED BY <1>2, <2>1, PassedFinite
<1>11. Cardinality(T) = Cardinality(S)
  BY <1>9, <1>10, FS_Bijection
<1> QED BY <1>2, <1>11 DEF Passed

----------------------------------------------------------------------------
(* Logs.                                                                   *)

LEMMA TypeOfEntry ==
  ASSUME NEW a \in Seq(Entries), NEW i \in 1 .. Len(a)
  PROVE  a[i] \in Entries /\ a[i].time \in Nat /\ a[i].ok \in BOOLEAN /\ a[i].wait \in Nat
<1>1. a[i] \in Entries
  OBVIOUS
<1> QED BY <1>1 DEF Entries

\* What holds of a log holds of it without its oldest entry.
LEMMA ShorterLog ==
  ASSUME NEW a, NEW tp, NEW now \in Nat, HostOK(tp, a, now), NEW b, Dropped(b, a)
  PROVE  HostOK(tp, b, now)
<1>1. a \in Seq(Entries)
  BY DEF HostOK, LogOK
<1>2. PICK n \in Nat : n = Len(b)
  BY <1>1 DEF Dropped
<1>3. /\ b \in Seq(Entries) /\ Len(a) = n + 1
      /\ \A i \in 1 .. n : b[i] = a[i + 1] /\ i + 1 \in 1 .. Len(a)
  BY <1>1, <1>2 DEF Dropped
<1>4. ASSUME NEW i \in 1 .. n, NEW j \in 1 .. n PROVE Passed(b, i, j) = Passed(a, i + 1, j + 1)
  <2>1. i \in 1 .. Len(b) /\ j \in 1 .. Len(b)
    BY <1>2
  <2> QED BY <1>1, <2>1, PassedTail
<1>5. ASSUME NEW i \in 1 .. n PROVE Passed(b, i, n) = Passed(a, i + 1, Len(a))
  <2>1. n \in 1 .. n
    OBVIOUS
  <2> QED BY <1>3, <1>4, <2>1
<1>6. \A i, j \in 1 .. n : i < j => i + 1 < j + 1
  OBVIOUS
<1>7. Stay(b)
  BY <1>2, <1>3, <1>6 DEF HostOK, LogOK, Stay
<1>8. Burst(b)
  BY <1>2, <1>3, <1>4, <1>6 DEF HostOK, LogOK, Burst
<1>9. LogOK(b, now)
  BY <1>2, <1>3, <1>6, <1>7, <1>8 DEF HostOK, LogOK
<1>10. \A till : Kept(a, now, till) => Kept(b, now, till)
  BY <1>2, <1>3 DEF Kept
<1>11. CASE tp = None /\ NoneOK(a, now)
  <2>1. NoneOK(b, now)
    BY <1>2, <1>3, <1>10, <1>11 DEF NoneOK
  <2> QED BY <1>9, <1>11, <2>1 DEF HostOK, RecordOK
<1>12. CASE tp \in ThrottleRecs /\ tp.zline_start # 0 /\ ZlineOK(tp, a, now)
  <2>1. ZlineOK(tp, b, now)
    BY <1>2, <1>3, <1>10, <1>12 DEF ZlineOK
  <2> QED BY <1>9, <1>12, <2>1 DEF HostOK, RecordOK
<1>13. CASE tp \in ThrottleRecs /\ tp.zline_start = 0 /\ CountOK(tp, a, now)
  <2>1. CountOK(tp, b, now)
    BY <1>2, <1>3, <1>5, <1>10, <1>13 DEF CountOK
  <2> QED BY <1>9, <1>13, <2>1 DEF HostOK, RecordOK
<1> QED BY <1>11, <1>12, <1>13 DEF HostOK, RecordOK

\* ... and without a newest one that was sent away.
LEMMA WithoutLast ==
  ASSUME NEW a \in Seq(Entries), NEW e \in Entries, ~ e.ok, NEW b, Appended(b, a, e),
         NEW tp, NEW now \in Nat, HostOK(tp, b, now)
  PROVE  HostOK(tp, a, now)
<1>1. PICK n \in Nat : n = Len(a)
  OBVIOUS
<1>2. b \in Seq(Entries) /\ Len(b) = n + 1 /\ \A i \in 1 .. n : b[i] = a[i] /\ i \in 1 .. Len(b)
  BY <1>1 DEF Appended
<1>3. ASSUME NEW i \in 1 .. n, NEW j \in 1 .. n PROVE Passed(b, i, j) = Passed(a, i, j)
  <2>1. i \in 1 .. Len(a) + 1 /\ j \in 0 .. Len(a)
    BY <1>1
  <2> QED BY <2>1, PassedAppend
<1>4. ASSUME NEW i \in 1 .. n PROVE Passed(b, i, Len(b)) = Passed(a, i, n)
  <2>1. i \in 1 .. Len(a) + 1
    BY <1>1
  <2>2. Passed(b, i, Len(a) + 1) = Passed(a, i, Len(a))
    BY <2>1, PassedAppend
  <2> QED BY <1>1, <1>2, <2>2
<1>7. Stay(a)
  BY <1>1, <1>2 DEF HostOK, LogOK, Stay
<1>8. Burst(a)
  BY <1>1, <1>2, <1>3 DEF HostOK, LogOK, Burst
<1>9. LogOK(a, now)
  BY <1>1, <1>2, <1>7, <1>8 DEF HostOK, LogOK
<1>10. \A till : Kept(b, now, till) => Kept(a, now, till)
  BY <1>1, <1>2 DEF Kept
<1>11. CASE tp = None /\ NoneOK(b, now)
  <2>1. NoneOK(a, now)
    BY <1>1, <1>2, <1>10, <1>11 DEF NoneOK
  <2> QED BY <1>9, <1>11, <2>1 DEF HostOK, RecordOK
<1>12. CASE tp \in ThrottleRecs /\ tp.zline_start # 0 /\ ZlineOK(tp, b, now)
  <2>1. ZlineOK(tp, a, now)
    BY <1>1, <1>2, <1>10, <1>12 DEF ZlineOK
  <2> QED BY <1>9, <1>12, <2>1 DEF HostOK, RecordOK
<1>13. CASE tp \in ThrottleRecs /\ tp.zline_start = 0 /\ CountOK(tp, b, now)
  <2>1. CountOK(tp, a, now)
    BY <1>1, <1>2, <1>4, <1>10, <1>13 DEF CountOK
  <2> QED BY <1>9, <1>13, <2>1 DEF HostOK, RecordOK
<1> QED BY <1>11, <1>12, <1>13 DEF HostOK, RecordOK


----------------------------------------------------------------------------
(* What throttle_check makes of a record.                                  *)

\* A count begins.
Fresh(q, t) == q \in ThrottleRecs /\ q.zline_start = 0 /\ q.conns = 1 /\ q.first = t /\ q.last = t

\* A count goes on.
CountsOn(q, tp, t) ==
  /\ q \in ThrottleRecs /\ q.zline_start = 0 /\ q.first = tp.first /\ q.last = t
  /\ q.conns = IF tp.conns >= 0 THEN tp.conns + 1 ELSE tp.conns

\* When it does the one or the other.
Old(tp, t) == \/ tp = None
              \/ tp \in ThrottleRecs /\ tp.zline_start # 0 /\ ~ zlined(tp, t)
              \/ tp \in ThrottleRecs /\ tp.zline_start = 0 /\ t - tp.first > TrigTime
Young(tp, t) == tp \in ThrottleRecs /\ tp.zline_start = 0 /\ t - tp.first <= TrigTime

Zlined(q, t, stage) == q \in ThrottleRecs /\ q.zline_start = t /\ q.stage = stage

LEMMA ThrottleFields ==
  ASSUME NEW tp \in ThrottleRecs
  PROVE  /\ tp # None /\ tp.stage \in Nat \cup {-1} /\ tp.zline_start \in Nat
         /\ tp.conns \in Nat \cup {-1} /\ tp.first \in Nat /\ tp.last \in Nat
BY ThrottleNull DEF ThrottleRecs

LEMMA RenewedOK ==
  ASSUME NEW tp \in ThrottleRecs \cup {None}, NEW t \in Nat
  PROVE  LET q == renewed(tp, t)
         IN /\ q \in ThrottleRecs /\ q.zline_start = 0
            /\ tp = None \/ tp.zline_start # 0 => q.conns = 0 /\ q.first = t
            /\ tp \in ThrottleRecs /\ tp.zline_start = 0 => q = tp
            /\ tp \in ThrottleRecs => q.stage = tp.stage
<1>1. CASE tp = None
  <2>1. PICK q : q = new_throttle(t)
    OBVIOUS
  <2>2. renewed(tp, t) = q
    BY <1>1, <2>1 DEF renewed
  <2>3. q \in ThrottleRecs /\ q.zline_start = 0 /\ q.conns = 0 /\ q.first = t
    BY <2>1 DEF new_throttle, ThrottleRecs
  <2> QED BY <1>1, <2>2, <2>3, ThrottleNull
<1>2. CASE tp \in ThrottleRecs /\ tp.zline_start # 0
  <2>1. PICK f : f = [tp EXCEPT !.conns = 0]
    OBVIOUS
  <2>2. PICK g : g = [f EXCEPT !.first = t]
    OBVIOUS
  <2>3. PICK q : q = [g EXCEPT !.zline_start = 0]
    OBVIOUS
  <2>4. tp # None
    BY <1>2, ThrottleFields
  <2>5. renewed(tp, t) = q
    BY <1>2, <2>1, <2>2, <2>3, <2>4 DEF renewed
  <2>6. f \in ThrottleRecs /\ f.conns = 0 /\ f.stage = tp.stage
    BY <1>2, <2>1 DEF ThrottleRecs
  <2>7. g \in ThrottleRecs /\ g.conns = 0 /\ g.stage = tp.stage /\ g.first = t
    BY <2>2, <2>6 DEF ThrottleRecs
  <2>8. q \in ThrottleRecs /\ q.conns = 0 /\ q.stage = tp.stage /\ q.first = t /\ q.zline_start = 0
    BY <2>3, <2>7 DEF ThrottleRecs
  <2> QED BY <1>2, <2>4, <2>5, <2>8
<1>3. CASE tp \in ThrottleRecs /\ tp.zline_start = 0
  <2>1. tp # None
    BY <1>3, ThrottleFields
  <2>2. renewed(tp, t) = tp
    BY <1>3, <2>1 DEF renewed
  <2> QED BY <1>3, <2>1, <2>2
<1> QED BY <1>1, <1>2, <1>3

LEMMA CountedOK ==
  ASSUME NEW q \in ThrottleRecs, q.zline_start = 0, NEW t \in Nat
  PROVE  CountsOn(counted_conn(q, t), q, t) /\ counted_conn(q, t).stage = q.stage
<1>1. PICK n : n = IF q.conns >= 0 THEN q.conns + 1 ELSE q.conns
  OBVIOUS
<1>2. n \in Nat \cup {-1}
  BY <1>1, ThrottleFields
<1>3. PICK f : f = [q EXCEPT !.conns = n]
  OBVIOUS
<1>4. PICK g : g = [f EXCEPT !.last = t]
  OBVIOUS
<1>5. counted_conn(q, t) = g
  BY <1>1, <1>3, <1>4 DEF counted_conn
<1>6. f \in ThrottleRecs /\ f.conns = n /\ f.zline_start = 0 /\ f.first = q.first /\ f.stage = q.stage
  BY <1>2, <1>3 DEF ThrottleRecs
<1>7. /\ g \in ThrottleRecs /\ g.conns = n /\ g.zline_start = 0 /\ g.first = q.first
      /\ g.last = t /\ g.stage = q.stage
  BY <1>4, <1>6 DEF ThrottleRecs
<1> QED BY <1>1, <1>5, <1>7 DEF CountsOn

\* The record c that the connection at t is counted in.
CountedIn(c, tp, t) == c = counted_conn(renewed(tp, t), t)

LEMMA CountedInOK ==
  ASSUME NEW tp \in ThrottleRecs \cup {None}, NEW t \in Nat, ~ zlined(tp, t), NEW c, CountedIn(c, tp, t)
  PROVE  /\ c \in ThrottleRecs
         /\ \/ Old(tp, t) /\ t - c.first > TrigTime /\ c.zline_start = 0 /\ c.last = t
            \/ Old(tp, t) /\ Fresh(c, t)
            \/ Young(tp, t) /\ CountsOn(c, tp, t) /\ c.stage = tp.stage
         /\ Young(tp, t) => t - c.first <= TrigTime
<1>1. PICK q : q = renewed(tp, t)
  OBVIOUS
<1>2. /\ q \in ThrottleRecs /\ q.zline_start = 0
      /\ tp = None \/ tp.zline_start # 0 => q.conns = 0 /\ q.first = t
      /\ tp \in ThrottleRecs /\ tp.zline_start = 0 => q = tp
  BY <1>1, RenewedOK
<1>3. CountsOn(c, q, t) /\ c.stage = q.stage
  BY <1>1, <1>2, CountedOK DEF CountedIn
<1>4. CASE tp = None \/ (tp \in ThrottleRecs /\ tp.zline_start # 0)
  <2>1. q.conns = 0 /\ q.first = t
    BY <1>2, <1>4
  <2>2. Fresh(c, t)
    BY <1>3, <2>1 DEF CountsOn, Fresh
  <2>3. Old(tp, t) /\ ~ Young(tp, t)
    BY <1>4, ThrottleNull DEF Old, Young
  <2> QED BY <1>3, <2>2, <2>3 DEF CountsOn
<1>5. CASE tp \in ThrottleRecs /\ tp.zline_start = 0
  <2>1. CountsOn(c, tp, t) /\ c.stage = tp.stage
    BY <1>2, <1>3, <1>5
  <2>2. tp.first \in Nat /\ c.first = tp.first
    BY <1>5, <2>1, ThrottleFields DEF CountsOn
  <2>3. CASE t - tp.first > TrigTime
    BY <1>5, <2>1, <2>2, <2>3, ThrottleAssumption DEF Old, Young, CountsOn
  <2>4. CASE t - tp.first <= TrigTime
    BY <1>5, <2>1, <2>2, <2>4 DEF Young, CountsOn
  <2> QED BY <2>2, <2>3, <2>4, ThrottleAssumption
<1> QED BY <1>4, <1>5

\* What throttle_check answers, here and for a remote signon.
Here(r, tp, t)  == r = throttle_check(tp, TRUE, t)
There(q, tp, t) == q = throttle_check(tp, FALSE, t).tp

Answered(r, tp, t) ==
  \/ tp \in ThrottleRecs /\ zlined(tp, t) /\ r.ok = FALSE /\ Zlined(r.tp, t, tp.stage)
  \/ Old(tp, t) /\ r.ok = TRUE /\ Fresh(r.tp, t)
  \/ /\ Young(tp, t) /\ tp.conns >= 0 /\ tp.conns + 1 < TrigCount
     /\ r.ok = TRUE /\ CountsOn(r.tp, tp, t)
  \/ /\ Young(tp, t) /\ tp.conns >= 0 /\ tp.conns + 1 >= TrigCount
     /\ r.ok = FALSE /\ Zlined(r.tp, t, tp.stage + 1)
  \/ /\ Young(tp, t) /\ tp.conns = -1
     /\ r.ok = FALSE /\ CountsOn(r.tp, tp, t)

Left(q, tp, t) == \/ tp \in ThrottleRecs /\ zlined(tp, t) /\ q = tp
                  \/ Old(tp, t) /\ Fresh(q, t)
                  \/ Young(tp, t) /\ CountsOn(q, tp, t)

\* A count that is too old begins again.
LEMMA RestartOK ==
  ASSUME NEW c \in ThrottleRecs, c.zline_start = 0, NEW t \in Nat, c.last = t
  PROVE  Fresh([c EXCEPT !.conns = 1, !.first = t], t)
<1>1. PICK f : f = [c EXCEPT !.conns = 1]
  OBVIOUS
<1>2. PICK g : g = [f EXCEPT !.first = t]
  OBVIOUS
<1>3. f \in ThrottleRecs /\ f.conns = 1 /\ f.zline_start = 0 /\ f.last = t
  BY <1>1 DEF ThrottleRecs
<1>4. g \in ThrottleRecs /\ g.conns = 1 /\ g.zline_start = 0 /\ g.last = t /\ g.first = t
  BY <1>2, <1>3 DEF ThrottleRecs
<1>5. g = [c EXCEPT !.conns = 1, !.first = t]
  BY <1>1, <1>2
<1> QED BY <1>4, <1>5 DEF Fresh

\* ... and one that is full becomes a z-line.
LEMMA OffenceOK ==
  ASSUME NEW c \in ThrottleRecs, NEW t \in Nat
  PROVE  Zlined([c EXCEPT !.stage = c.stage + 1, !.zline_start = t], t, c.stage + 1)
<1>1. PICK f : f = [c EXCEPT !.stage = c.stage + 1]
  OBVIOUS
<1>2. PICK g : g = [f EXCEPT !.zline_start = t]
  OBVIOUS
<1>3. c.stage + 1 \in Nat
  BY ThrottleFields
<1>4. f \in ThrottleRecs /\ f.stage = c.stage + 1
  BY <1>1, <1>3 DEF ThrottleRecs
<1>5. g \in ThrottleRecs /\ g.stage = c.stage + 1 /\ g.zline_start = t
  BY <1>2, <1>4 DEF ThrottleRecs
<1>6. g = [c EXCEPT !.stage = c.stage + 1, !.zline_start = t]
  BY <1>1, <1>2
<1> QED BY <1>5, <1>6 DEF Zlined

LEMMA CheckHere ==
  ASSUME NEW tp \in ThrottleRecs \cup {None}, NEW t \in Nat, NEW r, Here(r, tp, t)
  PROVE  Answered(r, tp, t)
<1>1. CASE zlined(tp, t)
  <2>1. tp \in ThrottleRecs
    BY <1>1 DEF zlined
  <2>2. PICK q : q = [tp EXCEPT !.zline_start = t]
    OBVIOUS
  <2>3. q \in ThrottleRecs /\ q.zline_start = t /\ q.stage = tp.stage
    BY <2>1, <2>2 DEF ThrottleRecs
  <2>4. r = [ok |-> FALSE, tp |-> q]
    BY <1>1, <2>2 DEF Here, throttle_check
  <2>5. r.ok = FALSE /\ r.tp = q
    BY <2>4
  <2> QED BY <1>1, <2>1, <2>3, <2>5 DEF Answered, Zlined
<1>2. CASE ~ zlined(tp, t)
  <2>1. PICK c : CountedIn(c, tp, t)
    BY DEF CountedIn
  <2>2. /\ c \in ThrottleRecs
        /\ \/ Old(tp, t) /\ t - c.first > TrigTime /\ c.zline_start = 0 /\ c.last = t
           \/ Old(tp, t) /\ Fresh(c, t)
           \/ Young(tp, t) /\ CountsOn(c, tp, t) /\ c.stage = tp.stage
        /\ Young(tp, t) => t - c.first <= TrigTime
    BY <1>2, <2>1, CountedInOK
  <2>3. c.first \in Nat /\ c.conns \in Nat \cup {-1} /\ TrigTime \in Nat /\ TrigCount \in Nat /\ TrigCount >= 2
    BY <2>2, ThrottleFields, ThrottleAssumption
  <2>4. CASE t - c.first > TrigTime
    <3>1. r = [ok |-> TRUE, tp |-> [c EXCEPT !.conns = 1, !.first = t]]
      BY <1>2, <2>1, <2>4 DEF Here, throttle_check, CountedIn
    <3>2. PICK q : q = [c EXCEPT !.conns = 1, !.first = t]
      OBVIOUS
    <3>3. r.ok = TRUE /\ r.tp = q
      BY <3>1, <3>2
    <3>4. Old(tp, t) /\ c.zline_start = 0 /\ c.last = t
      BY <2>2, <2>3, <2>4 DEF Fresh
    <3>5. Fresh(q, t)
      BY <2>2, <3>2, <3>4, RestartOK
    <3> QED BY <3>3, <3>4, <3>5 DEF Answered
  <2>5. CASE t - c.first <= TrigTime
    <3>1. ~ (t - c.first > TrigTime)
      BY <2>3, <2>5
    <3>2. CASE c.conns >= TrigCount
      <4>1. PICK q : q = [c EXCEPT !.stage = c.stage + 1, !.zline_start = t]
        OBVIOUS
      <4>2. r = [ok |-> c.conns \in 0 .. TrigCount - 1, tp |-> q]
        BY <1>2, <2>1, <3>1, <3>2, <4>1 DEF Here, throttle_check, CountedIn
      <4>3. (c.conns \in 0 .. TrigCount - 1) = FALSE
        BY <2>3, <3>2
      <4>4. r.ok = FALSE /\ r.tp = q
        BY <4>2, <4>3
      <4>5. Young(tp, t) /\ CountsOn(c, tp, t) /\ c.stage = tp.stage
        BY <2>2, <2>3, <3>1, <3>2 DEF Fresh
      <4>6. tp.conns \in Nat \cup {-1}
        BY <4>5, ThrottleFields DEF Young
      <4>7. tp.conns >= 0 /\ tp.conns + 1 >= TrigCount
        BY <2>3, <3>2, <4>5, <4>6 DEF CountsOn
      <4>8. Zlined(q, t, tp.stage + 1)
        BY <2>2, <4>1, <4>5, OffenceOK
      <4> QED BY <4>4, <4>5, <4>7, <4>8 DEF Answered
    <3>3. CASE ~ (c.conns >= TrigCount)
      <4>1. r = [ok |-> c.conns \in 0 .. TrigCount - 1, tp |-> c]
        BY <1>2, <2>1, <3>1, <3>3 DEF Here, throttle_check, CountedIn
      <4>2. r.tp = c
        BY <4>1
      <4>3. CASE c.conns = -1
        <5>1. (c.conns \in 0 .. TrigCount - 1) = FALSE
          BY <4>3
        <5>2. r.ok = FALSE
          BY <4>1, <5>1
        <5>3. Young(tp, t) /\ CountsOn(c, tp, t)
          BY <2>2, <2>3, <3>1, <4>3 DEF Fresh
        <5>4. tp.conns \in Nat \cup {-1}
          BY <5>3, ThrottleFields DEF Young
        <5>5. tp.conns = -1
          BY <4>3, <5>3, <5>4 DEF CountsOn
        <5> QED BY <4>2, <5>2, <5>3, <5>5 DEF Answered
      <4>4. CASE c.conns # -1
        <5>1. (c.conns \in 0 .. TrigCount - 1) = TRUE
          BY <2>3, <3>3, <4>4
        <5>2. r.ok = TRUE
          BY <4>1, <5>1
        <5>3. CASE Young(tp, t) /\ CountsOn(c, tp, t)
          <6>1. tp.conns \in Nat \cup {-1}
            BY <5>3, ThrottleFields DEF Young
          <6>2. tp.conns >= 0 /\ tp.conns + 1 < TrigCount
            BY <2>3, <3>3, <4>4, <5>3, <6>1 DEF CountsOn
          <6> QED BY <4>2, <5>2, <5>3, <6>2 DEF Answered
        <5>4. CASE Old(tp, t) /\ Fresh(c, t)
          BY <4>2, <5>2, <5>4 DEF Answered
        <5> QED BY <2>2, <3>1, <5>3, <5>4
      <4> QED BY <4>3, <4>4
    <3> QED BY <3>2, <3>3
  <2> QED BY <2>3, <2>4, <2>5
<1> QED BY <1>1, <1>2

LEMMA CheckThere ==
  ASSUME NEW tp \in ThrottleRecs \cup {None}, NEW t \in Nat, NEW q, There(q, tp, t)
  PROVE  Left(q, tp, t)
<1>1. CASE zlined(tp, t)
  <2>1. tp \in ThrottleRecs
    BY <1>1 DEF zlined
  <2>2. q = tp
    BY <1>1 DEF There, throttle_check
  <2> QED BY <1>1, <2>1, <2>2 DEF Left
<1>2. CASE ~ zlined(tp, t)
  <2>1. PICK c : CountedIn(c, tp, t)
    BY DEF CountedIn
  <2>2. /\ c \in ThrottleRecs
        /\ \/ Old(tp, t) /\ t - c.first > TrigTime /\ c.zline_start = 0 /\ c.last = t
           \/ Old(tp, t) /\ Fresh(c, t)
           \/ Young(tp, t) /\ CountsOn(c, tp, t) /\ c.stage = tp.stage
        /\ Young(tp, t) => t - c.first <= TrigTime
    BY <1>2, <2>1, CountedInOK
  <2>3. c.first \in Nat /\ TrigTime \in Nat
    BY <2>2, ThrottleFields, ThrottleAssumption
  <2>4. CASE t - c.first > TrigTime
    <3>1. q = [c EXCEPT !.conns = 1, !.first = t]
      BY <1>2, <2>1, <2>4 DEF There, throttle_check, CountedIn
    <3>4. Old(tp, t) /\ c.zline_start = 0 /\ c.last = t
      BY <2>2, <2>3, <2>4 DEF Fresh
    <3>5. Fresh(q, t)
      BY <2>2, <3>1, <3>4, RestartOK
    <3> QED BY <3>4, <3>5 DEF Left
  <2>5. CASE ~ (t - c.first > TrigTime)
    <3>1. q = c
      BY <1>2, <2>1, <2>5 DEF There, throttle_check, CountedIn
    <3> QED BY <2>2, <2>5, <3>1 DEF Left
  <2> QED BY <2>4, <2>5
<1> QED BY <1>1, <1>2

----------------------------------------------------------------------------
(* One more connection.                                                    *)

LEMMA PassedNone ==
  ASSUME NEW a, NEW n \in Nat
  PROVE  Passed(a, n + 1, n) = 0
<1>1. {x \in n + 1 .. n : a[x].ok} = {}
  OBVIOUS
<1> QED BY <1>1, FS_EmptySet DEF Passed

LEMMA PassedOne ==
  ASSUME NEW a, NEW n \in Nat
  PROVE  Passed(a, n, n) <= 1
<1>1. PICK S : S = {x \in n .. n : a[x].ok}
  OBVIOUS
<1>2. S = {} \/ S = {n}
  BY <1>1
<1>3. Cardinality({}) = 0 /\ Cardinality({n}) = 1
  BY FS_EmptySet, FS_Singleton
<1>4. Cardinality(S) <= 1
  BY <1>2, <1>3
<1> QED BY <1>1, <1>4 DEF Passed

\* The logs a and b with one more connection e at `now', and the facts about them
\* that the lemmas below use.
Longer(b, a, e, now) ==
  LET n == Len(a)
  IN /\ n \in Nat /\ b \in Seq(Entries) /\ Len(b) = n + 1
     /\ b[n + 1] = e /\ e.time = now
     /\ \A i \in 1 .. n : b[i] = a[i] /\ Passed(a, i, n) \in Nat
     /\ \A i, j \in 1 .. n : Passed(b, i, j) = Passed(a, i, j)
     /\ \A i \in 1 .. n : Passed(b, i, n + 1) = IF e.ok THEN Passed(a, i, n) + 1 ELSE Passed(a, i, n)
     /\ Passed(b, n + 1, n + 1) = IF e.ok THEN 1 ELSE 0

LEMMA OneLonger ==
  ASSUME NEW a \in Seq(Entries), NEW e \in Entries, NEW now, e.time = now, NEW b, Appended(b, a, e)
  PROVE  Longer(b, a, e, now)
<1>1. PICK n \in Nat : n = Len(a)
  OBVIOUS
<1>2. b \in Seq(Entries) /\ Len(b) = n + 1 /\ b[n + 1] = e /\ \A i \in 1 .. n : b[i] = a[i]
  BY <1>1 DEF Appended
<1>3. ASSUME NEW i \in 1 .. n PROVE Passed(a, i, n) \in Nat
  <2>1. i \in Int /\ n \in Int
    OBVIOUS
  <2> QED BY <2>1, PassedFinite
<1>4. ASSUME NEW i \in 1 .. n, NEW j \in 1 .. n PROVE Passed(b, i, j) = Passed(a, i, j)
  <2>1. i \in 1 .. Len(a) + 1 /\ j \in 0 .. Len(a)
    BY <1>1
  <2> QED BY <2>1, PassedAppend
<1>5. ASSUME NEW i \in 1 .. n + 1
      PROVE  Passed(b, i, n + 1) = IF e.ok THEN Passed(a, i, n) + 1 ELSE Passed(a, i, n)
  <2>1. i \in 1 .. Len(a) + 1
    BY <1>1
  <2>2. /\ e.ok => Passed(b, i, Len(a) + 1) = Passed(a, i, Len(a)) + 1
        /\ ~ e.ok => Passed(b, i, Len(a) + 1) = Passed(a, i, Len(a))
    BY <2>1, PassedAppend
  <2> QED BY <1>1, <2>2
<1>6. Passed(b, n + 1, n + 1) = IF e.ok THEN 1 ELSE 0
  <2>1. n + 1 \in 1 .. n + 1
    OBVIOUS
  <2>2. Passed(a, n + 1, n) = 0
    BY PassedNone
  <2> QED BY <1>5, <2>1, <2>2
<1>7. \A i \in 1 .. n : i \in 1 .. n + 1
  OBVIOUS
<1>8. \A i \in 1 .. n : Passed(b, i, n + 1) = IF e.ok THEN Passed(a, i, n) + 1 ELSE Passed(a, i, n)
  BY <1>5, <1>7
<1> QED BY <1>1, <1>2, <1>3, <1>4, <1>6, <1>8 DEF Longer

\* A connection may be let in when nobody who was sent away is due and no burst ends
\* with it.
Free(a, now) ==
  /\ Kept(a, now, now)
  /\ \A i \in 1 .. Len(a) : now <= a[i].time + TrigTime => Passed(a, i, Len(a)) <= 2 * TrigCount - 3

LEMMA LongerLog ==
  ASSUME NEW a, NEW now \in Nat, LogOK(a, now), NEW e \in Entries, NEW b, Longer(b, a, e, now),
         e.ok => Free(a, now)
  PROVE  LogOK(b, now)
<1>1. PICK n \in Nat : n = Len(a)
  BY DEF Longer
<1>2. \A i \in 1 .. n : /\ a[i].time \in Nat /\ a[i].wait \in Nat /\ a[i].time <= now
                        /\ Passed(a, i, n) \in Nat
  BY <1>1, TypeOfEntry DEF LogOK, Longer
<1>3. \A i \in 1 .. n + 1 : i \in 1 .. n \/ i = n + 1
  OBVIOUS
<1>4. TrigCount \in Nat /\ TrigCount >= 2 /\ TrigTime \in Nat
  BY ThrottleAssumption
<1>5. /\ b \in Seq(Entries) /\ Len(b) = n + 1 /\ b[n + 1] = e /\ e.time = now
      /\ \A i \in 1 .. n : b[i] = a[i]
  BY <1>1 DEF Longer
<1>6. \A i \in 1 .. Len(b) : b[i].time <= now
  BY <1>2, <1>3, <1>5
<1>7. \A i, j \in 1 .. Len(b) : i < j => b[i].time <= b[j].time
  <2>1. SUFFICES ASSUME NEW i \in 1 .. n + 1, NEW j \in 1 .. n + 1, i < j PROVE b[i].time <= b[j].time
    BY <1>5
  <2>2. CASE j = n + 1
    BY <1>5, <1>6, <2>2
  <2>3. CASE j \in 1 .. n
    <3>1. i \in 1 .. n
      BY <2>1, <2>3
    <3> QED BY <1>1, <1>5, <2>1, <2>3, <3>1 DEF LogOK
  <2> QED BY <1>3, <2>2, <2>3
<1>8. Stay(b)
  <2>1. SUFFICES ASSUME NEW i \in 1 .. n + 1, NEW j \in 1 .. n + 1, i < j, ~ b[i].ok, b[j].ok
                 PROVE  b[j].time - b[i].time >= b[i].wait
    BY <1>5 DEF Stay
  <2>2. i \in 1 .. n
    BY <2>1
  <2>3. CASE j = n + 1
    <3>1. Kept(a, now, now)
      BY <1>5, <2>1, <2>3 DEF Free
    <3>2. a[i].time + a[i].wait <= now
      BY <1>1, <1>5, <2>1, <2>2, <3>1 DEF Kept
    <3> QED BY <1>2, <1>5, <2>2, <2>3, <3>2, SMTT(30)
  <2>4. CASE j \in 1 .. n
    BY <1>1, <1>5, <2>1, <2>2, <2>4 DEF LogOK, Stay
  <2> QED BY <1>3, <2>3, <2>4
<1>9. Burst(b)
  <2>1. SUFFICES ASSUME NEW i \in 1 .. n + 1, NEW j \in 1 .. n + 1, i < j,
                        Passed(b, i, j) >= 2 * TrigCount - 1
                 PROVE  b[j].time - b[i].time > TrigTime
    BY <1>5 DEF Burst
  <2>2. i \in 1 .. n
    BY <2>1
  <2>3. CASE j = n + 1
    <3>1. Passed(b, i, n + 1) = IF e.ok THEN Passed(a, i, n) + 1 ELSE Passed(a, i, n)
      BY <1>1, <2>2 DEF Longer
    <3>2. CASE e.ok
      <4>1. Passed(a, i, n) >= 2 * TrigCount - 2
        BY <1>2, <1>4, <2>1, <2>2, <2>3, <3>1, <3>2
      <4>2. now <= a[i].time + TrigTime => Passed(a, i, n) <= 2 * TrigCount - 3
        BY <1>1, <2>2, <3>2 DEF Free
      <4>3. ~ (now <= a[i].time + TrigTime)
        BY <1>2, <1>4, <2>2, <4>1, <4>2
      <4> QED BY <1>2, <1>4, <1>5, <2>2, <2>3, <4>3
    <3>3. CASE ~ e.ok
      <4>1. Passed(a, i, n) >= 2 * TrigCount - 1
        BY <2>1, <2>3, <3>1, <3>3
      <4>2. i # n
        <5>1. ASSUME i = n PROVE FALSE
          <6>1. Passed(a, n, n) <= 1
            BY PassedOne
          <6> QED BY <1>2, <1>4, <2>2, <4>1, <5>1, <6>1
        <5> QED BY <5>1
      <4>3. i < n /\ n \in 1 .. n
        BY <2>2, <4>2
      <4>4. a[n].time - a[i].time > TrigTime
        BY <1>1, <2>2, <4>1, <4>3 DEF LogOK, Burst
      <4> QED BY <1>2, <1>4, <1>5, <2>2, <2>3, <4>3, <4>4, SMTT(30)
    <3> QED BY <3>2, <3>3
  <2>4. CASE j \in 1 .. n
    <3>1. Passed(b, i, j) = Passed(a, i, j)
      BY <1>1, <2>2, <2>4 DEF Longer
    <3> QED BY <1>1, <1>5, <2>1, <2>2, <2>4, <3>1 DEF LogOK, Burst
  <2> QED BY <1>3, <2>3, <2>4
<1> QED BY <1>5, <1>6, <1>7, <1>8, <1>9 DEF LogOK

----------------------------------------------------------------------------
(* What a record and its log become.                                       *)

LEMMA ZlineTimes ==
  ASSUME NEW stage \in Nat
  PROVE  throttle_get_zline_time(stage) \in Nat /\ throttle_get_zline_time(stage) > TrigTime
<1>1. PICK i : i = IF stage < Len(ZlineTime) THEN stage + 1 ELSE Len(ZlineTime)
  OBVIOUS
<1>2. Len(ZlineTime) \in Nat \ {0} /\ DOMAIN ZlineTime = 1 .. Len(ZlineTime)
  BY ThrottleAssumption
<1>3. i \in 1 .. Len(ZlineTime)
  <2>1. PICK m \in Nat \ {0} : m = Len(ZlineTime)
    BY <1>2
  <2>2. i = IF stage < m THEN stage + 1 ELSE m
    BY <1>1, <2>1
  <2>3. i \in 1 .. m
    BY <2>2
  <2> QED BY <2>1, <2>3
<1>4. ZlineTime[i] \in Nat /\ TrigTime \in Nat /\ TrigTime < ZlineTime[i]
  BY <1>2, <1>3, ThrottleAssumption
<1>5. throttle_get_zline_time(stage) = ZlineTime[i]
  BY <1>1 DEF throttle_get_zline_time
<1> QED BY <1>4, <1>5

LEMMA CurrentOK ==
  ASSUME NEW tp \in ThrottleRecs
  PROVE  /\ Current(tp) \in Nat /\ Current(tp) <= TrigCount - 1
         /\ tp.conns \in 0 .. TrigCount - 1 => Current(tp) = tp.conns
         /\ tp.conns = -1 => Current(tp) = TrigCount - 1
BY ThrottleFields, ThrottleAssumption DEF Current

\* Those let in when a count begins are all before t, and those of them within TrigTime
\* belong to one count.
OldLog(a, now, t) ==
  /\ Kept(a, now, now) /\ \A i \in 1 .. Len(a) : a[i].time < t
  /\ \A i \in 1 .. Len(a) : now <= a[i].time + TrigTime => Passed(a, i, Len(a)) <= TrigCount - 1

LEMMA OldRecord ==
  ASSUME NEW tp, NEW a, NEW now \in Nat, HostOK(tp, a, now),
         NEW t \in Nat, t <= now, now - t <= TrigTime, Old(tp, t)
  PROVE  OldLog(a, now, t)
<1>1. PICK n \in Nat : n = Len(a)
  BY DEF HostOK, LogOK
<1>2. \A i \in 1 .. n : a[i].time \in Nat /\ a[i].wait \in Nat /\ Passed(a, i, n) \in Nat
  <2>1. ASSUME NEW i \in 1 .. n PROVE Passed(a, i, n) \in Nat
    <3>1. i \in Int /\ n \in Int
      OBVIOUS
    <3> QED BY <3>1, PassedFinite
  <2> QED BY <1>1, <2>1, TypeOfEntry DEF HostOK, LogOK
<1>3. TrigCount \in Nat /\ TrigCount >= 2 /\ TrigTime \in Nat
  BY ThrottleAssumption
<1>4. CASE tp = None
  <2>1. NoneOK(a, now)
    BY <1>4, ThrottleNull DEF HostOK, RecordOK
  <2>2. \A i \in 1 .. n : a[i].time + TrigTime < now
    BY <1>1, <2>1 DEF NoneOK
  <2>3. \A i \in 1 .. n : a[i].time < t /\ ~ (now <= a[i].time + TrigTime)
    BY <1>2, <1>3, <2>2
  <2> QED BY <1>1, <2>1, <2>3 DEF OldLog, NoneOK
<1>5. CASE tp \in ThrottleRecs /\ tp.zline_start # 0
  <2>1. ZlineOK(tp, a, now)
    BY <1>5, ThrottleNull DEF HostOK, RecordOK
  <2>2. tp.stage \in Nat /\ tp.zline_start \in Nat
    BY <1>5, <2>1, ThrottleFields DEF ZlineOK
  <2>3. PICK z \in Nat : z = throttle_get_zline_time(tp.stage) /\ z > TrigTime
    BY <2>2, ZlineTimes
  <2>4. t - tp.zline_start >= z
    <3>1. tp # None /\ ~ zlined(tp, t)
      BY <1>5, ThrottleNull DEF Old
    <3>2. ~ (t - tp.zline_start < z)
      BY <1>5, <2>3, <3>1 DEF zlined
    <3> QED BY <2>2, <2>3, <3>2
  <2>5. \A i \in 1 .. n : a[i].time <= tp.zline_start
    BY <1>1, <2>1 DEF ZlineOK
  <2>6. \A i \in 1 .. n : a[i].time < t /\ ~ (now <= a[i].time + TrigTime)
    BY <1>2, <1>3, <2>2, <2>3, <2>4, <2>5
  <2>7. Kept(a, now, tp.zline_start + z)
    BY <2>1, <2>3 DEF ZlineOK
  <2>8. Kept(a, now, now)
    BY <1>1, <1>2, <2>2, <2>3, <2>4, <2>7, SMTT(30) DEF Kept
  <2> QED BY <1>1, <2>6, <2>8 DEF OldLog
<1>6. CASE tp \in ThrottleRecs /\ tp.zline_start = 0
  <2>1. CountOK(tp, a, now)
    BY <1>6, ThrottleNull DEF HostOK, RecordOK
  <2>2. tp.first \in Nat /\ t - tp.first > TrigTime
    BY <1>6, ThrottleNull, ThrottleFields DEF Old
  <2>3. \A i \in 1 .. n : a[i].time <= tp.first + TrigTime
    BY <1>1, <2>1 DEF CountOK
  <2>4. \A i \in 1 .. n : a[i].time < t
    BY <1>2, <1>3, <2>2, <2>3
  <2>5. Kept(a, now, IF tp.conns = -1 THEN tp.first + TrigTime + 1 ELSE now)
    BY <2>1 DEF CountOK
  <2>6. Kept(a, now, now)
    <3>1. CASE tp.conns = -1
      <4>1. \A i \in 1 .. n : ~ a[i].ok => \/ a[i].time + a[i].wait <= now
                                          \/ a[i].time + a[i].wait <= tp.first + TrigTime + 1
        BY <1>1, <2>5, <3>1 DEF Kept
      <4>2. tp.first + TrigTime + 1 <= now
        BY <1>3, <2>2
      <4>3. \A i \in 1 .. n : ~ a[i].ok => a[i].time + a[i].wait <= now
        BY <1>2, <1>3, <2>2, <4>1, <4>2
      <4> QED BY <1>1, <4>3 DEF Kept
    <3>2. CASE tp.conns # -1
      BY <2>5, <3>2
    <3> QED BY <3>1, <3>2
  <2>7. ASSUME NEW i \in 1 .. n, now <= a[i].time + TrigTime PROVE Passed(a, i, n) <= TrigCount - 1
    <3>1. tp.first <= a[i].time
      BY <1>2, <1>3, <2>2, <2>7
    <3>2. Passed(a, i, n) <= Current(tp)
      BY <1>1, <2>1, <3>1 DEF CountOK
    <3>3. Current(tp) \in Nat /\ Current(tp) <= TrigCount - 1
      BY <1>6, CurrentOK
    <3> QED BY <1>2, <1>3, <3>2, <3>3
  <2> QED BY <1>1, <2>4, <2>6, <2>7 DEF OldLog
<1> QED BY <1>4, <1>5, <1>6 DEF Old

LEMMA TypesOfLog ==
  ASSUME NEW a, NEW now, LogOK(a, now)
  PROVE  /\ Len(a) \in Nat
         /\ \A i \in 1 .. Len(a) : /\ a[i].time \in Nat /\ a[i].wait \in Nat /\ a[i].time <= now
                                   /\ Passed(a, i, Len(a)) \in Nat
<1>1. PICK n \in Nat : n = Len(a)
  BY DEF LogOK
<1>2. ASSUME NEW i \in 1 .. n PROVE Passed(a, i, n) \in Nat
  <2>1. i \in Int /\ n \in Int
    OBVIOUS
  <2> QED BY <2>1, PassedFinite
<1> QED BY <1>1, <1>2, TypeOfEntry DEF LogOK

\* A remote signon, counted at t.
LEMMA FreshThere ==
  ASSUME NEW a, NEW now \in Nat, LogOK(a, now), NEW t \in Nat, t <= now, now - t <= TrigTime,
         OldLog(a, now, t), NEW q, Fresh(q, t)
  PROVE  HostOK(q, a, now)
<1>1. PICK n \in Nat : n = Len(a)
  BY DEF LogOK
<1>2. \A i \in 1 .. n : /\ a[i].time \in Nat /\ a[i].wait \in Nat /\ a[i].time <= now
                        /\ Passed(a, i, n) \in Nat
  BY <1>1, TypesOfLog
<1>3. TrigCount \in Nat /\ TrigCount >= 2 /\ TrigTime \in Nat
  BY ThrottleAssumption
<1>4. q \in ThrottleRecs /\ q.zline_start = 0 /\ q.conns = 1 /\ q.first = t /\ q.last = t
  BY DEF Fresh
<1>5. Current(q) = 1
  BY <1>3, <1>4 DEF Current
<1>6. \A i \in 1 .. n : a[i].time <= q.first + TrigTime /\ a[i].time <= q.last + TrigTime
  BY <1>2, <1>3, <1>4
<1>7. \A i \in 1 .. n : ~ (q.first <= a[i].time)
  BY <1>1, <1>2, <1>4 DEF OldLog
<1>8. \A i \in 1 .. n : now <= a[i].time + TrigTime => Passed(a, i, n) <= TrigCount - 1 + 1
  BY <1>1, <1>2, <1>3 DEF OldLog
<1>9. Kept(a, now, IF q.conns = -1 THEN q.first + TrigTime + 1 ELSE now)
  BY <1>4 DEF OldLog
<1>10. q.first <= now /\ q.first <= q.last + TrigTime
  BY <1>3, <1>4
<1>11. CountOK(q, a, now)
  BY <1>1, <1>5, <1>6, <1>7, <1>8, <1>9, <1>10 DEF CountOK
<1> QED BY <1>4, <1>11 DEF HostOK, RecordOK

LEMMA CountedThere ==
  ASSUME NEW tp, NEW a, NEW now \in Nat, HostOK(tp, a, now),
         NEW t \in Nat, t <= now, now - t <= TrigTime, Young(tp, t), NEW q, CountsOn(q, tp, t)
  PROVE  HostOK(q, a, now)
<1>1. PICK n \in Nat : n = Len(a)
  BY DEF HostOK, LogOK
<1>2. \A i \in 1 .. n : /\ a[i].time \in Nat /\ a[i].wait \in Nat /\ a[i].time <= now
                        /\ Passed(a, i, n) \in Nat
  BY <1>1, TypesOfLog DEF HostOK
<1>3. TrigCount \in Nat /\ TrigCount >= 2 /\ TrigTime \in Nat
  BY ThrottleAssumption
<1>4. tp \in ThrottleRecs /\ tp.zline_start = 0
  BY DEF Young
<1>5. CountOK(tp, a, now)
  BY <1>4, ThrottleNull DEF HostOK, RecordOK
<1>6. tp.first \in Nat /\ tp.conns \in Nat \cup {-1}
  BY <1>4, ThrottleFields
<1>7. /\ q \in ThrottleRecs /\ q.zline_start = 0 /\ q.first = tp.first /\ q.last = t
      /\ q.conns = IF tp.conns >= 0 THEN tp.conns + 1 ELSE tp.conns
  BY DEF CountsOn
<1>8. Current(tp) \in Nat /\ Current(q) \in Nat
  BY <1>4, <1>7, CurrentOK
<1>9. Current(tp) <= Current(q)
  BY <1>3, <1>6, <1>7 DEF Current
<1>10. q.conns = -1 <=> tp.conns = -1
  BY <1>6, <1>7
<1>11. Kept(a, now, IF q.conns = -1 THEN q.first + TrigTime + 1 ELSE now)
  BY <1>5, <1>7, <1>10 DEF CountOK
<1>12. q.first <= now /\ q.first <= q.last + TrigTime
  BY <1>3, <1>5, <1>6, <1>7 DEF CountOK
<1>13. \A i \in 1 .. n : a[i].time <= q.first + TrigTime
  BY <1>1, <1>5, <1>7 DEF CountOK
<1>14. \A i \in 1 .. n : a[i].time <= q.last + TrigTime
  BY <1>2, <1>3, <1>7
<1>15. \A i \in 1 .. n : q.first <= a[i].time => Passed(a, i, n) <= Current(tp)
  BY <1>1, <1>5, <1>7 DEF CountOK
<1>16. \A i \in 1 .. n : q.first <= a[i].time => Passed(a, i, n) <= Current(q)
  BY <1>2, <1>8, <1>9, <1>15
<1>17. \A i \in 1 .. n : now <= a[i].time + TrigTime => Passed(a, i, n) <= TrigCount - 1 + Current(tp)
  BY <1>1, <1>5 DEF CountOK
<1>18. \A i \in 1 .. n : now <= a[i].time + TrigTime => Passed(a, i, n) <= TrigCount - 1 + Current(q)
  BY <1>2, <1>3, <1>8, <1>9, <1>17
<1>19. CountOK(q, a, now)
  BY <1>1, <1>11, <1>12, <1>13, <1>14, <1>16, <1>18 DEF CountOK
<1> QED BY <1>7, <1>19 DEF HostOK, RecordOK

\* A connection here that begins a count.
LEMMA FreshHere ==
  ASSUME NEW a, NEW now \in Nat, LogOK(a, now), OldLog(a, now, now), NEW q, Fresh(q, now),
         NEW e \in Entries, e.ok, NEW b, Longer(b, a, e, now)
  PROVE  HostOK(q, b, now)
<1>1. PICK n \in Nat : n = Len(a)
  BY DEF LogOK
<1>2. \A i \in 1 .. n : /\ a[i].time \in Nat /\ a[i].wait \in Nat /\ a[i].time <= now
                        /\ Passed(a, i, n) \in Nat
  BY <1>1, TypesOfLog
<1>3. TrigCount \in Nat /\ TrigCount >= 2 /\ TrigTime \in Nat
  BY ThrottleAssumption
<1>4. /\ b \in Seq(Entries) /\ Len(b) = n + 1 /\ b[n + 1] = e /\ e.time = now
      /\ \A i \in 1 .. n : b[i] = a[i]
      /\ \A i \in 1 .. n : Passed(b, i, n + 1) = IF e.ok THEN Passed(a, i, n) + 1 ELSE Passed(a, i, n)
      /\ Passed(b, n + 1, n + 1) = IF e.ok THEN 1 ELSE 0
  BY <1>1 DEF Longer
<1>5. \A i \in 1 .. n + 1 : i \in 1 .. n \/ i = n + 1
  OBVIOUS
<1>6. q \in ThrottleRecs /\ q.zline_start = 0 /\ q.conns = 1 /\ q.first = now /\ q.last = now
  BY DEF Fresh
<1>7. Current(q) = 1
  BY <1>3, <1>6 DEF Current
<1>8. Kept(a, now, now) /\ \A i \in 1 .. n : now <= a[i].time + TrigTime => Passed(a, i, n) <= TrigCount - 1
  BY <1>1 DEF OldLog
<1>9. Free(a, now)
  BY <1>1, <1>2, <1>3, <1>8 DEF Free
<1>10. LogOK(b, now)
  BY <1>9, LongerLog
<1>11. \A i \in 1 .. n + 1 : b[i].time <= q.first + TrigTime /\ b[i].time <= q.last + TrigTime
  <2>1. \A i \in 1 .. n + 1 : b[i].time \in Nat /\ b[i].time <= now
    BY <1>2, <1>4, <1>5
  <2> QED BY <1>3, <1>6, <2>1
<1>12. \A i \in 1 .. n + 1 : q.first <= b[i].time => Passed(b, i, n + 1) <= 1
  <2>1. \A i \in 1 .. n : ~ (q.first <= b[i].time)
    BY <1>1, <1>2, <1>4, <1>6 DEF OldLog
  <2> QED BY <1>4, <1>5, <2>1
<1>13. \A i \in 1 .. n + 1 : now <= b[i].time + TrigTime => Passed(b, i, n + 1) <= TrigCount - 1 + 1
  BY <1>2, <1>3, <1>4, <1>5, <1>8
<1>14. Kept(b, now, now)
  BY <1>1, <1>4, <1>5, <1>8 DEF Kept
<1>15. Kept(b, now, IF q.conns = -1 THEN q.first + TrigTime + 1 ELSE now)
  BY <1>6, <1>14
<1>16. CountOK(q, b, now)
  BY <1>3, <1>4, <1>6, <1>7, <1>11, <1>12, <1>13, <1>15 DEF CountOK
<1> QED BY <1>6, <1>10, <1>16 DEF HostOK, RecordOK

\* ... that a count goes on with, whether it is let in (the count is below TrigCount) or not
\* (the host was throttled by force).
LEMMA CountedHere ==
  ASSUME NEW tp, NEW a, NEW now \in Nat, HostOK(tp, a, now), Young(tp, now), NEW q, CountsOn(q, tp, now),
         NEW e \in Entries, NEW b, Longer(b, a, e, now),
         \/ e.ok /\ tp.conns >= 0 /\ tp.conns + 1 < TrigCount
         \/ ~ e.ok /\ e.wait = 0 /\ tp.conns = -1
  PROVE  HostOK(q, b, now)
<1>1. PICK n \in Nat : n = Len(a)
  BY DEF HostOK, LogOK
<1>2. \A i \in 1 .. n : /\ a[i].time \in Nat /\ a[i].wait \in Nat /\ a[i].time <= now
                        /\ Passed(a, i, n) \in Nat
  BY <1>1, TypesOfLog DEF HostOK
<1>3. TrigCount \in Nat /\ TrigCount >= 2 /\ TrigTime \in Nat
  BY ThrottleAssumption
<1>4. /\ b \in Seq(Entries) /\ Len(b) = n + 1 /\ b[n + 1] = e /\ e.time = now
      /\ \A i \in 1 .. n : b[i] = a[i]
      /\ \A i \in 1 .. n : Passed(b, i, n + 1) = IF e.ok THEN Passed(a, i, n) + 1 ELSE Passed(a, i, n)
      /\ Passed(b, n + 1, n + 1) = IF e.ok THEN 1 ELSE 0
  BY <1>1 DEF Longer
<1>5. \A i \in 1 .. n + 1 : i \in 1 .. n \/ i = n + 1
  OBVIOUS
<1>6. tp \in ThrottleRecs /\ tp.zline_start = 0 /\ now - tp.first <= TrigTime
  BY DEF Young
<1>7. CountOK(tp, a, now)
  BY <1>6, ThrottleNull DEF HostOK, RecordOK
<1>8. tp.first \in Nat /\ tp.conns \in Nat \cup {-1}
  BY <1>6, ThrottleFields
<1>9. /\ q \in ThrottleRecs /\ q.zline_start = 0 /\ q.first = tp.first /\ q.last = now
      /\ q.conns = IF tp.conns >= 0 THEN tp.conns + 1 ELSE tp.conns
  BY DEF CountsOn
<1>10. Current(tp) \in Nat /\ Current(q) \in Nat
  BY <1>6, <1>9, CurrentOK
<1>11. IF e.ok THEN Current(tp) = tp.conns /\ Current(q) = Current(tp) + 1 ELSE Current(q) = Current(tp)
  BY <1>3, <1>8, <1>9 DEF Current
<1>12. Kept(a, now, IF tp.conns = -1 THEN tp.first + TrigTime + 1 ELSE now)
  BY <1>7 DEF CountOK
<1>13. e.ok => Free(a, now)
  <2>1. SUFFICES ASSUME e.ok PROVE Free(a, now)
    OBVIOUS
  <2>2. tp.conns # -1 /\ Current(tp) + 1 < TrigCount
    BY <1>8, <1>11, <2>1
  <2>3. Kept(a, now, now)
    BY <1>12, <2>2
  <2>4. \A i \in 1 .. n : now <= a[i].time + TrigTime => Passed(a, i, n) <= TrigCount - 1 + Current(tp)
    BY <1>1, <1>7 DEF CountOK
  <2>5. \A i \in 1 .. n : now <= a[i].time + TrigTime => Passed(a, i, n) <= 2 * TrigCount - 3
    BY <1>2, <1>3, <1>10, <2>2, <2>4
  <2> QED BY <1>1, <2>3, <2>5 DEF Free
<1>14. LogOK(b, now)
  BY <1>13, LongerLog DEF HostOK
<1>15. \A i \in 1 .. n + 1 : b[i].time <= q.first + TrigTime /\ b[i].time <= q.last + TrigTime
  <2>1. \A i \in 1 .. n : b[i].time <= q.first + TrigTime
    BY <1>1, <1>4, <1>7, <1>9 DEF CountOK
  <2>2. \A i \in 1 .. n : b[i].time <= q.last + TrigTime
    BY <1>2, <1>3, <1>4, <1>9
  <2>3. b[n + 1].time <= q.first + TrigTime /\ b[n + 1].time <= q.last + TrigTime
    BY <1>3, <1>4, <1>6, <1>8, <1>9
  <2> QED BY <1>5, <2>1, <2>2, <2>3
<1>16. \A i \in 1 .. n + 1 : q.first <= b[i].time => Passed(b, i, n + 1) <= Current(q)
  <2>1. \A i \in 1 .. n : q.first <= b[i].time => Passed(a, i, n) <= Current(tp)
    BY <1>1, <1>4, <1>7, <1>9 DEF CountOK
  <2>2. \A i \in 1 .. n : q.first <= b[i].time => Passed(b, i, n + 1) <= Current(q)
    BY <1>2, <1>4, <1>10, <1>11, <2>1
  <2>3. Passed(b, n + 1, n + 1) <= Current(q)
    BY <1>4, <1>10, <1>11
  <2> QED BY <1>5, <2>2, <2>3
<1>17. \A i \in 1 .. n + 1 : now <= b[i].time + TrigTime => Passed(b, i, n + 1) <= TrigCount - 1 + Current(q)
  <2>1. \A i \in 1 .. n : now <= b[i].time + TrigTime => Passed(a, i, n) <= TrigCount - 1 + Current(tp)
    BY <1>1, <1>4, <1>7 DEF CountOK
  <2>2. ASSUME NEW i \in 1 .. n, now <= b[i].time + TrigTime
        PROVE  Passed(b, i, n + 1) <= TrigCount - 1 + Current(q)
    <3>1. Passed(a, i, n) \in Nat /\ Passed(a, i, n) <= TrigCount - 1 + Current(tp)
      BY <1>2, <2>1, <2>2
    <3>2. CASE e.ok
      <4>1. Passed(b, i, n + 1) = Passed(a, i, n) + 1 /\ Current(q) = Current(tp) + 1
        BY <1>4, <1>11, <3>2
      <4> QED BY <1>3, <1>10, <3>1, <4>1
    <3>3. CASE ~ e.ok
      <4>1. Passed(b, i, n + 1) = Passed(a, i, n) /\ Current(q) = Current(tp)
        BY <1>4, <1>11, <3>3
      <4> QED BY <3>1, <4>1
    <3> QED BY <3>2, <3>3
  <2>3. Passed(b, n + 1, n + 1) <= TrigCount - 1 + Current(q)
    BY <1>3, <1>4, <1>10
  <2> QED BY <1>5, <2>2, <2>3
<1>18. Kept(b, now, IF q.conns = -1 THEN q.first + TrigTime + 1 ELSE now)
  <2>1. Kept(a, now, IF q.conns = -1 THEN q.first + TrigTime + 1 ELSE now)
    <3>1. q.conns = -1 <=> tp.conns = -1
      BY <1>8, <1>9
    <3> QED BY <1>9, <1>12, <3>1
  <2>2. ~ e.ok => e.time + e.wait <= now
    BY <1>4
  <2> QED BY <1>1, <1>4, <1>5, <2>1, <2>2 DEF Kept
<1>19. q.first <= now /\ q.first <= q.last + TrigTime
  BY <1>3, <1>7, <1>8, <1>9 DEF CountOK
<1>20. CountOK(q, b, now)
  BY <1>4, <1>15, <1>16, <1>17, <1>18, <1>19 DEF CountOK
<1> QED BY <1>9, <1>14, <1>20 DEF HostOK, RecordOK

\* ... that begins a z-line or is sent away in one.
LEMMA ZlinedHere ==
  ASSUME NEW tp, NEW a, NEW now \in Nat \ {0}, HostOK(tp, a, now), NEW q, NEW stage \in Nat,
         Zlined(q, now, stage),
         \/ tp \in ThrottleRecs /\ tp.zline_start # 0 /\ stage = tp.stage
         \/ Young(tp, now) /\ tp.conns >= 0,
         NEW e \in Entries, ~ e.ok, e.wait = throttle_get_zline_time(stage), NEW b, Longer(b, a, e, now)
  PROVE  HostOK(q, b, now)
<1>1. PICK n \in Nat : n = Len(a)
  BY DEF HostOK, LogOK
<1>2. \A i \in 1 .. n : /\ a[i].time \in Nat /\ a[i].wait \in Nat /\ a[i].time <= now
                        /\ Passed(a, i, n) \in Nat
  BY <1>1, TypesOfLog DEF HostOK
<1>3. TrigCount \in Nat /\ TrigCount >= 2 /\ TrigTime \in Nat
  BY ThrottleAssumption
<1>4. /\ b \in Seq(Entries) /\ Len(b) = n + 1 /\ b[n + 1] = e /\ e.time = now
      /\ \A i \in 1 .. n : b[i] = a[i]
      /\ \A i \in 1 .. n : Passed(b, i, n + 1) = IF e.ok THEN Passed(a, i, n) + 1 ELSE Passed(a, i, n)
      /\ Passed(b, n + 1, n + 1) = IF e.ok THEN 1 ELSE 0
  BY <1>1 DEF Longer
<1>5. \A i \in 1 .. n + 1 : i \in 1 .. n \/ i = n + 1
  OBVIOUS
<1>6. q \in ThrottleRecs /\ q.zline_start = now /\ q.stage = stage
  BY DEF Zlined
<1>7. PICK z \in Nat : z = throttle_get_zline_time(stage)
  BY ZlineTimes
<1>8. Kept(a, now, now + z)
  <2>1. CASE tp \in ThrottleRecs /\ tp.zline_start # 0 /\ stage = tp.stage
    <3>1. ZlineOK(tp, a, now)
      BY <2>1, ThrottleNull DEF HostOK, RecordOK
    <3>2. tp.zline_start \in Nat /\ tp.zline_start <= now /\ Kept(a, now, tp.zline_start + z)
      BY <1>7, <2>1, <3>1, ThrottleFields DEF ZlineOK
    <3> QED BY <1>1, <1>2, <3>2 DEF Kept
  <2>2. CASE Young(tp, now) /\ tp.conns >= 0
    <3>1. CountOK(tp, a, now)
      BY <2>2, ThrottleNull DEF HostOK, RecordOK, Young
    <3>2. Kept(a, now, now)
      <4>1. tp.conns # -1
        BY <2>2
      <4> QED BY <3>1, <4>1 DEF CountOK
    <3> QED BY <1>1, <1>2, <3>2 DEF Kept
  <2> QED BY <2>1, <2>2
<1>9. Kept(b, now, now + z)
  <2>1. e.time + e.wait <= now + z
    BY <1>4, <1>7
  <2> QED BY <1>1, <1>4, <1>5, <1>8, <2>1 DEF Kept
<1>10. \A i \in 1 .. n + 1 : b[i].time <= now
  BY <1>2, <1>4, <1>5
<1>11. ZlineOK(q, b, now)
  BY <1>4, <1>6, <1>7, <1>9, <1>10 DEF ZlineOK
<1>12. LogOK(b, now)
  BY LongerLog DEF HostOK
<1> QED BY <1>6, <1>11, <1>12 DEF HostOK, RecordOK

\* A client that is turned down: its host is throttled by force.
ForcedIn(q, tp, t) == q = forced(tp, t)

LEMMA ForcedFields ==
  ASSUME NEW tp \in ThrottleRecs \cup {None}, NEW t \in Nat, NEW q, ForcedIn(q, tp, t)
  PROVE  /\ q \in ThrottleRecs /\ q.conns = -1 /\ q.first = t /\ q.last = t
         /\ tp = None => q.zline_start = 0
         /\ tp \in ThrottleRecs => q.zline_start = tp.zline_start /\ q.stage = tp.stage
<1>1. PICK p : p = IF tp = None THEN new_throttle(t) ELSE tp
  OBVIOUS
<1>2. p \in ThrottleRecs /\ (tp = None => p.zline_start = 0) /\ (tp \in ThrottleRecs => p = tp)
  <2>1. CASE tp = None
    <3>1. p = new_throttle(t)
      BY <1>1, <2>1
    <3>2. p \in ThrottleRecs /\ p.zline_start = 0
      BY <3>1 DEF new_throttle, ThrottleRecs
    <3> QED BY <2>1, <3>2, ThrottleNull
  <2>2. CASE tp # None
    BY <1>1, <2>2
  <2> QED BY <2>1, <2>2
<1>3. PICK f : f = [p EXCEPT !.conns = -1]
  OBVIOUS
<1>4. PICK g : g = [f EXCEPT !.first = t]
  OBVIOUS
<1>5. PICK k : k = [g EXCEPT !.last = t]
  OBVIOUS
<1>6. f \in ThrottleRecs /\ f.conns = -1 /\ f.zline_start = p.zline_start /\ f.stage = p.stage
  BY <1>2, <1>3 DEF ThrottleRecs
<1>7. /\ g \in ThrottleRecs /\ g.conns = -1 /\ g.first = t /\ g.zline_start = p.zline_start
      /\ g.stage = p.stage
  BY <1>4, <1>6 DEF ThrottleRecs
<1>8. /\ k \in ThrottleRecs /\ k.conns = -1 /\ k.first = t /\ k.last = t
      /\ k.zline_start = p.zline_start /\ k.stage = p.stage
  BY <1>5, <1>7 DEF ThrottleRecs
<1>9. q = k
  BY <1>1, <1>3, <1>4, <1>5 DEF ForcedIn, forced
<1> QED BY <1>2, <1>8, <1>9

\* During a z-line that changes nothing ...
LEMMA ForcedZlined ==
  ASSUME NEW tp \in ThrottleRecs, NEW a, NEW now \in Nat, HostOK(tp, a, now), tp.zline_start # 0,
         NEW q, ForcedIn(q, tp, now)
  PROVE  HostOK(q, a, now)
<1>1. q \in ThrottleRecs /\ q.zline_start = tp.zline_start /\ q.stage = tp.stage
  BY ForcedFields
<1>2. ZlineOK(tp, a, now)
  BY ThrottleNull DEF HostOK, RecordOK
<1>3. ZlineOK(q, a, now)
  BY <1>1, <1>2 DEF ZlineOK
<1> QED BY <1>1, <1>3 DEF HostOK, RecordOK

\* ... otherwise it counts as sent away for TrigTime.
LEMMA ForcedHere ==
  ASSUME NEW tp \in ThrottleRecs \cup {None}, NEW a, NEW now \in Nat, HostOK(tp, a, now),
         tp = None \/ tp.zline_start = 0, NEW q, ForcedIn(q, tp, now),
         NEW e \in Entries, ~ e.ok, e.wait = TrigTime + 1, NEW b, Longer(b, a, e, now)
  PROVE  HostOK(q, b, now)
<1>1. PICK n \in Nat : n = Len(a)
  BY DEF HostOK, LogOK
<1>2. \A i \in 1 .. n : /\ a[i].time \in Nat /\ a[i].wait \in Nat /\ a[i].time <= now
                        /\ Passed(a, i, n) \in Nat
  BY <1>1, TypesOfLog DEF HostOK
<1>3. TrigCount \in Nat /\ TrigCount >= 2 /\ TrigTime \in Nat
  BY ThrottleAssumption
<1>4. /\ b \in Seq(Entries) /\ Len(b) = n + 1 /\ b[n + 1] = e /\ e.time = now
      /\ \A i \in 1 .. n : b[i] = a[i]
      /\ \A i \in 1 .. n : Passed(b, i, n + 1) = Passed(a, i, n)
      /\ Passed(b, n + 1, n + 1) = 0
  BY <1>1 DEF Longer
<1>5. \A i \in 1 .. n + 1 : i \in 1 .. n \/ i = n + 1
  OBVIOUS
<1>6. q \in ThrottleRecs /\ q.conns = -1 /\ q.first = now /\ q.last = now
  BY ForcedFields
<1>7. q.zline_start = 0
  BY ForcedFields
<1>8. Current(q) = TrigCount - 1
  BY <1>6, CurrentOK
<1>9. /\ Kept(a, now, now + TrigTime + 1)
      /\ \A i \in 1 .. n : now <= a[i].time => Passed(a, i, n) <= TrigCount - 1
      /\ \A i \in 1 .. n : now <= a[i].time + TrigTime => Passed(a, i, n) <= TrigCount - 1 + TrigCount - 1
  <2>1. CASE tp = None
    <3>1. NoneOK(a, now)
      BY <2>1, ThrottleNull DEF HostOK, RecordOK
    <3>2. \A i \in 1 .. n : ~ (now <= a[i].time) /\ ~ (now <= a[i].time + TrigTime)
      BY <1>1, <1>2, <1>3, <3>1 DEF NoneOK
    <3>3. Kept(a, now, now + TrigTime + 1)
      BY <1>1, <1>2, <3>1 DEF NoneOK, Kept
    <3> QED BY <3>2, <3>3
  <2>2. CASE tp \in ThrottleRecs /\ tp.zline_start = 0
    <3>1. CountOK(tp, a, now)
      BY <2>2, ThrottleNull DEF HostOK, RecordOK
    <3>2. tp.first \in Nat /\ tp.first <= now
      BY <2>2, <3>1, ThrottleFields DEF CountOK
    <3>3. Current(tp) \in Nat /\ Current(tp) <= TrigCount - 1
      BY <2>2, CurrentOK
    <3>4. \A i \in 1 .. n : tp.first <= a[i].time => Passed(a, i, n) <= Current(tp)
      BY <1>1, <3>1 DEF CountOK
    <3>5. \A i \in 1 .. n : now <= a[i].time => Passed(a, i, n) <= TrigCount - 1
      BY <1>2, <1>3, <3>2, <3>3, <3>4
    <3>6. \A i \in 1 .. n : now <= a[i].time + TrigTime => Passed(a, i, n) <= TrigCount - 1 + Current(tp)
      BY <1>1, <3>1 DEF CountOK
    <3>7. \A i \in 1 .. n : now <= a[i].time + TrigTime => Passed(a, i, n) <= TrigCount - 1 + TrigCount - 1
      BY <1>2, <1>3, <3>3, <3>6
    <3>8. Kept(a, now, IF tp.conns = -1 THEN tp.first + TrigTime + 1 ELSE now)
      BY <3>1 DEF CountOK
    <3>9. \A i \in 1 .. n : ~ a[i].ok => \/ a[i].time + a[i].wait <= now
                                        \/ a[i].time + a[i].wait <= tp.first + TrigTime + 1
      BY <1>1, <3>8 DEF Kept
    <3>10. \A i \in 1 .. n : ~ a[i].ok => a[i].time + a[i].wait <= now + TrigTime + 1
      BY <1>2, <1>3, <3>2, <3>9
    <3>11. Kept(a, now, now + TrigTime + 1)
      BY <1>1, <3>10 DEF Kept
    <3> QED BY <3>5, <3>7, <3>11
  <2> QED BY <2>1, <2>2
<1>10. LogOK(b, now)
  BY LongerLog DEF HostOK
<1>11. \A i \in 1 .. n + 1 : b[i].time \in Nat /\ b[i].time <= now
  BY <1>2, <1>4, <1>5
<1>12. \A i \in 1 .. n + 1 : b[i].time <= q.first + TrigTime /\ b[i].time <= q.last + TrigTime
  BY <1>3, <1>6, <1>11
<1>13. \A i \in 1 .. n + 1 : q.first <= b[i].time => Passed(b, i, n + 1) <= TrigCount - 1
  BY <1>3, <1>4, <1>5, <1>6, <1>9
<1>14. \A i \in 1 .. n + 1 : now <= b[i].time + TrigTime => Passed(b, i, n + 1) <= TrigCount - 1 + TrigCount - 1
  BY <1>3, <1>4, <1>5, <1>9
<1>15. Kept(b, now, now + TrigTime + 1)
  <2>1. e.time + e.wait <= now + TrigTime + 1
    BY <1>3, <1>4
  <2> QED BY <1>1, <1>4, <1>5, <1>9, <2>1 DEF Kept
<1>16. Kept(b, now, IF q.conns = -1 THEN q.first + TrigTime + 1 ELSE now)
  BY <1>6, <1>15
<1>17. q.first <= now /\ q.first <= q.last + TrigTime
  BY <1>3, <1>6
<1>18. TrigCount - 1 + TrigCount - 1 = TrigCount - 1 + (TrigCount - 1)
  BY <1>3
<1>19. CountOK(q, b, now)
  BY <1>4, <1>8, <1>12, <1>13, <1>14, <1>16, <1>17, <1>18 DEF CountOK
<1> QED BY <1>6, <1>7, <1>10, <1>19 DEF HostOK, RecordOK

----------------------------------------------------------------------------
(* Time passes and records go.                                             *)

LEMMA EmptyLog ==
  ASSUME NEW now \in Nat
  PROVE  LogOK(<< >>, now) /\ HostOK(None, << >>, now)
BY DEF LogOK, HostOK, Stay, Burst, RecordOK, NoneOK, Kept

LEMMA ClearedLog ==
  ASSUME NEW tp, NEW a, NEW now \in Nat, HostOK(tp, a, now)
  PROVE  HostOK(tp, << >>, now)
<1>1. LogOK(<< >>, now)
  BY EmptyLog
<1>2. RecordOK(tp, << >>, now)
  BY DEF HostOK, RecordOK, NoneOK, ZlineOK, CountOK, Kept
<1> QED BY <1>1, <1>2 DEF HostOK

LEMMA LaterLog ==
  ASSUME NEW tp, NEW a, NEW now \in Nat, HostOK(tp, a, now)
  PROVE  HostOK(tp, a, now + 1)
<1>1. PICK n \in Nat : n = Len(a)
  BY DEF HostOK, LogOK
<1>2. \A i \in 1 .. n : a[i].time \in Nat /\ a[i].wait \in Nat /\ a[i].time <= now
  BY <1>1, TypesOfLog DEF HostOK
<1>3. TrigTime \in Nat
  BY ThrottleAssumption
<1>4. LogOK(a, now + 1)
  BY <1>1, <1>2 DEF HostOK, LogOK
<1>5. Kept(a, now, now) => Kept(a, now + 1, now + 1)
  BY <1>1, <1>2 DEF Kept
<1>6. \A till : Kept(a, now, till) => Kept(a, now + 1, till)
  BY <1>1, <1>2 DEF Kept
<1>7. CASE tp = None /\ NoneOK(a, now)
  <2>1. NoneOK(a, now + 1)
    BY <1>1, <1>2, <1>3, <1>5, <1>7, SMTT(30) DEF NoneOK
  <2> QED BY <1>4, <1>7, <2>1 DEF HostOK, RecordOK
<1>8. CASE tp \in ThrottleRecs /\ tp.zline_start # 0 /\ ZlineOK(tp, a, now)
  <2>1. tp.zline_start \in Nat
    BY <1>8, ThrottleFields
  <2>2. ZlineOK(tp, a, now + 1)
    BY <1>6, <1>8, <2>1 DEF ZlineOK
  <2> QED BY <1>4, <1>8, <2>2 DEF HostOK, RecordOK
<1>9. CASE tp \in ThrottleRecs /\ tp.zline_start = 0 /\ CountOK(tp, a, now)
  <2>1. tp.first \in Nat /\ tp.first <= now + 1
    BY <1>9, ThrottleFields DEF CountOK
  <2>2. \A i \in 1 .. n : now + 1 <= a[i].time + TrigTime => now <= a[i].time + TrigTime
    BY <1>2, <1>3
  <2>3. Kept(a, now + 1, IF tp.conns = -1 THEN tp.first + TrigTime + 1 ELSE now + 1)
    <3>1. Kept(a, now, IF tp.conns = -1 THEN tp.first + TrigTime + 1 ELSE now)
      BY <1>9 DEF CountOK
    <3>2. CASE tp.conns = -1
      BY <1>6, <3>1, <3>2
    <3>3. CASE tp.conns # -1
      BY <1>5, <3>1, <3>3
    <3> QED BY <3>2, <3>3
  <2>4. CountOK(tp, a, now + 1)
    BY <1>1, <1>9, <2>1, <2>2, <2>3 DEF CountOK
  <2> QED BY <1>4, <1>9, <2>4 DEF HostOK, RecordOK
<1> QED BY <1>7, <1>8, <1>9 DEF HostOK, RecordOK

\* What the timer drops no longer matters: a z-line that is long over, a count whose
\* last connection is more than 2 * TrigTime ago.
Over(tp, now) ==
  /\ tp \in ThrottleRecs
  /\ IF tp.zline_start # 0
     THEN now - tp.zline_start >= throttle_get_zline_time(tp.stage) + RecordTime
     ELSE now - tp.last >= RecordTime

LEMMA OverOK ==
  ASSUME NEW tp, NEW a, NEW now \in Nat, HostOK(tp, a, now), Over(tp, now)
  PROVE  HostOK(None, a, now)
<1>1. PICK n \in Nat : n = Len(a)
  BY DEF HostOK, LogOK
<1>2. \A i \in 1 .. n : a[i].time \in Nat /\ a[i].wait \in Nat
  BY <1>1, TypesOfLog DEF HostOK
<1>3. TrigTime \in Nat /\ RecordTime \in Nat /\ 2 * TrigTime < RecordTime
  BY ThrottleAssumption
<1>4. tp \in ThrottleRecs
  BY DEF Over
<1>5. CASE tp.zline_start # 0
  <2>1. ZlineOK(tp, a, now)
    BY <1>4, <1>5, ThrottleNull DEF HostOK, RecordOK
  <2>2. tp.stage \in Nat /\ tp.zline_start \in Nat
    BY <1>4, <2>1, ThrottleFields DEF ZlineOK
  <2>3. PICK z \in Nat : z = throttle_get_zline_time(tp.stage) /\ z > TrigTime
    BY <2>2, ZlineTimes
  <2>4. now - tp.zline_start >= z + RecordTime
    BY <1>5, <2>3 DEF Over
  <2>5. \A i \in 1 .. n : a[i].time <= tp.zline_start
    BY <1>1, <2>1 DEF ZlineOK
  <2>6. \A i \in 1 .. n : a[i].time + TrigTime < now
    BY <1>2, <1>3, <2>2, <2>3, <2>4, <2>5
  <2>7. Kept(a, now, tp.zline_start + z)
    BY <2>1, <2>3 DEF ZlineOK
  <2>8. Kept(a, now, now)
    BY <1>1, <1>2, <1>3, <2>2, <2>3, <2>4, <2>7, SMTT(30) DEF Kept
  <2> QED BY <1>1, <2>6, <2>8 DEF HostOK, RecordOK, NoneOK
<1>6. CASE tp.zline_start = 0
  <2>1. CountOK(tp, a, now)
    BY <1>4, <1>6, ThrottleNull DEF HostOK, RecordOK
  <2>2. tp.first \in Nat /\ tp.last \in Nat /\ tp.first <= tp.last + TrigTime
    BY <1>4, <2>1, ThrottleFields DEF CountOK
  <2>3. now - tp.last >= RecordTime
    BY <1>6 DEF Over
  <2>4. \A i \in 1 .. n : a[i].time <= tp.last + TrigTime
    BY <1>1, <2>1 DEF CountOK
  <2>5. \A i \in 1 .. n : a[i].time + TrigTime < now
    BY <1>2, <1>3, <2>2, <2>3, <2>4
  <2>6. Kept(a, now, IF tp.conns = -1 THEN tp.first + TrigTime + 1 ELSE now)
    BY <2>1 DEF CountOK
  <2>7. tp.first + TrigTime + 1 <= now
    BY <1>3, <2>2, <2>3
  <2>8. \A i \in 1 .. n : ~ a[i].ok => \/ a[i].time + a[i].wait <= now
                                      \/ a[i].time + a[i].wait <= tp.first + TrigTime + 1
    BY <1>1, <2>6 DEF Kept
  <2>9. \A i \in 1 .. n : ~ a[i].ok => a[i].time + a[i].wait <= now
    BY <1>2, <1>3, <2>2, <2>7, <2>8
  <2> QED BY <1>1, <2>5, <2>9 DEF HostOK, RecordOK, NoneOK, Kept
<1> QED BY <1>5, <1>6

----------------------------------------------------------------------------
(* The actions.                                                            *)

Noted(b, a, e) ==
  b = LET log == IF ~ e.ok /\ e \in Range(a) THEN a ELSE Append(a, e)
      IN IF Len(log) > LogLength THEN Tail(log) ELSE log

LEMMA NotedOK ==
  ASSUME NEW a \in Seq(Entries), NEW e \in Entries, NEW c, Appended(c, a, e),
         NEW tp, NEW now \in Nat, HostOK(tp, c, now), NEW b, Noted(b, a, e)
  PROVE  HostOK(tp, b, now)
<1>1. PICK d : d = IF ~ e.ok /\ e \in Range(a) THEN a ELSE Append(a, e)
  OBVIOUS
<1>2. HostOK(tp, d, now)
  <2>1. CASE ~ e.ok /\ e \in Range(a)
    <3>1. HostOK(tp, a, now)
      BY <2>1, WithoutLast
    <3> QED BY <1>1, <2>1, <3>1
  <2>2. CASE ~ (~ e.ok /\ e \in Range(a))
    <3>1. d = c
      BY <1>1, <2>2 DEF Appended
    <3> QED BY <3>1
  <2> QED BY <2>1, <2>2
<1>3. b = IF Len(d) > LogLength THEN Tail(d) ELSE d
  BY <1>1 DEF Noted
<1>4. CASE Len(d) > LogLength
  <2>1. d \in Seq(Entries) /\ LogLength \in Nat
    BY <1>2, ThrottleAssumption DEF HostOK, LogOK, LogLength
  <2>2. d # << >>
    BY <1>4, <2>1
  <2>3. Dropped(b, d)
    BY <1>3, <1>4, <2>2 DEF Dropped
  <2> QED BY <1>2, <2>3, ShorterLog
<1>5. CASE ~ (Len(d) > LogLength)
  BY <1>2, <1>3, <1>5
<1> QED BY <1>4, <1>5

\* What accept_connection notes.
EntryOf(e, r, now) ==
  e = [time |-> now, ok |-> r.ok,
       wait |-> IF r.tp.zline_start # 0 THEN throttle_get_zline_time(r.tp.stage) ELSE 0]

LEMMA AcceptOK ==
  ASSUME NEW tp \in ThrottleRecs \cup {None}, NEW a, NEW now \in Nat \ {0}, HostOK(tp, a, now),
         NEW r, Here(r, tp, now), NEW e, EntryOf(e, r, now), NEW b, Appended(b, a, e)
  PROVE  e \in Entries /\ r.tp \in ThrottleRecs /\ HostOK(r.tp, b, now)
<1>1. Answered(r, tp, now)
  BY CheckHere
<1>2. PICK w : w = IF r.tp.zline_start # 0 THEN throttle_get_zline_time(r.tp.stage) ELSE 0
  OBVIOUS
<1>3. e = [time |-> now, ok |-> r.ok, wait |-> w]
  BY <1>2 DEF EntryOf
<1>4. e.time = now /\ e.ok = r.ok /\ e.wait = w
  BY <1>3
<1>5. a \in Seq(Entries) /\ LogOK(a, now) /\ now - now <= TrigTime
  BY ThrottleAssumption DEF HostOK, LogOK
<1>6. ASSUME w \in Nat, r.ok \in BOOLEAN PROVE e \in Entries /\ Longer(b, a, e, now)
  <2>1. e \in Entries
    BY <1>3, <1>6 DEF Entries
  <2> QED BY <1>4, <1>5, <2>1, OneLonger
<1>7. CASE tp \in ThrottleRecs /\ zlined(tp, now) /\ r.ok = FALSE /\ Zlined(r.tp, now, tp.stage)
  <2>1. tp.zline_start # 0 /\ r.tp \in ThrottleRecs /\ r.tp.zline_start = now /\ r.tp.stage = tp.stage
    BY <1>7 DEF zlined, Zlined
  <2>2. ZlineOK(tp, a, now)
    BY <1>7, <2>1, ThrottleNull DEF HostOK, RecordOK
  <2>3. PICK stage \in Nat : stage = tp.stage
    BY <1>7, <2>2, ThrottleFields DEF ZlineOK
  <2>4. w = throttle_get_zline_time(stage) /\ w \in Nat
    BY <1>2, <2>1, <2>3, ZlineTimes
  <2>5. e \in Entries /\ Longer(b, a, e, now)
    BY <1>6, <1>7, <2>4
  <2>6. ~ e.ok /\ e.wait = throttle_get_zline_time(stage)
    BY <1>4, <1>7, <2>4
  <2>7. Zlined(r.tp, now, stage)
    BY <1>7, <2>3
  <2>8. PICK q : q = r.tp
    OBVIOUS
  <2>9. HostOK(q, b, now)
    BY <1>7, <2>1, <2>3, <2>5, <2>6, <2>7, <2>8, ZlinedHere
  <2> QED BY <2>1, <2>5, <2>8, <2>9
<1>8. CASE Old(tp, now) /\ r.ok = TRUE /\ Fresh(r.tp, now)
  <2>1. r.tp \in ThrottleRecs /\ r.tp.zline_start = 0
    BY <1>8 DEF Fresh
  <2>2. e \in Entries /\ Longer(b, a, e, now)
    BY <1>2, <1>6, <1>8, <2>1
  <2>3. OldLog(a, now, now)
    BY <1>5, <1>8, OldRecord
  <2>4. PICK q : q = r.tp
    OBVIOUS
  <2>5. Fresh(q, now) /\ e.ok
    BY <1>4, <1>8, <2>4
  <2>6. HostOK(q, b, now)
    BY <1>5, <2>2, <2>3, <2>5, FreshHere
  <2> QED BY <2>1, <2>2, <2>4, <2>6
<1>9. CASE /\ Young(tp, now) /\ tp.conns >= 0 /\ tp.conns + 1 < TrigCount
           /\ r.ok = TRUE /\ CountsOn(r.tp, tp, now)
  <2>1. r.tp \in ThrottleRecs /\ r.tp.zline_start = 0
    BY <1>9 DEF CountsOn
  <2>2. e \in Entries /\ Longer(b, a, e, now)
    BY <1>2, <1>6, <1>9, <2>1
  <2>3. PICK q : q = r.tp
    OBVIOUS
  <2>4. CountsOn(q, tp, now) /\ e.ok
    BY <1>4, <1>9, <2>3
  <2>5. HostOK(q, b, now)
    BY <1>9, <2>2, <2>4, CountedHere
  <2> QED BY <2>1, <2>2, <2>3, <2>5
<1>10. CASE /\ Young(tp, now) /\ tp.conns >= 0 /\ tp.conns + 1 >= TrigCount
            /\ r.ok = FALSE /\ Zlined(r.tp, now, tp.stage + 1)
  <2>1. r.tp \in ThrottleRecs /\ r.tp.zline_start = now /\ r.tp.stage = tp.stage + 1
    BY <1>10 DEF Zlined
  <2>2. tp \in ThrottleRecs
    BY <1>10 DEF Young
  <2>3. PICK stage \in Nat : stage = tp.stage + 1
    <3>1. tp.stage + 1 \in Nat
      BY <2>2, ThrottleFields
    <3> QED BY <3>1
  <2>4. w = throttle_get_zline_time(stage) /\ w \in Nat
    BY <1>2, <2>1, <2>3, ZlineTimes
  <2>5. e \in Entries /\ Longer(b, a, e, now)
    BY <1>6, <1>10, <2>4
  <2>6. ~ e.ok /\ e.wait = throttle_get_zline_time(stage)
    BY <1>4, <1>10, <2>4
  <2>7. PICK q : q = r.tp
    OBVIOUS
  <2>8. Zlined(q, now, stage)
    BY <1>10, <2>3, <2>7
  <2>9. HostOK(q, b, now)
    BY <1>10, <2>5, <2>6, <2>8, ZlinedHere
  <2> QED BY <2>1, <2>5, <2>7, <2>9
<1>11. CASE Young(tp, now) /\ tp.conns = -1 /\ r.ok = FALSE /\ CountsOn(r.tp, tp, now)
  <2>1. r.tp \in ThrottleRecs /\ r.tp.zline_start = 0
    BY <1>11 DEF CountsOn
  <2>2. e \in Entries /\ Longer(b, a, e, now)
    BY <1>2, <1>6, <1>11, <2>1
  <2>3. PICK q : q = r.tp
    OBVIOUS
  <2>4. CountsOn(q, tp, now) /\ ~ e.ok /\ e.wait = 0
    BY <1>2, <1>4, <1>11, <2>1, <2>3
  <2>5. HostOK(q, b, now)
    BY <1>11, <2>2, <2>4, CountedHere
  <2> QED BY <2>1, <2>2, <2>3, <2>5
<1> QED BY <1>1, <1>7, <1>8, <1>9, <1>10, <1>11 DEF Answered

LEMMA SignonOK ==
  ASSUME NEW tp \in ThrottleRecs \cup {None}, NEW a, NEW now \in Nat, HostOK(tp, a, now),
         NEW t \in Nat, t <= now, now - t <= TrigTime, NEW q, There(q, tp, t)
  PROVE  q \in ThrottleRecs /\ HostOK(q, a, now)
<1>1. Left(q, tp, t)
  BY CheckThere
<1>2. CASE tp \in ThrottleRecs /\ zlined(tp, t) /\ q = tp
  BY <1>2
<1>3. CASE Old(tp, t) /\ Fresh(q, t)
  <2>1. OldLog(a, now, t)
    BY <1>3, OldRecord
  <2>2. LogOK(a, now)
    BY DEF HostOK
  <2>3. HostOK(q, a, now)
    BY <1>3, <2>1, <2>2, FreshThere
  <2> QED BY <1>3, <2>3 DEF Fresh
<1>4. CASE Young(tp, t) /\ CountsOn(q, tp, t)
  <2>1. HostOK(q, a, now)
    BY <1>4, CountedThere
  <2> QED BY <1>4, <2>1 DEF CountsOn
<1> QED BY <1>1, <1>2, <1>3, <1>4 DEF Left

\* One host's record and log change.
LEMMA OneHost ==
  ASSUME ThrottleInv, NEW h \in Addrs, NEW q \in ThrottleRecs \cup {None}, NEW b,
         HostOK(q, b, NOW), NOW' = NOW,
         throttles' = [throttles EXCEPT ![h] = q], attempts' = [attempts EXCEPT ![h] = b]
  PROVE  ThrottleInv'
<1>1. b \in Seq(Entries)
  BY DEF HostOK, LogOK
<1>2. throttles' \in [Addrs -> ThrottleRecs \cup {None}] /\ attempts' \in [Addrs -> Seq(Entries)]
  BY <1>1 DEF ThrottleInv
<1>3. ASSUME NEW k \in Addrs PROVE HostOK(throttles'[k], attempts'[k], NOW)
  <2>1. CASE k = h
    <3>1. throttles'[k] = q /\ attempts'[k] = b
      BY <2>1 DEF ThrottleInv
    <3> QED BY <3>1
  <2>2. CASE k # h
    <3>1. throttles'[k] = throttles[k] /\ attempts'[k] = attempts[k]
      BY <2>2 DEF ThrottleInv
    <3> QED BY <3>1 DEF ThrottleInv
  <2> QED BY <2>1, <2>2
<1> QED BY <1>2, <1>3 DEF ThrottleInv

LEMMA AcceptStep ==
  ASSUME ThrottleInv, NEW h \in Addrs, accept_connection(h)
  PROVE  ThrottleInv'
<1>1. PICK now \in Nat \ {0} : now = NOW
  BY DEF ThrottleInv
<1>2. PICK tp \in ThrottleRecs \cup {None} : tp = throttles[h]
  BY DEF ThrottleInv
<1>3. PICK a \in Seq(Entries) : a = attempts[h]
  BY DEF ThrottleInv
<1>4. HostOK(tp, a, now)
  BY <1>1, <1>2, <1>3 DEF ThrottleInv
<1>5. PICK r : r = throttle_check(tp, TRUE, now)
  OBVIOUS
<1>6. PICK e : e = [time |-> now, ok |-> r.ok,
                    wait |-> IF r.tp.zline_start # 0 THEN throttle_get_zline_time(r.tp.stage) ELSE 0]
  OBVIOUS
<1>7. PICK c : c = Append(a, e)
  OBVIOUS
<1>8. Here(r, tp, now) /\ EntryOf(e, r, now) /\ Appended(c, a, e)
  BY <1>5, <1>6, <1>7 DEF Here, EntryOf, Appended
<1>9. e \in Entries /\ r.tp \in ThrottleRecs /\ HostOK(r.tp, c, now)
  BY <1>4, <1>8, AcceptOK
<1>10. CASE throttle_enable
  <2>1. PICK q : q = r.tp
    OBVIOUS
  <2>2. PICK b : b = LET log == IF ~ e.ok /\ e \in Range(a) THEN a ELSE Append(a, e)
                     IN IF Len(log) > LogLength THEN Tail(log) ELSE log
    OBVIOUS
  <2>3. HostOK(q, b, now)
    BY <1>8, <1>9, <2>1, <2>2, NotedOK DEF Noted
  <2>4. throttles' = [throttles EXCEPT ![h] = q] /\ NOW' = NOW
    BY <1>1, <1>2, <1>5, <1>10, <2>1 DEF accept_connection
  <2>5. e.ok = r.ok
    BY <1>6
  <2>6. attempts' = [attempts EXCEPT ![h] = b]
    BY <1>1, <1>2, <1>3, <1>5, <1>6, <1>10, <2>2, <2>5 DEF accept_connection, noted
  <2> QED BY <1>1, <1>9, <2>1, <2>3, <2>4, <2>6, OneHost
<1>11. CASE ~ throttle_enable
  BY <1>11 DEF accept_connection, ThrottleInv
<1> QED BY <1>10, <1>11

LEMMA SignonStep ==
  ASSUME ThrottleInv, NEW h \in Addrs, NEW t \in Nat, remote_signon(h, t)
  PROVE  ThrottleInv'
<1>1. PICK now \in Nat \ {0} : now = NOW
  BY DEF ThrottleInv
<1>2. PICK tp \in ThrottleRecs \cup {None} : tp = throttles[h]
  BY DEF ThrottleInv
<1>3. HostOK(tp, attempts[h], now)
  BY <1>1, <1>2 DEF ThrottleInv
<1>4. PICK u \in Nat : u = IF t > now THEN now ELSE t
  BY <1>1
<1>5. u <= now /\ now - u <= TrigTime
  BY <1>1, <1>4, ThrottleAssumption DEF remote_signon
<1>6. PICK q : q = throttle_check(tp, FALSE, u).tp
  OBVIOUS
<1>7. There(q, tp, u)
  BY <1>6 DEF There
<1>8. q \in ThrottleRecs /\ HostOK(q, attempts[h], now)
  BY <1>3, <1>5, <1>7, SignonOK
<1>9. throttles' = [throttles EXCEPT ![h] = q] /\ NOW' = NOW /\ attempts' = attempts
  BY <1>1, <1>2, <1>4, <1>6 DEF remote_signon
<1>10. attempts' = [attempts EXCEPT ![h] = attempts[h]]
  BY <1>9 DEF ThrottleInv
<1>11. PICK b : b = attempts[h]
  OBVIOUS
<1> QED BY <1>1, <1>8, <1>9, <1>10, <1>11, OneHost

LEMMA ForceStep ==
  ASSUME ThrottleInv, NEW h \in Addrs, throttle_force(h)
  PROVE  ThrottleInv'
<1>1. PICK now \in Nat \ {0} : now = NOW
  BY DEF ThrottleInv
<1>2. PICK tp \in ThrottleRecs \cup {None} : tp = throttles[h]
  BY DEF ThrottleInv
<1>3. PICK a \in Seq(Entries) : a = attempts[h]
  BY DEF ThrottleInv
<1>4. HostOK(tp, a, now)
  BY <1>1, <1>2, <1>3 DEF ThrottleInv
<1>5. PICK q : q = forced(tp, now)
  OBVIOUS
<1>6. ForcedIn(q, tp, now)
  BY <1>5 DEF ForcedIn
<1>7. q \in ThrottleRecs
  BY <1>6, ForcedFields
<1>8. throttles' = [throttles EXCEPT ![h] = q] /\ NOW' = NOW
  BY <1>1, <1>2, <1>5 DEF throttle_force
<1>9. CASE tp # None /\ tp.zline_start # 0
  <2>1. HostOK(q, a, now)
    BY <1>4, <1>6, <1>9, ForcedZlined
  <2>2. attempts' = attempts
    BY <1>2, <1>9 DEF throttle_force
  <2>3. attempts' = [attempts EXCEPT ![h] = a]
    BY <1>3, <2>2 DEF ThrottleInv
  <2> QED BY <1>1, <1>7, <1>8, <2>1, <2>3, OneHost
<1>10. CASE ~ (tp # None /\ tp.zline_start # 0)
  <2>1. PICK e : e = [time |-> now, ok |-> FALSE, wait |-> TrigTime + 1]
    OBVIOUS
  <2>2. e \in Entries /\ ~ e.ok /\ e.wait = TrigTime + 1 /\ e.time = now
    BY <2>1, ThrottleAssumption DEF Entries
  <2>3. PICK c : c = Append(a, e)
    OBVIOUS
  <2>4. Appended(c, a, e)
    BY <2>3 DEF Appended
  <2>5. Longer(c, a, e, now)
    BY <2>2, <2>4, OneLonger
  <2>6. HostOK(q, c, now)
    BY <1>4, <1>6, <1>10, <2>2, <2>5, ForcedHere
  <2>7. PICK b : b = LET log == IF ~ e.ok /\ e \in Range(a) THEN a ELSE Append(a, e)
                     IN IF Len(log) > LogLength THEN Tail(log) ELSE log
    OBVIOUS
  <2>8. HostOK(q, b, now)
    BY <2>2, <2>4, <2>6, <2>7, NotedOK DEF Noted
  <2>9. attempts' = noted(h, FALSE, TrigTime + 1)
    BY <1>2, <1>10 DEF throttle_force
  <2>10. attempts' = [attempts EXCEPT ![h] = b]
    BY <1>1, <1>3, <2>1, <2>2, <2>7, <2>9 DEF noted
  <2> QED BY <1>1, <1>7, <1>8, <2>8, <2>10, OneHost
<1> QED BY <1>9, <1>10

LEMMA RemoveStep ==
  ASSUME ThrottleInv, NEW h \in Addrs, throttle_remove(h)
  PROVE  ThrottleInv'
<1>1. throttles' = [throttles EXCEPT ![h] = None] /\ NOW' = NOW
  BY DEF throttle_remove
<1>2. PICK b : b = IF throttles[h] = None THEN attempts[h] ELSE << >>
  OBVIOUS
<1>3. attempts' = [attempts EXCEPT ![h] = b]
  BY <1>2 DEF throttle_remove, ThrottleInv
<1>4. HostOK(None, b, NOW)
  <2>1. CASE throttles[h] = None
    BY <1>2, <2>1 DEF ThrottleInv
  <2>2. CASE throttles[h] # None
    <3>1. NOW \in Nat
      BY DEF ThrottleInv
    <3> QED BY <1>2, <2>2, <3>1, EmptyLog
  <2> QED BY <2>1, <2>2
<1> QED BY <1>1, <1>3, <1>4, OneHost

\* All of them.
LEMMA AllHosts ==
  ASSUME ThrottleInv, ThrottleNext
  PROVE  ThrottleInv'
<1>1. NOW \in Nat
  BY DEF ThrottleInv
<1>2. ASSUME NEW h \in Busy, accept_connection(h) PROVE ThrottleInv'
  BY <1>2, AcceptStep, ThrottleAssumption
<1>3. ASSUME NEW h \in Busy, NEW t \in 1 .. NOW + 1, remote_signon(h, t) PROVE ThrottleInv'
  <2>1. t \in Nat /\ h \in Addrs
    BY <1>1, ThrottleAssumption
  <2> QED BY <1>3, <2>1, SignonStep
<1>4. ASSUME NEW h \in Busy, throttle_force(h) PROVE ThrottleInv'
  BY <1>4, ForceStep, ThrottleAssumption
<1>5. ASSUME NEW h \in Busy, throttle_remove(h) PROVE ThrottleInv'
  BY <1>5, RemoveStep, ThrottleAssumption
<1>6. ASSUME throttle_timer PROVE ThrottleInv'
  <2>1. throttles' \in [Addrs -> ThrottleRecs \cup {None}] /\ attempts' = attempts /\ NOW' = NOW
    BY <1>6 DEF throttle_timer, ThrottleInv
  <2>2. ASSUME NEW h \in Addrs PROVE HostOK(throttles'[h], attempts[h], NOW)
    <3>1. CASE expired(throttles[h])
      <4>1. throttles'[h] = None
        BY <1>6, <3>1 DEF throttle_timer
      <4>2. PICK tp : tp = throttles[h]
        OBVIOUS
      <4>3. HostOK(tp, attempts[h], NOW) /\ tp \in ThrottleRecs \cup {None}
        BY <4>2 DEF ThrottleInv
      <4>4. Over(tp, NOW)
        BY <3>1, <4>2, <4>3 DEF expired, Over
      <4>5. HostOK(None, attempts[h], NOW)
        BY <1>1, <4>3, <4>4, OverOK
      <4> QED BY <4>1, <4>5
    <3>2. CASE ~ expired(throttles[h])
      <4>1. throttles'[h] = throttles[h]
        BY <1>6, <3>2 DEF throttle_timer
      <4> QED BY <4>1 DEF ThrottleInv
    <3> QED BY <3>1, <3>2
  <2> QED BY <2>1, <2>2 DEF ThrottleInv
<1>7. ASSUME throttle_rehash PROVE ThrottleInv'
  <2>1. /\ throttles' \in [Addrs -> ThrottleRecs \cup {None}] /\ attempts' \in [Addrs -> Seq(Entries)]
        /\ NOW' = NOW /\ \A h \in Addrs : throttles'[h] = None /\ attempts'[h] = << >>
    BY <1>7 DEF throttle_rehash
  <2>2. HostOK(None, << >>, NOW)
    BY <1>1, EmptyLog
  <2> QED BY <2>1, <2>2 DEF ThrottleInv
<1>8. ASSUME m_set_throttle PROVE ThrottleInv'
  <2>1. /\ throttles' = throttles /\ attempts' \in [Addrs -> Seq(Entries)]
        /\ NOW' = NOW /\ \A h \in Addrs : attempts'[h] = << >>
    BY <1>8 DEF m_set_throttle
  <2>2. ASSUME NEW h \in Addrs PROVE HostOK(throttles[h], << >>, NOW)
    <3>1. PICK tp, a : tp = throttles[h] /\ a = attempts[h]
      OBVIOUS
    <3>2. HostOK(tp, a, NOW)
      BY <3>1 DEF ThrottleInv
    <3> QED BY <1>1, <3>1, <3>2, ClearedLog
  <2> QED BY <2>1, <2>2 DEF ThrottleInv
<1>9. ASSUME Tick PROVE ThrottleInv'
  <2>1. throttles' = throttles /\ attempts' = attempts /\ NOW' = NOW + 1
    BY <1>9 DEF Tick
  <2>2. ASSUME NEW h \in Addrs PROVE HostOK(throttles[h], attempts[h], NOW + 1)
    <3>1. PICK tp, a : tp = throttles[h] /\ a = attempts[h]
      OBVIOUS
    <3>2. HostOK(tp, a, NOW)
      BY <3>1 DEF ThrottleInv
    <3> QED BY <1>1, <3>1, <3>2, LaterLog
  <2> QED BY <1>1, <2>1, <2>2 DEF ThrottleInv
<1> QED BY <1>2, <1>3, <1>4, <1>5, <1>6, <1>7, <1>8, <1>9 DEF ThrottleNext

LEMMA ThrottleKept ==
  ASSUME ThrottleInv, UNCHANGED throttleVars
  PROVE  ThrottleInv'
BY DEF ThrottleInv, throttleVars

\* Connections that are let in and sent away: whatever connections, remote signons, forced
\* throttles, expiries and rehashes come in whatever order, a host that was sent away stays
\* out for the whole of its z-line (started again by every connection in it) or for TrigTime
\* after a forced throttle, and no burst of connections goes through (throttle.c).
THEOREM ThrottleAlwaysHolds == ClonesSpec => []ThrottleHolds
<1>1. ThrottleInit => ThrottleInv
  <2>1. SUFFICES ASSUME ThrottleInit PROVE ThrottleInv
    OBVIOUS
  <2>2. NOW = 1 /\ throttles = [h \in Addrs |-> None] /\ attempts = [h \in Addrs |-> << >>]
    BY <2>1 DEF ThrottleInit
  <2>3. HostOK(None, << >>, NOW)
    BY <2>2, EmptyLog
  <2> QED BY <2>2, <2>3 DEF ThrottleInv
<1>2. ASSUME ThrottleInv, [ClonesNext \/ (ThrottleNext /\ UNCHANGED clonesVars)]_<<clonesVars, throttleVars>>
      PROVE  ThrottleInv'
  <2>1. CASE ThrottleNext
    BY <1>2, <2>1, AllHosts
  <2>2. CASE UNCHANGED throttleVars
    BY <1>2, <2>2, ThrottleKept
  <2>3. CASE ClonesNext
    <3>1. CASE \E h \in Addrs : throttle_force(h)
      BY <1>2, <3>1, ForceStep
    <3>2. CASE \E h \in Addrs : throttle_remove(h)
      BY <1>2, <3>2, RemoveStep
    <3>3. \/ UNCHANGED throttleVars \/ \E h \in Addrs : throttle_force(h)
          \/ \E h \in Addrs : throttle_remove(h)
      <4>1. ASSUME NEW c \in Clients, NEW h \in Addrs, NEW skip \in BOOLEAN,
                   NEW mask \in BOOLEAN, NEW l \in ClassLimits, NEW s \in ClassSites,
                   register_here(c, h, skip, [host |-> l, site |-> s], mask)
            PROVE  UNCHANGED throttleVars \/ throttle_force(h) \/ throttle_remove(h)
        BY <4>1 DEF register_here
      <4>2. ASSUME NEW c \in Clients, NEW h \in Addrs, NEW via, register_there(c, h, via)
            PROVE  UNCHANGED throttleVars
        BY <4>2 DEF register_there
      <4>3. ASSUME NEW c \in Clients, exit_one_client(c) PROVE UNCHANGED throttleVars
        BY <4>3 DEF exit_one_client
      <4>4. ASSUME NEW set \in Settable, clones_set(set[1], set[2], set[3]) PROVE UNCHANGED throttleVars
        BY <4>4 DEF clones_set
      <4> QED BY <2>3, <4>1, <4>2, <4>3, <4>4 DEF ClonesNext
    <3> QED BY <1>2, <3>1, <3>2, <3>3, ThrottleKept
  <2> QED BY <1>2, <2>1, <2>2, <2>3
<1>3. ThrottleInv => ThrottleHolds
  <2>1. SUFFICES ASSUME ThrottleInv, NEW h \in Addrs
                 PROVE  /\ \A i, j \in DOMAIN attempts[h] :
                             i < j /\ ~ attempts[h][i].ok /\ attempts[h][j].ok
                               => attempts[h][j].time - attempts[h][i].time >= attempts[h][i].wait
                        /\ \A i, j \in DOMAIN attempts[h] :
                             i < j /\ Cardinality({k \in i..j : attempts[h][k].ok}) >= 2 * TrigCount - 1
                               => attempts[h][j].time - attempts[h][i].time > TrigTime
    BY DEF ThrottleHolds, StaysOut, NoBurst
  <2>2. LogOK(attempts[h], NOW)
    BY <2>1 DEF ThrottleInv, HostOK
  <2>3. DOMAIN attempts[h] = 1 .. Len(attempts[h])
    BY <2>2 DEF LogOK
  <2> QED BY <2>2, <2>3 DEF LogOK, Stay, Burst, Passed
<1> QED BY <1>1, <1>2, <1>3, PTL DEF ClonesSpec

----------------------------------------------------------------------------
(* Module ConfRehash.                                                      *)

ConnTabs    == [Links -> ConnRecs]
ConnectTabs == [Connects -> ConnectRecs \cup {None}]
AllowTabs   == [AllowBlocks -> AllowRecs \cup {None}]
OperTabs    == [Opers -> OperRecs \cup {None}]
ClassTabs   == [ClassNames -> ClassRecs \cup {None}]
ClassNats   == [ClassNames -> Nat]

ClassUsers(cn, k)   == {c \in Links : cn[c].class = k}
AllowUsers(cn, a)   == {c \in Links : cn[c].allow = a}
OperUsers(cn, o)    == {c \in Links : cn[c].oper = o}
Claimants(cn, b)    == {c \in Links : cn[c].st \in {"nego", "server"} /\ cn[c].aconn = b}

\* The connections of every class, and with them the blocks that refer to it.
LinksOf(cn) == [k \in ClassNames |-> Cardinality(ClassUsers(cn, k))]
RefsOf(cn, ct, al, op) ==
  [k \in ClassNames |-> Cardinality(ClassUsers(cn, k)) + Cardinality(ConnectRefs(ct, k))
                        + Cardinality(AllowRefs(al, k)) + Cardinality(OperRefs(op, k))]

\* A class counts its n links and at least the u references to it.
ClassesOK(cl, n, u) ==
  /\ cl \in ClassTabs
  /\ \A k \in ClassNames : /\ cl[k] = None => u[k] = 0
                           /\ cl[k] # None => cl[k].links = n[k] /\ cl[k].refs >= u[k]
ClassPart(cl, cn, ct, al, op) ==
  /\ ClassesOK(cl, LinksOf(cn), RefsOf(cn, ct, al, op))
  /\ cl[Default] # None /\ cl[Default].max # -1
AllowsOK(al, cn) ==
  \A a \in AllowBlocks :
    /\ al[a] = None => AllowUsers(cn, a) = {}
    /\ al[a] # None => /\ al[a].clients = Cardinality(AllowUsers(cn, a))
                       /\ al[a].legal = -1 => AllowUsers(cn, a) # {}
OpersOK(op, cn) ==
  \A o \in Opers : /\ op[o] = None => OperUsers(cn, o) = {}
                   /\ op[o] # None => op[o].opers = Cardinality(OperUsers(cn, o))

\* What a connection has, by what it is.
ShapeOK(x) ==
  /\ x.st \in {"none", "unknown", "connecting"} => x.class = None /\ x.allow = None /\ x.oper = None
  /\ x.st = "person" => x.class \in ClassNames /\ x.allow \in AllowBlocks
  /\ x.st \in {"nego", "server"} => /\ x.class \in ClassNames /\ x.aconn \in Connects
                                    /\ x.allow = None /\ x.oper = None

\* A block with one link is there and has a link noted.
ClaimsOK(ct, cn, sh) ==
  \A b \in Connects \ sh : \A c \in Claimants(cn, b) :
    ct[b] # None /\ ct[b].acpt # None /\ \A d \in Claimants(cn, b) : d = c

ConfTypes == /\ conn \in ConnTabs /\ connects \in ConnectTabs /\ allows \in AllowTabs /\ opers \in OperTabs
             /\ shared \subseteq Connects
ConfInv ==
  /\ ConfTypes /\ \A c \in Links : ShapeOK(conn[c])
  /\ ClassPart(class, conn, connects, allows, opers)
  /\ AllowsOK(allows, conn) /\ OpersOK(opers, conn) /\ ClaimsOK(connects, conn, shared)

----------------------------------------------------------------------------
(* Counting.                                                               *)

\* Two sets that differ in one element at most.
LEMMA Swing ==
  ASSUME NEW A, NEW B, IsFiniteSet(A), IsFiniteSet(B), NEW c, A \ {c} = B \ {c}
  PROVE  /\ Cardinality(A) \in Nat /\ Cardinality(B) \in Nat
         /\ Cardinality(B) = Cardinality(A) + (IF c \in B THEN 1 ELSE 0) - (IF c \in A THEN 1 ELSE 0)
<1>1. Cardinality(A) \in Nat /\ Cardinality(B) \in Nat
  BY FS_CardinalityType
<1>2. PICK m : m = Cardinality(A \ {c}) /\ m = Cardinality(B \ {c})
  OBVIOUS
<1>3. m = IF c \in A THEN Cardinality(A) - 1 ELSE Cardinality(A)
  BY <1>2, FS_RemoveElement
<1>4. m = IF c \in B THEN Cardinality(B) - 1 ELSE Cardinality(B)
  BY <1>2, FS_RemoveElement
<1> QED BY <1>1, <1>3, <1>4

LEMMA BlocksFinite == IsFiniteSet(AllowBlocks)
BY ConfAssumption, FS_Product DEF AllowBlocks

LEMMA UsersFinite ==
  ASSUME NEW cn, NEW x
  PROVE  /\ IsFiniteSet(ClassUsers(cn, x)) /\ Cardinality(ClassUsers(cn, x)) \in Nat
         /\ IsFiniteSet(AllowUsers(cn, x)) /\ Cardinality(AllowUsers(cn, x)) \in Nat
         /\ IsFiniteSet(OperUsers(cn, x)) /\ Cardinality(OperUsers(cn, x)) \in Nat
<1>1. ClassUsers(cn, x) \in SUBSET Links /\ AllowUsers(cn, x) \in SUBSET Links /\ OperUsers(cn, x) \in SUBSET Links
  BY DEF ClassUsers, AllowUsers, OperUsers
<1>2. IsFiniteSet(ClassUsers(cn, x)) /\ IsFiniteSet(AllowUsers(cn, x)) /\ IsFiniteSet(OperUsers(cn, x))
  BY <1>1, ConfAssumption, FS_Subset
<1> QED BY <1>2, FS_CardinalityType

LEMMA RefsFinite ==
  ASSUME NEW t, NEW k
  PROVE  /\ IsFiniteSet(ConnectRefs(t, k)) /\ Cardinality(ConnectRefs(t, k)) \in Nat
         /\ IsFiniteSet(AllowRefs(t, k)) /\ Cardinality(AllowRefs(t, k)) \in Nat
         /\ IsFiniteSet(OperRefs(t, k)) /\ Cardinality(OperRefs(t, k)) \in Nat
<1>1. ConnectRefs(t, k) \in SUBSET Connects /\ AllowRefs(t, k) \in SUBSET AllowBlocks /\ OperRefs(t, k) \in SUBSET Opers
  BY DEF ConnectRefs, AllowRefs, OperRefs
<1>2. IsFiniteSet(ConnectRefs(t, k)) /\ IsFiniteSet(AllowRefs(t, k)) /\ IsFiniteSet(OperRefs(t, k))
  BY <1>1, ConfAssumption, BlocksFinite, FS_Subset
<1> QED BY <1>2, FS_CardinalityType

LEMMA CountsTyped ==
  ASSUME NEW cn, NEW ct, NEW al, NEW op
  PROVE  /\ LinksOf(cn) \in ClassNats /\ RefsOf(cn, ct, al, op) \in ClassNats
         /\ \A k \in ClassNames : LinksOf(cn)[k] <= RefsOf(cn, ct, al, op)[k]
<1>1. ASSUME NEW k \in ClassNames
      PROVE  /\ LinksOf(cn)[k] \in Nat /\ RefsOf(cn, ct, al, op)[k] \in Nat
             /\ LinksOf(cn)[k] <= RefsOf(cn, ct, al, op)[k]
  <2>1. PICK u, v, w, x : /\ u = Cardinality(ClassUsers(cn, k)) /\ v = Cardinality(ConnectRefs(ct, k))
                          /\ w = Cardinality(AllowRefs(al, k)) /\ x = Cardinality(OperRefs(op, k))
    OBVIOUS
  <2>2. u \in Nat /\ v \in Nat /\ w \in Nat /\ x \in Nat
    BY <2>1, UsersFinite, RefsFinite
  <2>3. LinksOf(cn)[k] = u /\ RefsOf(cn, ct, al, op)[k] = u + v + w + x
    BY <2>1 DEF LinksOf, RefsOf
  <2> QED BY <2>2, <2>3
<1>2. LinksOf(cn) = [k \in ClassNames |-> LinksOf(cn)[k]]
  BY DEF LinksOf
<1>3. RefsOf(cn, ct, al, op) = [k \in ClassNames |-> RefsOf(cn, ct, al, op)[k]]
  BY DEF RefsOf
<1> QED BY <1>1, <1>2, <1>3 DEF ClassNats

\* The counters follow the numbers; a class that goes has no references.
Accounts(cl, n, u, m, v, dr, dl) ==
  /\ n \in ClassNats /\ u \in ClassNats /\ m \in ClassNats /\ v \in ClassNats
  /\ \A k \in ClassNames : /\ m[k] <= v[k] /\ dr[k] \in Int /\ dl[k] \in Int
                           /\ dl[k] = m[k] - n[k] /\ dr[k] >= v[k] - u[k]
                           /\ cl[k] = None => v[k] <= u[k]

LEMMA TalliedOK ==
  ASSUME NEW cl, NEW n, NEW u, NEW m, NEW v, NEW dr, NEW dl,
         ClassesOK(cl, n, u), Accounts(cl, n, u, m, v, dr, dl)
  PROVE  /\ ClassesOK(counted(cl, dr, dl), m, v)
         /\ cl[Default] # None /\ cl[Default].max # -1
              => counted(cl, dr, dl)[Default] # None /\ counted(cl, dr, dl)[Default].max # -1
<1>1. PICK e : e = [k \in ClassNames |-> IF cl[k] = None THEN None
                     ELSE [cl[k] EXCEPT !.refs = @ + dr[k], !.links = @ + dl[k]]]
  OBVIOUS
<1>2. PICK f : f = counted(cl, dr, dl) /\ f = expire_class(e)
  BY <1>1 DEF counted
<1>3. ASSUME NEW k \in ClassNames
      PROVE  /\ f[k] \in ClassRecs \cup {None}
             /\ f[k] = None => v[k] = 0
             /\ f[k] # None => f[k].links = m[k] /\ f[k].refs >= v[k]
             /\ cl[k] # None /\ cl[k].max # -1 => f[k] # None /\ f[k].max # -1
  <2>1. f[k] = IF e[k] # None /\ e[k].max = -1 /\ e[k].refs = 0 THEN None ELSE e[k]
    BY <1>2 DEF expire_class
  <2>2. /\ n[k] \in Nat /\ u[k] \in Nat /\ m[k] \in Nat /\ v[k] \in Nat
        /\ m[k] <= v[k] /\ dr[k] \in Int /\ dl[k] \in Int
        /\ dl[k] = m[k] - n[k] /\ dr[k] >= v[k] - u[k] /\ (cl[k] = None => v[k] <= u[k])
    BY DEF Accounts, ClassNats
  <2>3. CASE cl[k] = None
    <3>1. e[k] = None
      BY <1>1, <2>3
    <3>2. u[k] = 0
      BY <2>3 DEF ClassesOK
    <3> QED BY <2>1, <2>2, <2>3, <3>1, <3>2
  <2>4. CASE cl[k] # None
    <3>1. /\ cl[k] \in ClassRecs /\ cl[k].links = n[k] /\ cl[k].refs >= u[k]
      BY <2>4 DEF ClassesOK, ClassTabs
    <3>2. PICK x : x = cl[k]
      OBVIOUS
    <3>3. PICK g : g = [x EXCEPT !.refs = x.refs + dr[k]]
      OBVIOUS
    <3>4. PICK h : h = [g EXCEPT !.links = x.links + dl[k]]
      OBVIOUS
    <3>5. x \in ClassRecs /\ x.refs \in Nat /\ x.links \in Nat /\ x.links = n[k] /\ x.refs >= u[k]
      BY <3>1, <3>2 DEF ClassRecs
    <3>6. x.refs + dr[k] \in Nat /\ x.refs + dr[k] >= v[k] /\ x.links + dl[k] = m[k]
      BY <2>2, <3>5
    <3>7. g \in ClassRecs /\ g.refs = x.refs + dr[k] /\ g.links = x.links /\ g.max = x.max
      BY <3>3, <3>5, <3>6 DEF ClassRecs
    <3>8. h \in ClassRecs /\ h.refs = x.refs + dr[k] /\ h.links = x.links + dl[k] /\ h.max = x.max
      BY <2>2, <3>4, <3>6, <3>7 DEF ClassRecs
    <3>9. e[k] = h
      <4>1. e[k] = [x EXCEPT !.refs = x.refs + dr[k], !.links = x.links + dl[k]]
        BY <1>1, <2>4, <3>2
      <4> QED BY <3>3, <3>4, <3>5, <4>1 DEF ClassRecs
    <3>10. h # None
      BY <3>8, ConfNull
    <3>11. f[k] = IF h.max = -1 /\ h.refs = 0 THEN None ELSE h
      BY <2>1, <3>9, <3>10
    <3>12. h.refs >= v[k] /\ h.links = m[k] /\ (h.refs = 0 => v[k] = 0)
      BY <2>2, <3>6, <3>8
    <3> QED BY <2>4, <3>2, <3>8, <3>10, <3>11, <3>12
  <2> QED BY <2>3, <2>4
<1>4. f \in ClassTabs
  <2>1. f = [k \in ClassNames |-> f[k]]
    BY <1>2 DEF expire_class
  <2> QED BY <1>3, <2>1 DEF ClassTabs
<1>5. Default \in ClassNames
  BY ConfAssumption
<1>6. ClassesOK(f, m, v)
  BY <1>3, <1>4 DEF ClassesOK
<1> QED BY <1>2, <1>3, <1>5, <1>6

----------------------------------------------------------------------------
(* One entry of a table changes.                                           *)

\* t is s but for the entry of c, which is x.
PutAt(t, s, c, x) == t = [s EXCEPT ![c] = x]

LEMMA ConnSwing ==
  ASSUME NEW cn \in ConnTabs, NEW c \in Links, NEW x \in ConnRecs, NEW cn2, PutAt(cn2, cn, c, x)
  PROVE  /\ cn2 \in ConnTabs /\ cn2[c] = x /\ \A d \in Links : d # c => cn2[d] = cn[d]
         /\ \A k : Cardinality(ClassUsers(cn2, k)) = Cardinality(ClassUsers(cn, k))
                     + (IF x.class = k THEN 1 ELSE 0) - (IF cn[c].class = k THEN 1 ELSE 0)
         /\ \A a : Cardinality(AllowUsers(cn2, a)) = Cardinality(AllowUsers(cn, a))
                     + (IF x.allow = a THEN 1 ELSE 0) - (IF cn[c].allow = a THEN 1 ELSE 0)
         /\ \A o : Cardinality(OperUsers(cn2, o)) = Cardinality(OperUsers(cn, o))
                     + (IF x.oper = o THEN 1 ELSE 0) - (IF cn[c].oper = o THEN 1 ELSE 0)
<1>1. cn2 \in ConnTabs /\ cn2[c] = x /\ \A d \in Links : d # c => cn2[d] = cn[d]
  BY DEF PutAt, ConnTabs
<1>2. ASSUME NEW k
      PROVE  Cardinality(ClassUsers(cn2, k)) = Cardinality(ClassUsers(cn, k))
                     + (IF x.class = k THEN 1 ELSE 0) - (IF cn[c].class = k THEN 1 ELSE 0)
  <2>1. PICK A, B : A = ClassUsers(cn, k) /\ B = ClassUsers(cn2, k)
    OBVIOUS
  <2>2. IsFiniteSet(A) /\ IsFiniteSet(B)
    BY <2>1, UsersFinite
  <2>3. A \ {c} = B \ {c} /\ (c \in A <=> cn[c].class = k) /\ (c \in B <=> x.class = k)
    BY <1>1, <2>1 DEF ClassUsers
  <2>4. Cardinality(B) = Cardinality(A) + (IF c \in B THEN 1 ELSE 0) - (IF c \in A THEN 1 ELSE 0)
    BY <2>2, <2>3, Swing
  <2> QED BY <2>1, <2>3, <2>4
<1>3. ASSUME NEW k
      PROVE  Cardinality(AllowUsers(cn2, k)) = Cardinality(AllowUsers(cn, k))
                     + (IF x.allow = k THEN 1 ELSE 0) - (IF cn[c].allow = k THEN 1 ELSE 0)
  <2>1. PICK A, B : A = AllowUsers(cn, k) /\ B = AllowUsers(cn2, k)
    OBVIOUS
  <2>2. IsFiniteSet(A) /\ IsFiniteSet(B)
    BY <2>1, UsersFinite
  <2>3. A \ {c} = B \ {c} /\ (c \in A <=> cn[c].allow = k) /\ (c \in B <=> x.allow = k)
    BY <1>1, <2>1 DEF AllowUsers
  <2>4. Cardinality(B) = Cardinality(A) + (IF c \in B THEN 1 ELSE 0) - (IF c \in A THEN 1 ELSE 0)
    BY <2>2, <2>3, Swing
  <2> QED BY <2>1, <2>3, <2>4
<1>4. ASSUME NEW k
      PROVE  Cardinality(OperUsers(cn2, k)) = Cardinality(OperUsers(cn, k))
                     + (IF x.oper = k THEN 1 ELSE 0) - (IF cn[c].oper = k THEN 1 ELSE 0)
  <2>1. PICK A, B : A = OperUsers(cn, k) /\ B = OperUsers(cn2, k)
    OBVIOUS
  <2>2. IsFiniteSet(A) /\ IsFiniteSet(B)
    BY <2>1, UsersFinite
  <2>3. A \ {c} = B \ {c} /\ (c \in A <=> cn[c].oper = k) /\ (c \in B <=> x.oper = k)
    BY <1>1, <2>1 DEF OperUsers
  <2>4. Cardinality(B) = Cardinality(A) + (IF c \in B THEN 1 ELSE 0) - (IF c \in A THEN 1 ELSE 0)
    BY <2>2, <2>3, Swing
  <2> QED BY <2>1, <2>3, <2>4
<1> QED BY <1>1, <1>2, <1>3, <1>4

\* The class a block of a table refers to.
RefOf(y) == IF y = None THEN None ELSE y.class

LEMMA ConnectSwing ==
  ASSUME NEW ct \in ConnectTabs, NEW b \in Connects, NEW y \in ConnectRecs \cup {None}, NEW ct2, PutAt(ct2, ct, b, y)
  PROVE  /\ ct2 \in ConnectTabs /\ ct2[b] = y /\ \A d \in Connects : d # b => ct2[d] = ct[d]
         /\ \A k \in ClassNames : Cardinality(ConnectRefs(ct2, k)) = Cardinality(ConnectRefs(ct, k))
              + (IF RefOf(y) = k THEN 1 ELSE 0) - (IF RefOf(ct[b]) = k THEN 1 ELSE 0)
<1>1. ct2 \in ConnectTabs /\ ct2[b] = y /\ \A d \in Connects : d # b => ct2[d] = ct[d]
  BY DEF PutAt, ConnectTabs
<1>2. ASSUME NEW k \in ClassNames
      PROVE  Cardinality(ConnectRefs(ct2, k)) = Cardinality(ConnectRefs(ct, k))
               + (IF RefOf(y) = k THEN 1 ELSE 0) - (IF RefOf(ct[b]) = k THEN 1 ELSE 0)
  <2>1. PICK A, B : A = ConnectRefs(ct, k) /\ B = ConnectRefs(ct2, k)
    OBVIOUS
  <2>2. IsFiniteSet(A) /\ IsFiniteSet(B)
    BY <2>1, RefsFinite
  <2>3. k # None
    BY ConfAssumption
  <2>4. A \ {b} = B \ {b} /\ (b \in A <=> RefOf(ct[b]) = k) /\ (b \in B <=> RefOf(y) = k)
    BY <1>1, <2>1, <2>3 DEF ConnectRefs, RefOf
  <2>5. Cardinality(B) = Cardinality(A) + (IF b \in B THEN 1 ELSE 0) - (IF b \in A THEN 1 ELSE 0)
    BY <2>2, <2>4, Swing
  <2> QED BY <2>1, <2>4, <2>5
<1> QED BY <1>1, <1>2

LEMMA OperSwing ==
  ASSUME NEW op \in OperTabs, NEW b \in Opers, NEW y \in OperRecs \cup {None}, NEW op2, PutAt(op2, op, b, y)
  PROVE  /\ op2 \in OperTabs /\ op2[b] = y /\ \A d \in Opers : d # b => op2[d] = op[d]
         /\ \A k \in ClassNames : Cardinality(OperRefs(op2, k)) = Cardinality(OperRefs(op, k))
              + (IF RefOf(y) = k THEN 1 ELSE 0) - (IF RefOf(op[b]) = k THEN 1 ELSE 0)
<1>1. op2 \in OperTabs /\ op2[b] = y /\ \A d \in Opers : d # b => op2[d] = op[d]
  BY DEF PutAt, OperTabs
<1>2. ASSUME NEW k \in ClassNames
      PROVE  Cardinality(OperRefs(op2, k)) = Cardinality(OperRefs(op, k))
               + (IF RefOf(y) = k THEN 1 ELSE 0) - (IF RefOf(op[b]) = k THEN 1 ELSE 0)
  <2>1. PICK A, B : A = OperRefs(op, k) /\ B = OperRefs(op2, k)
    OBVIOUS
  <2>2. IsFiniteSet(A) /\ IsFiniteSet(B)
    BY <2>1, RefsFinite
  <2>3. k # None
    BY ConfAssumption
  <2>4. A \ {b} = B \ {b} /\ (b \in A <=> RefOf(op[b]) = k) /\ (b \in B <=> RefOf(y) = k)
    BY <1>1, <2>1, <2>3 DEF OperRefs, RefOf
  <2>5. Cardinality(B) = Cardinality(A) + (IF b \in B THEN 1 ELSE 0) - (IF b \in A THEN 1 ELSE 0)
    BY <2>2, <2>4, Swing
  <2> QED BY <2>1, <2>4, <2>5
<1> QED BY <1>1, <1>2

LEMMA AllowSwing ==
  ASSUME NEW al \in AllowTabs, NEW b \in AllowBlocks, NEW y \in AllowRecs \cup {None}, NEW al2, PutAt(al2, al, b, y)
  PROVE  /\ al2 \in AllowTabs /\ al2[b] = y /\ \A d \in AllowBlocks : d # b => al2[d] = al[d]
         /\ \A k \in ClassNames : Cardinality(AllowRefs(al2, k)) = Cardinality(AllowRefs(al, k))
              + (IF y # None /\ b[2] = k THEN 1 ELSE 0) - (IF al[b] # None /\ b[2] = k THEN 1 ELSE 0)
<1>1. al2 \in AllowTabs /\ al2[b] = y /\ \A d \in AllowBlocks : d # b => al2[d] = al[d]
  BY DEF PutAt, AllowTabs
<1>2. ASSUME NEW k \in ClassNames
      PROVE  Cardinality(AllowRefs(al2, k)) = Cardinality(AllowRefs(al, k))
              + (IF y # None /\ b[2] = k THEN 1 ELSE 0) - (IF al[b] # None /\ b[2] = k THEN 1 ELSE 0)
  <2>1. PICK A, B : A = AllowRefs(al, k) /\ B = AllowRefs(al2, k)
    OBVIOUS
  <2>2. IsFiniteSet(A) /\ IsFiniteSet(B)
    BY <2>1, RefsFinite
  <2>4. A \ {b} = B \ {b} /\ (b \in A <=> al[b] # None /\ b[2] = k) /\ (b \in B <=> y # None /\ b[2] = k)
    BY <1>1, <2>1 DEF AllowRefs
  <2>5. Cardinality(B) = Cardinality(A) + (IF b \in B THEN 1 ELSE 0) - (IF b \in A THEN 1 ELSE 0)
    BY <2>2, <2>4, Swing
  <2> QED BY <2>1, <2>4, <2>5
<1> QED BY <1>1, <1>2

----------------------------------------------------------------------------
(* One connection changes.                                                 *)

LEMMA UsersSame ==
  ASSUME NEW cn \in ConnTabs, NEW c \in Links, NEW x \in ConnRecs, NEW cn2, PutAt(cn2, cn, c, x)
  PROVE  /\ x.class = cn[c].class => LinksOf(cn2) = LinksOf(cn) /\ \A k : ClassUsers(cn2, k) = ClassUsers(cn, k)
         /\ x.allow = cn[c].allow => \A a : AllowUsers(cn2, a) = AllowUsers(cn, a)
         /\ x.oper = cn[c].oper => \A o : OperUsers(cn2, o) = OperUsers(cn, o)
         /\ x.st \notin {"nego", "server"} => \A b : Claimants(cn2, b) = Claimants(cn, b) \ {c}
         /\ x.st \in {"nego", "server"} => /\ \A b : b # x.aconn => Claimants(cn2, b) = Claimants(cn, b) \ {c}
                                           /\ Claimants(cn2, x.aconn) = Claimants(cn, x.aconn) \cup {c}
<1>1. cn2[c] = x /\ \A d \in Links : d # c => cn2[d] = cn[d]
  BY ConnSwing
<1>2. ASSUME x.class = cn[c].class, NEW k PROVE ClassUsers(cn2, k) = ClassUsers(cn, k)
  BY <1>1, <1>2 DEF ClassUsers
<1>3. x.class = cn[c].class => LinksOf(cn2) = LinksOf(cn)
  BY <1>2 DEF LinksOf
<1>4. ASSUME x.allow = cn[c].allow, NEW k PROVE AllowUsers(cn2, k) = AllowUsers(cn, k)
  BY <1>1, <1>4 DEF AllowUsers
<1>5. ASSUME x.oper = cn[c].oper, NEW k PROVE OperUsers(cn2, k) = OperUsers(cn, k)
  BY <1>1, <1>5 DEF OperUsers
<1>6. ASSUME x.st \notin {"nego", "server"}, NEW b PROVE Claimants(cn2, b) = Claimants(cn, b) \ {c}
  BY <1>1, <1>6 DEF Claimants
<1>7. ASSUME x.st \in {"nego", "server"}, NEW b, b # x.aconn PROVE Claimants(cn2, b) = Claimants(cn, b) \ {c}
  BY <1>1, <1>7 DEF Claimants
<1>8. ASSUME x.st \in {"nego", "server"} PROVE Claimants(cn2, x.aconn) = Claimants(cn, x.aconn) \cup {c}
  BY <1>1, <1>8 DEF Claimants
<1> QED BY <1>2, <1>3, <1>4, <1>5, <1>6, <1>7, <1>8

\* The same references in two sets of tables.
SameRefs(ct, al, op, ct2, al2, op2) ==
  \A k \in ClassNames : /\ Cardinality(ConnectRefs(ct2, k)) = Cardinality(ConnectRefs(ct, k))
                        /\ Cardinality(AllowRefs(al2, k)) = Cardinality(AllowRefs(al, k))
                        /\ Cardinality(OperRefs(op2, k)) = Cardinality(OperRefs(op, k))

\* set_effective_class when connection c goes to class x.class, which exists.
LEMMA EffectiveOK ==
  ASSUME NEW cn \in ConnTabs, NEW c \in Links, NEW x \in ConnRecs, NEW cn2, PutAt(cn2, cn, c, x),
         NEW cl, NEW ct, NEW al, NEW op, ClassPart(cl, cn, ct, al, op), cl[x.class] # None,
         NEW ct2, NEW al2, NEW op2, SameRefs(ct, al, op, ct2, al2, op2)
  PROVE  ClassPart(set_effective_class(cl, cn[c].class, x.class), cn2, ct2, al2, op2)
<1>1. PICK n, u, m, v : /\ n = LinksOf(cn) /\ u = RefsOf(cn, ct, al, op)
                        /\ m = LinksOf(cn2) /\ v = RefsOf(cn2, ct2, al2, op2)
  OBVIOUS
<1>2. n \in ClassNats /\ u \in ClassNats /\ m \in ClassNats /\ v \in ClassNats /\ \A k \in ClassNames : m[k] <= v[k]
  BY <1>1, CountsTyped
<1>3. PICK d : d = [k \in ClassNames |-> One(k = x.class) - One(k = cn[c].class)]
  OBVIOUS
<1>4. ASSUME NEW k \in ClassNames
      PROVE  /\ m[k] <= v[k] /\ d[k] \in Int /\ d[k] = m[k] - n[k] /\ d[k] >= v[k] - u[k]
             /\ cl[k] = None => v[k] <= u[k]
  <2>1. d[k] = (IF x.class = k THEN 1 ELSE 0) - (IF cn[c].class = k THEN 1 ELSE 0)
    BY <1>3 DEF One
  <2>2. PICK p, q, g, h, i, j, a, b :
           /\ p = Cardinality(ClassUsers(cn, k)) /\ q = Cardinality(ClassUsers(cn2, k))
           /\ g = Cardinality(ConnectRefs(ct, k)) /\ h = Cardinality(ConnectRefs(ct2, k))
           /\ i = Cardinality(AllowRefs(al, k)) /\ j = Cardinality(AllowRefs(al2, k))
           /\ a = Cardinality(OperRefs(op, k)) /\ b = Cardinality(OperRefs(op2, k))
    OBVIOUS
  <2>3. p \in Nat /\ q \in Nat /\ g \in Nat /\ h \in Nat /\ i \in Nat /\ j \in Nat /\ a \in Nat /\ b \in Nat
    BY <2>2, UsersFinite, RefsFinite
  <2>4. g = h /\ i = j /\ a = b
    BY <2>2 DEF SameRefs
  <2>5. q = p + (IF x.class = k THEN 1 ELSE 0) - (IF cn[c].class = k THEN 1 ELSE 0)
    BY <2>2, ConnSwing
  <2>6. n[k] = p /\ m[k] = q /\ u[k] = p + g + i + a /\ v[k] = q + h + j + b
    BY <1>1, <2>2 DEF LinksOf, RefsOf
  <2>7. cl[k] = None => x.class # k
    OBVIOUS
  <2> QED BY <2>1, <2>3, <2>4, <2>5, <2>6, <2>7
<1>5. Accounts(cl, n, u, m, v, d, d)
  BY <1>2, <1>4 DEF Accounts
<1>6. ClassesOK(cl, n, u) /\ cl[Default] # None /\ cl[Default].max # -1
  BY <1>1 DEF ClassPart
<1>7. ClassesOK(counted(cl, d, d), m, v) /\ counted(cl, d, d)[Default] # None /\ counted(cl, d, d)[Default].max # -1
  BY <1>5, <1>6, TalliedOK
<1>8. set_effective_class(cl, cn[c].class, x.class) = counted(cl, d, d)
  BY <1>3 DEF set_effective_class
<1> QED BY <1>1, <1>7, <1>8 DEF ClassPart

\* A connection that points to no block, before and after.
LEMMA ConfQuiet ==
  ASSUME ConfInv, NEW c \in Links, NEW x \in ConnRecs, ShapeOK(x), PutAt(conn', conn, c, x),
         {x.st, conn[c].st} \subseteq {"none", "unknown", "connecting"},
         UNCHANGED <<class, connects, allows, opers, shared>>
  PROVE  ConfInv'
<1>1. PICK cn, cn2 : cn = conn /\ cn2 = conn'
  OBVIOUS
<1>2. cn \in ConnTabs /\ PutAt(cn2, cn, c, x)
  BY <1>1 DEF ConfInv, ConfTypes
<1>3. cn2 \in ConnTabs /\ cn2[c] = x /\ \A d \in Links : d # c => cn2[d] = cn[d]
  BY <1>2, ConnSwing
<1>4. /\ ShapeOK(conn[c])
      /\ x.st \in {"none", "unknown", "connecting"} /\ cn[c].st \in {"none", "unknown", "connecting"}
  BY <1>1 DEF ConfInv
<1>5. x.class = cn[c].class /\ x.allow = cn[c].allow /\ x.oper = cn[c].oper /\ x.st \notin {"nego", "server"}
  BY <1>1, <1>4 DEF ShapeOK
<1>6. /\ LinksOf(cn2) = LinksOf(cn) /\ (\A k : ClassUsers(cn2, k) = ClassUsers(cn, k))
      /\ (\A a : AllowUsers(cn2, a) = AllowUsers(cn, a)) /\ (\A o : OperUsers(cn2, o) = OperUsers(cn, o))
      /\ \A b : Claimants(cn2, b) = Claimants(cn, b) \ {c}
  BY <1>2, <1>5, UsersSame
<1>7. \A b : c \notin Claimants(cn, b)
  BY <1>4 DEF Claimants
<1>8. \A b : Claimants(cn2, b) = Claimants(cn, b)
  BY <1>6, <1>7
<1>9. RefsOf(cn2, connects, allows, opers) = RefsOf(cn, connects, allows, opers)
  BY <1>6 DEF RefsOf
<1>10. ConfTypes' /\ \A d \in Links : ShapeOK(conn'[d])
  BY <1>1, <1>3 DEF ConfInv, ConfTypes
<1>11. ClassPart(class, cn2, connects, allows, opers)
  BY <1>1, <1>6, <1>9 DEF ConfInv, ClassPart
<1>12. AllowsOK(allows, cn2)
  BY <1>1, <1>6 DEF ConfInv, AllowsOK
<1>13. OpersOK(opers, cn2)
  BY <1>1, <1>6 DEF ConfInv, OpersOK
<1>14. ClaimsOK(connects, cn2, shared)
  BY <1>1, <1>8 DEF ConfInv, ClaimsOK
<1> QED BY <1>1, <1>10, <1>11, <1>12, <1>13, <1>14 DEF ConfInv

\* A class that something refers to exists.
LEMMA ClassThere ==
  ASSUME NEW cl, NEW cn \in ConnTabs, NEW ct \in ConnectTabs, NEW al \in AllowTabs, NEW op \in OperTabs,
         ClassPart(cl, cn, ct, al, op)
  PROVE  /\ \A c \in Links : cn[c].class # None => cl[cn[c].class] # None
         /\ \A b \in Connects : ct[b] # None => cl[ct[b].class] # None
         /\ \A a \in AllowBlocks : al[a] # None => cl[a[2]] # None
         /\ \A o \in Opers : op[o] # None => cl[op[o].class] # None
<1>1. ASSUME NEW k \in ClassNames, cl[k] = None
      PROVE  ClassUsers(cn, k) = {} /\ ConnectRefs(ct, k) = {} /\ AllowRefs(al, k) = {} /\ OperRefs(op, k) = {}
  <2>1. PICK u, v, w, x : /\ u = Cardinality(ClassUsers(cn, k)) /\ v = Cardinality(ConnectRefs(ct, k))
                          /\ w = Cardinality(AllowRefs(al, k)) /\ x = Cardinality(OperRefs(op, k))
    OBVIOUS
  <2>2. u \in Nat /\ v \in Nat /\ w \in Nat /\ x \in Nat
    BY <2>1, UsersFinite, RefsFinite
  <2>3. RefsOf(cn, ct, al, op)[k] = u + v + w + x
    BY <2>1 DEF RefsOf
  <2>4. RefsOf(cn, ct, al, op)[k] = 0
    BY <1>1 DEF ClassPart, ClassesOK
  <2>5. u = 0 /\ v = 0 /\ w = 0 /\ x = 0
    BY <2>2, <2>3, <2>4
  <2> QED BY <2>1, <2>5, UsersFinite, RefsFinite, FS_EmptySet
<1>2. ASSUME NEW c \in Links, cn[c].class # None PROVE cl[cn[c].class] # None
  <2>1. cn[c].class \in ClassNames
    BY <1>2 DEF ConnTabs, ConnRecs
  <2>2. c \in ClassUsers(cn, cn[c].class)
    BY DEF ClassUsers
  <2> QED BY <1>1, <2>1, <2>2
<1>3. ASSUME NEW b \in Connects, ct[b] # None PROVE cl[ct[b].class] # None
  <2>1. ct[b].class \in ClassNames
    BY <1>3 DEF ConnectTabs, ConnectRecs
  <2>2. b \in ConnectRefs(ct, ct[b].class)
    BY <1>3 DEF ConnectRefs
  <2> QED BY <1>1, <2>1, <2>2
<1>4. ASSUME NEW a \in AllowBlocks, al[a] # None PROVE cl[a[2]] # None
  <2>1. a[2] \in ClassNames
    BY DEF AllowBlocks
  <2>2. a \in AllowRefs(al, a[2])
    BY <1>4 DEF AllowRefs
  <2> QED BY <1>1, <2>1, <2>2
<1>5. ASSUME NEW o \in Opers, op[o] # None PROVE cl[op[o].class] # None
  <2>1. op[o].class \in ClassNames
    BY <1>5 DEF OperTabs, OperRecs
  <2>2. o \in OperRefs(op, op[o].class)
    BY <1>5 DEF OperRefs
  <2> QED BY <1>1, <2>1, <2>2
<1> QED BY <1>2, <1>3, <1>4, <1>5

\* A block that keeps its class leaves the references as they are.
LEMMA ConnectKept ==
  ASSUME NEW ct \in ConnectTabs, NEW al, NEW op, NEW b \in Connects, NEW y \in ConnectRecs, NEW t,
         PutAt(t, ct, b, y), ct[b] # None, y.class = ct[b].class
  PROVE  SameRefs(ct, al, op, t, al, op)
<1>1. t[b] = y /\ \A d \in Connects : d # b => t[d] = ct[d]
  BY ConnectSwing
<1>2. y # None
  BY ConfNull
<1>3. \A k : ConnectRefs(t, k) = ConnectRefs(ct, k)
  BY <1>1, <1>2 DEF ConnectRefs
<1> QED BY <1>3 DEF SameRefs

LEMMA AllowKept ==
  ASSUME NEW ct, NEW al \in AllowTabs, NEW op, NEW a \in AllowBlocks, NEW y \in AllowRecs, NEW t,
         PutAt(t, al, a, y), al[a] # None
  PROVE  SameRefs(ct, al, op, ct, t, op)
<1>1. t[a] = y /\ \A d \in AllowBlocks : d # a => t[d] = al[d]
  BY AllowSwing
<1>2. y # None
  BY ConfNull
<1>3. \A k : AllowRefs(t, k) = AllowRefs(al, k)
  BY <1>1, <1>2 DEF AllowRefs
<1> QED BY <1>3 DEF SameRefs

LEMMA OperKept ==
  ASSUME NEW ct, NEW al, NEW op \in OperTabs, NEW o \in Opers, NEW y \in OperRecs, NEW t,
         PutAt(t, op, o, y), op[o] # None, y.class = op[o].class
  PROVE  SameRefs(ct, al, op, ct, al, t)
<1>1. t[o] = y /\ \A d \in Opers : d # o => t[d] = op[d]
  BY OperSwing
<1>2. y # None
  BY ConfNull
<1>3. \A k : OperRefs(t, k) = OperRefs(op, k)
  BY <1>1, <1>2 DEF OperRefs
<1> QED BY <1>3 DEF SameRefs

----------------------------------------------------------------------------
(* Users.                                                                  *)

\* attach_Iline and set_effective_class.
LEMMA ConfRegister ==
  ASSUME ConfInv, NEW c \in Links, NEW a \in AllowBlocks, register_user(c, a)
  PROVE  ConfInv'
<1>1. PICK cn, cn2, al, al2 : cn = conn /\ cn2 = conn' /\ al = allows /\ al2 = allows'
  OBVIOUS
<1>2. /\ cn \in ConnTabs /\ connects \in ConnectTabs /\ al \in AllowTabs /\ opers \in OperTabs
      /\ \A d \in Links : ShapeOK(cn[d])
  BY <1>1 DEF ConfInv, ConfTypes
<1>3. PICK x : x = [Closed EXCEPT !.st = "person", !.class = a[2], !.allow = a]
  OBVIOUS
<1>4. /\ x \in ConnRecs /\ x.st = "person" /\ x.class = a[2] /\ x.allow = a /\ x.oper = None
      /\ a[2] \in ClassNames /\ ShapeOK(x)
  BY <1>3 DEF ConnRecs, Closed, AllowBlocks, ShapeOK
<1>5. PICK y : y = [al[a] EXCEPT !.clients = al[a].clients + 1]
  OBVIOUS
<1>6. al[a] # None /\ al[a].legal # -1 /\ cn[c].st = "unknown"
  BY <1>1 DEF register_user
<1>7. al[a] \in AllowRecs
  BY <1>2, <1>6 DEF AllowTabs
<1>8. y \in AllowRecs /\ y.clients = al[a].clients + 1 /\ y.legal = al[a].legal /\ y # None
  BY <1>5, <1>7, ConfNull DEF AllowRecs
<1>9. PutAt(cn2, cn, c, x)
  BY <1>1, <1>3 DEF PutAt, register_user
<1>10. PutAt(al2, al, a, y)
  BY <1>1, <1>2, <1>5 DEF PutAt, register_user, AllowTabs
<1>11. cn[c].class = None /\ cn[c].allow = None /\ cn[c].oper = None
  BY <1>2, <1>6 DEF ShapeOK
<1>12. cn2 \in ConnTabs /\ cn2[c] = x /\ \A d \in Links : d # c => cn2[d] = cn[d]
  BY <1>2, <1>4, <1>9, ConnSwing
<1>13. al2 \in AllowTabs /\ al2[a] = y /\ \A d \in AllowBlocks : d # a => al2[d] = al[d]
  BY <1>2, <1>8, <1>10, AllowSwing
<1>14. ClassPart(class, cn, connects, al, opers)
  BY <1>1 DEF ConfInv
<1>15. ClassPart(class', cn2, connects, al2, opers)
  <2>1. class[x.class] # None
    BY <1>2, <1>4, <1>6, <1>14, ClassThere
  <2>2. SameRefs(connects, al, opers, connects, al2, opers)
    BY <1>2, <1>6, <1>8, <1>10, AllowKept
  <2>3. class' = set_effective_class(class, cn[c].class, x.class)
    BY <1>4, <1>11 DEF register_user
  <2>4. ClassPart(set_effective_class(class, cn[c].class, x.class), cn2, connects, al2, opers)
    BY <1>2, <1>4, <1>9, <1>14, <2>1, <2>2, EffectiveOK
  <2> QED BY <2>3, <2>4
<1>16. AllowsOK(al2, cn2)
  <2>1. ASSUME NEW d \in AllowBlocks
        PROVE  /\ al2[d] = None => AllowUsers(cn2, d) = {}
               /\ al2[d] # None => /\ al2[d].clients = Cardinality(AllowUsers(cn2, d))
                                   /\ al2[d].legal = -1 => AllowUsers(cn2, d) # {}
    <3>1. /\ al[d] = None => AllowUsers(cn, d) = {}
          /\ al[d] # None => /\ al[d].clients = Cardinality(AllowUsers(cn, d))
                             /\ al[d].legal = -1 => AllowUsers(cn, d) # {}
      BY <1>1 DEF ConfInv, AllowsOK
    <3>2. CASE d = a
      <4>1. Cardinality(AllowUsers(cn2, a)) = Cardinality(AllowUsers(cn, a))
               + (IF x.allow = a THEN 1 ELSE 0) - (IF cn[c].allow = a THEN 1 ELSE 0)
        BY <1>2, <1>4, <1>9, ConnSwing
      <4>2. a # None /\ Cardinality(AllowUsers(cn, a)) \in Nat
        BY ConfNull, UsersFinite
      <4>3. Cardinality(AllowUsers(cn2, a)) = Cardinality(AllowUsers(cn, a)) + 1
        BY <1>4, <1>11, <4>1, <4>2
      <4> QED BY <1>6, <1>8, <1>13, <3>1, <3>2, <4>3
    <3>3. CASE d # a
      <4>1. AllowUsers(cn2, d) = AllowUsers(cn, d)
        BY <1>4, <1>11, <1>12, <3>3, ConfNull DEF AllowUsers
      <4> QED BY <1>13, <3>1, <3>3, <4>1
    <3> QED BY <3>2, <3>3
  <2> QED BY <2>1 DEF AllowsOK
<1>17. OpersOK(opers, cn2)
  <2>1. \A o : OperUsers(cn2, o) = OperUsers(cn, o)
    BY <1>2, <1>4, <1>9, <1>11, UsersSame
  <2> QED BY <1>1, <2>1 DEF ConfInv, OpersOK
<1>18. ClaimsOK(connects, cn2, shared)
  <2>1. \A b : Claimants(cn2, b) = Claimants(cn, b) \ {c}
    BY <1>2, <1>4, <1>9, UsersSame
  <2>2. \A b : c \notin Claimants(cn, b)
    BY <1>6 DEF Claimants
  <2> QED BY <1>1, <2>1, <2>2 DEF ConfInv, ClaimsOK
<1>19. UNCHANGED <<connects, opers, shared>>
  BY DEF register_user
<1>20. ConfTypes' /\ \A d \in Links : ShapeOK(conn'[d])
  BY <1>1, <1>2, <1>4, <1>12, <1>13, <1>19 DEF ConfInv, ConfTypes
<1> QED BY <1>1, <1>15, <1>16, <1>17, <1>18, <1>19, <1>20 DEF ConfInv

\* A user whose oper block and class change.
LEMMA ConfOpers ==
  ASSUME ConfInv, NEW c \in Links, conn[c].st = "person", NEW x \in ConnRecs, PutAt(conn', conn, c, x),
         x.st = "person" /\ x.allow = conn[c].allow /\ x.class \in ClassNames,
         NEW o \in Opers, opers[o] # None, NEW y \in OperRecs, PutAt(opers', opers, o, y),
         y.class = opers[o].class, class[x.class] # None,
         \/ x.oper = o /\ conn[c].oper = None /\ y.opers = opers[o].opers + 1
         \/ x.oper = None /\ conn[c].oper = o /\ y.opers = opers[o].opers - 1,
         class' = set_effective_class(class, conn[c].class, x.class),
         UNCHANGED <<connects, allows, shared>>
  PROVE  ConfInv'
<1>1. PICK cn, cn2, op, op2 : cn = conn /\ cn2 = conn' /\ op = opers /\ op2 = opers'
  OBVIOUS
<1>2. /\ cn \in ConnTabs /\ connects \in ConnectTabs /\ allows \in AllowTabs /\ op \in OperTabs
      /\ \A d \in Links : ShapeOK(cn[d])
  BY <1>1 DEF ConfInv, ConfTypes
<1>3. PutAt(cn2, cn, c, x) /\ PutAt(op2, op, o, y)
  BY <1>1
<1>4. x.allow \in AllowBlocks /\ ShapeOK(x)
  BY <1>1, <1>2 DEF ShapeOK
<1>5. cn2 \in ConnTabs /\ cn2[c] = x /\ \A d \in Links : d # c => cn2[d] = cn[d]
  BY <1>2, <1>3, ConnSwing
<1>6. op2 \in OperTabs /\ op2[o] = y /\ \A d \in Opers : d # o => op2[d] = op[d]
  BY <1>2, <1>3, OperSwing
<1>7. ClassPart(class', cn2, connects, allows, op2)
  <2>1. SameRefs(connects, allows, op, connects, allows, op2)
    BY <1>1, <1>2, <1>3, OperKept
  <2>2. ClassPart(class, cn, connects, allows, op)
    BY <1>1 DEF ConfInv
  <2>3. ClassPart(set_effective_class(class, cn[c].class, x.class), cn2, connects, allows, op2)
    BY <1>2, <1>3, <2>1, <2>2, EffectiveOK
  <2> QED BY <1>1, <2>3
<1>8. OpersOK(op2, cn2)
  <2>1. ASSUME NEW d \in Opers
        PROVE  /\ op2[d] = None => OperUsers(cn2, d) = {}
               /\ op2[d] # None => op2[d].opers = Cardinality(OperUsers(cn2, d))
    <3>1. /\ op[d] = None => OperUsers(cn, d) = {}
          /\ op[d] # None => op[d].opers = Cardinality(OperUsers(cn, d))
      BY <1>1 DEF ConfInv, OpersOK
    <3>2. CASE d = o
      <4>1. Cardinality(OperUsers(cn2, o)) = Cardinality(OperUsers(cn, o))
               + (IF x.oper = o THEN 1 ELSE 0) - (IF cn[c].oper = o THEN 1 ELSE 0)
        BY <1>2, <1>3, ConnSwing
      <4>2. o # None /\ Cardinality(OperUsers(cn, o)) \in Nat /\ y # None
        BY ConfAssumption, ConfNull, UsersFinite
      <4>3. op[o].opers = Cardinality(OperUsers(cn, o))
        BY <1>1, <3>1, <3>2
      <4>4. y.opers = Cardinality(OperUsers(cn2, o))
        BY <1>1, <4>1, <4>2, <4>3
      <4> QED BY <1>6, <3>2, <4>2, <4>4
    <3>3. CASE d # o
      <4>1. d # None
        BY ConfAssumption
      <4>2. OperUsers(cn2, d) = OperUsers(cn, d)
        BY <1>1, <1>5, <3>3, <4>1 DEF OperUsers
      <4> QED BY <1>6, <3>1, <3>3, <4>2
    <3> QED BY <3>2, <3>3
  <2> QED BY <2>1 DEF OpersOK
<1>9. AllowsOK(allows, cn2)
  <2>1. \A a : AllowUsers(cn2, a) = AllowUsers(cn, a)
    BY <1>1, <1>2, <1>3, UsersSame
  <2> QED BY <1>1, <2>1 DEF ConfInv, AllowsOK
<1>10. ClaimsOK(connects, cn2, shared)
  <2>1. \A b : Claimants(cn2, b) = Claimants(cn, b) \ {c}
    BY <1>2, <1>3, UsersSame
  <2>2. \A b : c \notin Claimants(cn, b)
    BY <1>1 DEF Claimants
  <2> QED BY <1>1, <2>1, <2>2 DEF ConfInv, ClaimsOK
<1>11. ConfTypes' /\ \A d \in Links : ShapeOK(conn'[d])
  BY <1>1, <1>2, <1>4, <1>5, <1>6 DEF ConfInv, ConfTypes
<1> QED BY <1>1, <1>7, <1>8, <1>9, <1>10, <1>11 DEF ConfInv

LEMMA ConfOper ==
  ASSUME ConfInv, NEW c \in Links, NEW o \in Opers, m_oper(c, o)
  PROVE  ConfInv'
<1>1. /\ conn \in ConnTabs /\ opers \in OperTabs /\ connects \in ConnectTabs /\ allows \in AllowTabs
      /\ conn[c].st = "person" /\ conn[c].oper = None /\ opers[o] # None
  BY DEF ConfInv, ConfTypes, m_oper
<1>2. conn[c] \in ConnRecs /\ opers[o] \in OperRecs
  BY <1>1 DEF ConnTabs, OperTabs
<1>3. PICK x : x = [conn[c] EXCEPT !.oper = o, !.class = opers[o].class]
  OBVIOUS
<1>4. /\ x \in ConnRecs /\ x.st = "person" /\ x.allow = conn[c].allow /\ x.oper = o
      /\ x.class = opers[o].class /\ x.class \in ClassNames
  <2>1. PICK g : g = [conn[c] EXCEPT !.oper = o]
    OBVIOUS
  <2>2. g \in ConnRecs /\ g.st = "person" /\ g.allow = conn[c].allow /\ g.oper = o
    BY <1>1, <1>2, <2>1 DEF ConnRecs
  <2>3. x = [g EXCEPT !.class = opers[o].class]
    BY <1>2, <1>3, <2>1 DEF ConnRecs
  <2>4. opers[o].class \in ClassNames
    BY <1>2 DEF OperRecs
  <2> QED BY <2>2, <2>3, <2>4 DEF ConnRecs
<1>5. PICK y : y = [opers[o] EXCEPT !.opers = opers[o].opers + 1]
  OBVIOUS
<1>6. y \in OperRecs /\ y.class = opers[o].class /\ y.opers = opers[o].opers + 1
  BY <1>2, <1>5 DEF OperRecs
<1>7. PutAt(conn', conn, c, x)
  BY <1>3 DEF PutAt, m_oper
<1>8. PutAt(opers', opers, o, y)
  BY <1>1, <1>5 DEF PutAt, m_oper, OperTabs
<1>9. class' = set_effective_class(class, conn[c].class, x.class) /\ UNCHANGED <<connects, allows, shared>>
  BY <1>4 DEF m_oper
<1>10. class[x.class] # None
  <2>1. ClassPart(class, conn, connects, allows, opers)
    BY DEF ConfInv
  <2> QED BY <1>1, <1>4, <2>1, ClassThere
<1> QED BY <1>1, <1>4, <1>6, <1>7, <1>8, <1>9, <1>10, ConfOpers

LEMMA ConfUmode ==
  ASSUME ConfInv, NEW c \in Links, m_umode(c)
  PROVE  ConfInv'
<1>1. /\ conn \in ConnTabs /\ opers \in OperTabs /\ connects \in ConnectTabs /\ allows \in AllowTabs
      /\ ShapeOK(conn[c]) /\ conn[c].oper # None
  BY DEF ConfInv, ConfTypes, m_umode
<1>2. conn[c] \in ConnRecs
  BY <1>1 DEF ConnTabs
<1>3. PICK o \in Opers : o = conn[c].oper
  BY <1>1, <1>2 DEF ConnRecs
<1>4. conn[c].st = "person" /\ conn[c].allow \in AllowBlocks
  BY <1>1, <1>2 DEF ConnRecs, ShapeOK
<1>5. PICK a \in AllowBlocks : a = conn[c].allow
  BY <1>4
<1>6. a[2] \in ClassNames /\ allows[a] # None /\ opers[o] # None /\ opers[o].opers = Cardinality(OperUsers(conn, o))
  <2>1. c \in AllowUsers(conn, a) /\ c \in OperUsers(conn, o)
    BY <1>3, <1>5 DEF AllowUsers, OperUsers
  <2>2. allows[a] # None /\ opers[o] # None /\ opers[o].opers = Cardinality(OperUsers(conn, o))
    BY <2>1 DEF ConfInv, AllowsOK, OpersOK
  <2> QED BY <2>2 DEF AllowBlocks
<1>7. opers[o] \in OperRecs
  BY <1>1, <1>6 DEF OperTabs
<1>8. PICK x : x = [conn[c] EXCEPT !.oper = None, !.class = a[2]]
  OBVIOUS
<1>9. /\ x \in ConnRecs /\ x.st = "person" /\ x.allow = conn[c].allow /\ x.oper = None
      /\ x.class = a[2] /\ x.class \in ClassNames
  <2>1. PICK g : g = [conn[c] EXCEPT !.oper = None]
    OBVIOUS
  <2>2. g \in ConnRecs /\ g.st = "person" /\ g.allow = conn[c].allow /\ g.oper = None
    BY <1>2, <1>4, <2>1 DEF ConnRecs
  <2>3. x = [g EXCEPT !.class = a[2]]
    BY <1>2, <1>8, <2>1 DEF ConnRecs
  <2> QED BY <1>6, <2>2, <2>3 DEF ConnRecs
<1>10. PICK y : y = [opers[o] EXCEPT !.opers = opers[o].opers - 1]
  OBVIOUS
<1>11. opers[o].opers \in Nat \ {0}
  <2>1. c \in OperUsers(conn, o)
    BY <1>3 DEF OperUsers
  <2> QED BY <1>6, <2>1, UsersFinite, FS_EmptySet
<1>12. y \in OperRecs /\ y.class = opers[o].class /\ y.opers = opers[o].opers - 1
  BY <1>7, <1>10, <1>11 DEF OperRecs
<1>13. PutAt(conn', conn, c, x)
  BY <1>5, <1>8 DEF PutAt, m_umode
<1>14. PutAt(opers', opers, o, y)
  BY <1>1, <1>3, <1>10 DEF PutAt, m_umode, OperTabs
<1>15. class' = set_effective_class(class, conn[c].class, x.class) /\ UNCHANGED <<connects, allows, shared>>
  BY <1>5, <1>9 DEF m_umode
<1>16. class[x.class] # None
  <2>1. ClassPart(class, conn, connects, allows, opers)
    BY DEF ConfInv
  <2> QED BY <1>1, <1>6, <1>9, <2>1, ClassThere
<1> QED BY <1>3, <1>4, <1>6, <1>9, <1>12, <1>13, <1>14, <1>15, <1>16, ConfOpers

----------------------------------------------------------------------------
(* Connections that end.                                                   *)

\* The numbers of references change by at most dr, those of links by dl.
Moves(cl, cn, ct, al, op, cn2, ct2, al2, op2, dr, dl) ==
  \A k \in ClassNames :
    /\ dr[k] \in Int /\ dl[k] \in Int
    /\ dl[k] = Cardinality(ClassUsers(cn2, k)) - Cardinality(ClassUsers(cn, k))
    /\ dr[k] >= dl[k] + (Cardinality(ConnectRefs(ct2, k)) - Cardinality(ConnectRefs(ct, k)))
                      + (Cardinality(AllowRefs(al2, k)) - Cardinality(AllowRefs(al, k)))
                      + (Cardinality(OperRefs(op2, k)) - Cardinality(OperRefs(op, k)))
    /\ cl[k] = None => dl[k] + (Cardinality(ConnectRefs(ct2, k)) - Cardinality(ConnectRefs(ct, k)))
                        + (Cardinality(AllowRefs(al2, k)) - Cardinality(AllowRefs(al, k)))
                        + (Cardinality(OperRefs(op2, k)) - Cardinality(OperRefs(op, k))) <= 0

LEMMA MovesOK ==
  ASSUME NEW cl, NEW cn, NEW ct, NEW al, NEW op, NEW cn2, NEW ct2, NEW al2, NEW op2, NEW dr, NEW dl,
         ClassPart(cl, cn, ct, al, op), Moves(cl, cn, ct, al, op, cn2, ct2, al2, op2, dr, dl)
  PROVE  ClassPart(counted(cl, dr, dl), cn2, ct2, al2, op2)
<1>1. PICK n, u, m, v : /\ n = LinksOf(cn) /\ u = RefsOf(cn, ct, al, op)
                        /\ m = LinksOf(cn2) /\ v = RefsOf(cn2, ct2, al2, op2)
  OBVIOUS
<1>2. n \in ClassNats /\ u \in ClassNats /\ m \in ClassNats /\ v \in ClassNats /\ \A k \in ClassNames : m[k] <= v[k]
  BY <1>1, CountsTyped
<1>3. ASSUME NEW k \in ClassNames
      PROVE  /\ dr[k] \in Int /\ dl[k] \in Int /\ dl[k] = m[k] - n[k] /\ dr[k] >= v[k] - u[k]
             /\ cl[k] = None => v[k] <= u[k]
  <2>1. PICK p, q, g, h, i, j, a, b :
           /\ p = Cardinality(ClassUsers(cn, k)) /\ q = Cardinality(ClassUsers(cn2, k))
           /\ g = Cardinality(ConnectRefs(ct, k)) /\ h = Cardinality(ConnectRefs(ct2, k))
           /\ i = Cardinality(AllowRefs(al, k)) /\ j = Cardinality(AllowRefs(al2, k))
           /\ a = Cardinality(OperRefs(op, k)) /\ b = Cardinality(OperRefs(op2, k))
    OBVIOUS
  <2>2. p \in Nat /\ q \in Nat /\ g \in Nat /\ h \in Nat /\ i \in Nat /\ j \in Nat /\ a \in Nat /\ b \in Nat
    BY <2>1, UsersFinite, RefsFinite
  <2>3. n[k] = p /\ m[k] = q /\ u[k] = p + g + i + a /\ v[k] = q + h + j + b
    BY <1>1, <2>1 DEF LinksOf, RefsOf
  <2>4. /\ dr[k] \in Int /\ dl[k] \in Int /\ dl[k] = q - p
        /\ dr[k] >= dl[k] + (h - g) + (j - i) + (b - a)
        /\ cl[k] = None => dl[k] + (h - g) + (j - i) + (b - a) <= 0
    BY <2>1 DEF Moves
  <2> QED BY <2>2, <2>3, <2>4
<1>4. Accounts(cl, n, u, m, v, dr, dl)
  BY <1>2, <1>3 DEF Accounts
<1>5. ClassesOK(cl, n, u) /\ cl[Default] # None /\ cl[Default].max # -1
  BY <1>1 DEF ClassPart
<1>6. /\ ClassesOK(counted(cl, dr, dl), m, v)
      /\ counted(cl, dr, dl)[Default] # None /\ counted(cl, dr, dl)[Default].max # -1
  BY <1>4, <1>5, TalliedOK
<1> QED BY <1>1, <1>6 DEF ClassPart

LEMMA ClosedIs ==
  /\ Closed \in ConnRecs /\ ShapeOK(Closed) /\ Closed.st = "none" /\ Closed.class = None
  /\ Closed.allow = None /\ Closed.oper = None /\ Closed.aconn = None
BY DEF Closed, ConnRecs, ShapeOK

\* clear_conflinks for the connect block.
LEMMA ClearConnect ==
  ASSUME ConfInv, NEW c \in Links, exit_client(c)
  PROVE  /\ connects' \in ConnectTabs
         /\ \A b \in Connects : b # conn[c].aconn \/ conn[c].st # "server" => connects'[b] = connects[b]
         /\ \A k \in ClassNames : Cardinality(ConnectRefs(connects', k)) = Cardinality(ConnectRefs(connects, k))
              - (IF GoneConnect(c) /\ k = connects[conn[c].aconn].class THEN 1 ELSE 0)
<1>1. PICK ct, ct2, x : ct = connects /\ ct2 = connects' /\ x = conn[c]
  OBVIOUS
<1>2. ct \in ConnectTabs /\ x \in ConnRecs /\ ShapeOK(x)
  BY <1>1 DEF ConfInv, ConfTypes, ConnTabs
<1>3. CASE ~ Holds(c)
  <2>1. ct2 = ct /\ ~ GoneConnect(c)
    BY <1>1, <1>3 DEF exit_client, clear_conflinks, GoneConnect
  <2>2. \A k \in ClassNames : Cardinality(ConnectRefs(ct, k)) \in Nat
    BY RefsFinite
  <2> QED BY <1>1, <1>2, <2>1, <2>2
<1>4. CASE Holds(c)
  <2>1. PICK b \in Connects : b = x.aconn /\ ct[b] # None /\ x.st = "server"
    BY <1>1, <1>2, <1>4 DEF Holds, ShapeOK
  <2>2. ct[b] \in ConnectRecs
    BY <1>2, <2>1 DEF ConnectTabs
  <2>3. PICK z : z = [ct[b] EXCEPT !.acpt = None]
    OBVIOUS
  <2>4. z \in ConnectRecs /\ z.class = ct[b].class /\ z # None
    BY <2>2, <2>3, ConfNull DEF ConnectRecs
  <2>5. PICK y : y = IF GoneConnect(c) THEN None ELSE z
    OBVIOUS
  <2>6. PutAt(ct2, ct, b, y)
    BY <1>1, <1>4, <2>1, <2>3, <2>5 DEF PutAt, exit_client, clear_conflinks
  <2>7. y \in ConnectRecs \cup {None}
    BY <2>4, <2>5
  <2>8. /\ ct2 \in ConnectTabs /\ \A d \in Connects : d # b => ct2[d] = ct[d]
        /\ \A k \in ClassNames : Cardinality(ConnectRefs(ct2, k)) = Cardinality(ConnectRefs(ct, k))
              + (IF RefOf(y) = k THEN 1 ELSE 0) - (IF RefOf(ct[b]) = k THEN 1 ELSE 0)
    BY <1>2, <2>6, <2>7, ConnectSwing
  <2>9. ASSUME NEW k \in ClassNames
        PROVE  Cardinality(ConnectRefs(ct2, k)) = Cardinality(ConnectRefs(ct, k))
              - (IF GoneConnect(c) /\ k = ct[b].class THEN 1 ELSE 0)
    <3>1. k # None /\ Cardinality(ConnectRefs(ct, k)) \in Nat
      BY ConfAssumption, RefsFinite
    <3>2. RefOf(ct[b]) = ct[b].class /\ RefOf(y) = IF GoneConnect(c) THEN None ELSE ct[b].class
      BY <2>1, <2>4, <2>5 DEF RefOf
    <3>3. Cardinality(ConnectRefs(ct2, k)) = Cardinality(ConnectRefs(ct, k))
              + (IF RefOf(y) = k THEN 1 ELSE 0) - (IF RefOf(ct[b]) = k THEN 1 ELSE 0)
      BY <2>8
    <3>4. CASE GoneConnect(c)
      BY <3>1, <3>2, <3>3, <3>4
    <3>5. CASE ~ GoneConnect(c)
      BY <3>1, <3>2, <3>3, <3>5
    <3> QED BY <3>4, <3>5
  <2> QED BY <1>1, <2>1, <2>8, <2>9
<1> QED BY <1>3, <1>4

\* clear_conflinks for the allow block, which goes with its last client.
LEMMA ClearAllow ==
  ASSUME ConfInv, NEW c \in Links, exit_client(c)
  PROVE  /\ allows' \in AllowTabs /\ AllowsOK(allows', conn')
         /\ \A k \in ClassNames : Cardinality(AllowRefs(allows', k)) = Cardinality(AllowRefs(allows, k))
              - (IF GoneAllow(c) /\ k = conn[c].allow[2] THEN 1 ELSE 0)
<1>1. PICK al, al2, x, cn, cn2 : al = allows /\ al2 = allows' /\ x = conn[c] /\ cn = conn /\ cn2 = conn'
  OBVIOUS
<1>2. al \in AllowTabs /\ x \in ConnRecs /\ ShapeOK(x) /\ cn \in ConnTabs /\ x = cn[c] /\ AllowsOK(al, cn)
  BY <1>1 DEF ConfInv, ConfTypes, ConnTabs
<1>3. PutAt(cn2, cn, c, Closed)
  BY <1>1 DEF exit_client, PutAt
<1>4. CASE x.allow = None
  <2>1. al2 = al /\ ~ GoneAllow(c)
    BY <1>1, <1>4 DEF exit_client, clear_conflinks, GoneAllow
  <2>2. \A k \in ClassNames : Cardinality(AllowRefs(al, k)) \in Nat
    BY RefsFinite
  <2>3. \A a : AllowUsers(cn2, a) = AllowUsers(cn, a)
    BY <1>2, <1>3, <1>4, ClosedIs, UsersSame
  <2>4. AllowsOK(al2, cn2)
    BY <1>2, <2>1, <2>3 DEF AllowsOK
  <2> QED BY <1>1, <1>2, <2>1, <2>2, <2>4
<1>5. CASE x.allow # None
  <2>1. PICK a \in AllowBlocks : a = x.allow
    BY <1>2, <1>5 DEF ConnRecs
  <2>2. c \in AllowUsers(cn, a)
    BY <1>2, <2>1 DEF AllowUsers
  <2>3. al[a] # None /\ al[a].clients = Cardinality(AllowUsers(cn, a)) /\ al[a] \in AllowRecs
    BY <1>2, <2>2 DEF AllowsOK, AllowTabs
  <2>4. al[a].clients \in Nat \ {0} /\ al[a].legal \in {-1, 1}
    BY <2>2, <2>3, UsersFinite, FS_EmptySet DEF AllowRecs
  <2>5. PICK z : z = [al[a] EXCEPT !.clients = al[a].clients - 1]
    OBVIOUS
  <2>6. z \in AllowRecs /\ z.legal = al[a].legal /\ z.clients = al[a].clients - 1 /\ z # None
    BY <2>3, <2>4, <2>5, ConfNull DEF AllowRecs
  <2>7. PICK y : y = IF GoneAllow(c) THEN None ELSE z
    OBVIOUS
  <2>8. PutAt(al2, al, a, y)
    BY <1>1, <1>5, <2>1, <2>5, <2>7 DEF PutAt, exit_client, clear_conflinks
  <2>9. y \in AllowRecs \cup {None}
    BY <2>6, <2>7
  <2>10. /\ al2 \in AllowTabs /\ al2[a] = y /\ \A d \in AllowBlocks : d # a => al2[d] = al[d]
         /\ \A k \in ClassNames : Cardinality(AllowRefs(al2, k)) = Cardinality(AllowRefs(al, k))
              + (IF y # None /\ a[2] = k THEN 1 ELSE 0) - (IF al[a] # None /\ a[2] = k THEN 1 ELSE 0)
    BY <1>2, <2>8, <2>9, AllowSwing
  <2>11. ASSUME NEW k \in ClassNames
         PROVE  Cardinality(AllowRefs(al2, k)) = Cardinality(AllowRefs(al, k))
              - (IF GoneAllow(c) /\ k = a[2] THEN 1 ELSE 0)
    <3>1. Cardinality(AllowRefs(al, k)) \in Nat
      BY RefsFinite
    <3>2. Cardinality(AllowRefs(al2, k)) = Cardinality(AllowRefs(al, k))
              + (IF y # None /\ a[2] = k THEN 1 ELSE 0) - (IF al[a] # None /\ a[2] = k THEN 1 ELSE 0)
      BY <2>10
    <3>3. CASE GoneAllow(c)
      BY <2>3, <2>7, <3>1, <3>2, <3>3
    <3>4. CASE ~ GoneAllow(c)
      BY <2>3, <2>6, <2>7, <3>1, <3>2, <3>4
    <3> QED BY <3>3, <3>4
  <2>12. Cardinality(AllowUsers(cn2, a)) = al[a].clients - 1
    <3>1. Cardinality(AllowUsers(cn2, a)) = Cardinality(AllowUsers(cn, a))
             + (IF Closed.allow = a THEN 1 ELSE 0) - (IF cn[c].allow = a THEN 1 ELSE 0)
      BY <1>2, <1>3, ClosedIs, ConnSwing
    <3>2. a # None
      BY ConfNull
    <3>3. Closed.allow # a /\ cn[c].allow = a
      BY <1>2, <2>1, <3>2, ClosedIs
    <3> QED BY <2>3, <2>4, <3>1, <3>3
  <2>13. \A d : d # a => (d # None => AllowUsers(cn2, d) = AllowUsers(cn, d))
    <3>1. cn2[c] = Closed /\ \A d \in Links : d # c => cn2[d] = cn[d]
      BY <1>2, <1>3, ClosedIs, ConnSwing
    <3> QED BY <1>2, <2>1, <3>1, ClosedIs DEF AllowUsers
  <2>14. GoneAllow(c) <=> al[a].legal = -1 /\ al[a].clients <= 1
    BY <1>1, <1>5, <2>1 DEF GoneAllow
  <2>15. ASSUME NEW d \in AllowBlocks
         PROVE  /\ al2[d] = None => AllowUsers(cn2, d) = {}
                /\ al2[d] # None => /\ al2[d].clients = Cardinality(AllowUsers(cn2, d))
                                    /\ al2[d].legal = -1 => AllowUsers(cn2, d) # {}
    <3>1. CASE d # a
      <4>1. AllowUsers(cn2, d) = AllowUsers(cn, d)
        BY <2>13, <3>1, ConfNull
      <4> QED BY <1>2, <2>10, <3>1, <4>1 DEF AllowsOK
    <3>2. CASE d = a /\ GoneAllow(c)
      <4>1. al[a].clients = 1
        BY <2>4, <2>14, <3>2
      <4>2. AllowUsers(cn2, a) = {}
        BY <2>12, <4>1, UsersFinite, FS_EmptySet
      <4> QED BY <2>7, <2>10, <3>2, <4>2
    <3>3. CASE d = a /\ ~ GoneAllow(c)
      <4>1. al2[d] = z
        BY <2>7, <2>10, <3>3
      <4>2. z.legal = -1 => al[a].clients - 1 # 0
        BY <2>4, <2>6, <2>14, <3>3
      <4>3. z.legal = -1 => AllowUsers(cn2, a) # {}
        BY <2>12, <4>2, FS_EmptySet
      <4> QED BY <2>6, <2>12, <3>3, <4>1, <4>3
    <3> QED BY <3>1, <3>2, <3>3
  <2>16. AllowsOK(al2, cn2)
    BY <2>15 DEF AllowsOK
  <2> QED BY <1>1, <2>1, <2>10, <2>11, <2>16
<1> QED BY <1>4, <1>5

\* clear_conflinks for the oper block.
LEMMA ClearOper ==
  ASSUME ConfInv, NEW c \in Links, exit_client(c)
  PROVE  /\ opers' \in OperTabs /\ OpersOK(opers', conn')
         /\ \A k \in ClassNames : Cardinality(OperRefs(opers', k)) = Cardinality(OperRefs(opers, k))
              - (IF GoneOper(c) /\ k = opers[conn[c].oper].class THEN 1 ELSE 0)
<1>1. PICK op, op2, x, cn, cn2 : op = opers /\ op2 = opers' /\ x = conn[c] /\ cn = conn /\ cn2 = conn'
  OBVIOUS
<1>2. op \in OperTabs /\ x \in ConnRecs /\ ShapeOK(x) /\ cn \in ConnTabs /\ x = cn[c] /\ OpersOK(op, cn)
  BY <1>1 DEF ConfInv, ConfTypes, ConnTabs
<1>3. PutAt(cn2, cn, c, Closed)
  BY <1>1 DEF exit_client, PutAt
<1>4. CASE x.oper = None
  <2>1. op2 = op /\ ~ GoneOper(c)
    BY <1>1, <1>4 DEF exit_client, clear_conflinks, GoneOper
  <2>2. \A k \in ClassNames : Cardinality(OperRefs(op, k)) \in Nat
    BY RefsFinite
  <2>3. \A a : OperUsers(cn2, a) = OperUsers(cn, a)
    BY <1>2, <1>3, <1>4, ClosedIs, UsersSame
  <2>4. OpersOK(op2, cn2)
    BY <1>2, <2>1, <2>3 DEF OpersOK
  <2> QED BY <1>1, <1>2, <2>1, <2>2, <2>4
<1>5. CASE x.oper # None
  <2>1. PICK a \in Opers : a = x.oper
    BY <1>2, <1>5 DEF ConnRecs
  <2>2. c \in OperUsers(cn, a)
    BY <1>2, <2>1 DEF OperUsers
  <2>3. op[a] # None /\ op[a].opers = Cardinality(OperUsers(cn, a)) /\ op[a] \in OperRecs
    BY <1>2, <2>2 DEF OpersOK, OperTabs
  <2>4. op[a].opers \in Nat \ {0}
    BY <2>2, <2>3, UsersFinite, FS_EmptySet
  <2>5. PICK z : z = [op[a] EXCEPT !.opers = op[a].opers - 1]
    OBVIOUS
  <2>6. z \in OperRecs /\ z.class = op[a].class /\ z.opers = op[a].opers - 1 /\ z # None
    BY <2>3, <2>4, <2>5, ConfNull DEF OperRecs
  <2>7. PICK y : y = IF GoneOper(c) THEN None ELSE z
    OBVIOUS
  <2>8. PutAt(op2, op, a, y)
    BY <1>1, <1>5, <2>1, <2>5, <2>7 DEF PutAt, exit_client, clear_conflinks
  <2>9. y \in OperRecs \cup {None}
    BY <2>6, <2>7
  <2>10. /\ op2 \in OperTabs /\ op2[a] = y /\ \A d \in Opers : d # a => op2[d] = op[d]
         /\ \A k \in ClassNames : Cardinality(OperRefs(op2, k)) = Cardinality(OperRefs(op, k))
              + (IF RefOf(y) = k THEN 1 ELSE 0) - (IF RefOf(op[a]) = k THEN 1 ELSE 0)
    BY <1>2, <2>8, <2>9, OperSwing
  <2>11. ASSUME NEW k \in ClassNames
         PROVE  Cardinality(OperRefs(op2, k)) = Cardinality(OperRefs(op, k))
              - (IF GoneOper(c) /\ k = op[a].class THEN 1 ELSE 0)
    <3>1. k # None /\ Cardinality(OperRefs(op, k)) \in Nat
      BY ConfAssumption, RefsFinite
    <3>2. RefOf(op[a]) = op[a].class /\ RefOf(y) = IF GoneOper(c) THEN None ELSE op[a].class
      BY <2>3, <2>6, <2>7 DEF RefOf
    <3>3. Cardinality(OperRefs(op2, k)) = Cardinality(OperRefs(op, k))
              + (IF RefOf(y) = k THEN 1 ELSE 0) - (IF RefOf(op[a]) = k THEN 1 ELSE 0)
      BY <2>10
    <3>4. CASE GoneOper(c)
      BY <3>1, <3>2, <3>3, <3>4
    <3>5. CASE ~ GoneOper(c)
      BY <3>1, <3>2, <3>3, <3>5
    <3> QED BY <3>4, <3>5
  <2>12. Cardinality(OperUsers(cn2, a)) = op[a].opers - 1
    <3>1. Cardinality(OperUsers(cn2, a)) = Cardinality(OperUsers(cn, a))
             + (IF Closed.oper = a THEN 1 ELSE 0) - (IF cn[c].oper = a THEN 1 ELSE 0)
      BY <1>2, <1>3, ClosedIs, ConnSwing
    <3>2. a # None
      BY ConfAssumption
    <3>3. Closed.oper # a /\ cn[c].oper = a
      BY <1>2, <2>1, <3>2, ClosedIs
    <3> QED BY <2>3, <2>4, <3>1, <3>3
  <2>13. \A d : d # a => (d # None => OperUsers(cn2, d) = OperUsers(cn, d))
    <3>1. cn2[c] = Closed /\ \A d \in Links : d # c => cn2[d] = cn[d]
      BY <1>2, <1>3, ClosedIs, ConnSwing
    <3> QED BY <1>2, <2>1, <3>1, ClosedIs DEF OperUsers
  <2>14. ASSUME NEW d \in Opers
         PROVE  /\ op2[d] = None => OperUsers(cn2, d) = {}
                /\ op2[d] # None => op2[d].opers = Cardinality(OperUsers(cn2, d))
    <3>1. CASE d # a
      <4>1. OperUsers(cn2, d) = OperUsers(cn, d)
        BY <2>13, <3>1, ConfAssumption
      <4> QED BY <1>2, <2>10, <3>1, <4>1 DEF OpersOK
    <3>2. CASE d = a /\ GoneOper(c)
      <4>1. op[a].opers <= 1
        BY <1>1, <2>1, <3>2 DEF GoneOper
      <4>2. op[a].opers = 1
        BY <2>4, <4>1
      <4>3. OperUsers(cn2, a) = {}
        BY <2>12, <4>2, UsersFinite, FS_EmptySet
      <4> QED BY <2>7, <2>10, <3>2, <4>3
    <3>3. CASE d = a /\ ~ GoneOper(c)
      BY <2>6, <2>7, <2>10, <2>12, <3>3
    <3> QED BY <3>1, <3>2, <3>3
  <2>15. OpersOK(op2, cn2)
    BY <2>14 DEF OpersOK
  <2> QED BY <1>1, <2>1, <2>10, <2>11, <2>15
<1> QED BY <1>4, <1>5

LEMMA ConfExit ==
  ASSUME ConfInv, NEW c \in Links, exit_client(c)
  PROVE  ConfInv'
<1>1. PICK cn, cn2 : cn = conn /\ cn2 = conn'
  OBVIOUS
<1>2. cn \in ConnTabs /\ ClassPart(class, cn, connects, allows, opers) /\ ClaimsOK(connects, cn, shared)
  BY <1>1 DEF ConfInv, ConfTypes
<1>3. PutAt(cn2, cn, c, Closed)
  BY <1>1 DEF exit_client, PutAt
<1>4. cn2 \in ConnTabs /\ cn2[c] = Closed /\ \A d \in Links : d # c => cn2[d] = cn[d]
  BY <1>2, <1>3, ClosedIs, ConnSwing
<1>5. PICK dr, dl : /\ dr = [k \in ClassNames |->
                               - One(k = conn[c].class)
                               - One(GoneConnect(c) /\ k = connects[conn[c].aconn].class)
                               - One(GoneAllow(c) /\ k = conn[c].allow[2])
                               - One(GoneOper(c) /\ k = opers[conn[c].oper].class)]
                    /\ dl = [k \in ClassNames |-> - One(k = conn[c].class)]
  OBVIOUS
<1>6. class' = counted(class, dr, dl) /\ shared' = shared
  BY <1>5 DEF exit_client, clear_conflinks
<1>7. Moves(class, cn, connects, allows, opers, cn2, connects', allows', opers', dr, dl)
  <2>1. ASSUME NEW k \in ClassNames
        PROVE  /\ dr[k] \in Int /\ dl[k] \in Int
               /\ dl[k] = Cardinality(ClassUsers(cn2, k)) - Cardinality(ClassUsers(cn, k))
               /\ dr[k] = dl[k] + (Cardinality(ConnectRefs(connects', k)) - Cardinality(ConnectRefs(connects, k)))
                      + (Cardinality(AllowRefs(allows', k)) - Cardinality(AllowRefs(allows, k)))
                      + (Cardinality(OperRefs(opers', k)) - Cardinality(OperRefs(opers, k)))
               /\ dr[k] <= 0
    <3>1. PICK e, f, g, h : /\ e = One(k = conn[c].class)
                            /\ f = One(GoneConnect(c) /\ k = connects[conn[c].aconn].class)
                            /\ g = One(GoneAllow(c) /\ k = conn[c].allow[2])
                            /\ h = One(GoneOper(c) /\ k = opers[conn[c].oper].class)
      OBVIOUS
    <3>2. e \in {0, 1} /\ f \in {0, 1} /\ g \in {0, 1} /\ h \in {0, 1}
      BY <3>1 DEF One
    <3>3. dr[k] = - e - f - g - h /\ dl[k] = - e
      BY <1>5, <3>1
    <3>4. Cardinality(ClassUsers(cn2, k)) = Cardinality(ClassUsers(cn, k)) - e
      <4>1. Cardinality(ClassUsers(cn2, k)) = Cardinality(ClassUsers(cn, k))
              + (IF Closed.class = k THEN 1 ELSE 0) - (IF cn[c].class = k THEN 1 ELSE 0)
        BY <1>2, <1>3, ClosedIs, ConnSwing
      <4>2. Closed.class # k /\ e = IF cn[c].class = k THEN 1 ELSE 0
        BY <1>1, <3>1, ClosedIs, ConfAssumption DEF One
      <4>3. Cardinality(ClassUsers(cn, k)) \in Nat
        BY UsersFinite
      <4> QED BY <4>1, <4>2, <4>3
    <3>5. Cardinality(ConnectRefs(connects', k)) = Cardinality(ConnectRefs(connects, k)) - f
      BY <3>1, ClearConnect DEF One
    <3>6. Cardinality(AllowRefs(allows', k)) = Cardinality(AllowRefs(allows, k)) - g
      BY <3>1, ClearAllow DEF One
    <3>7. Cardinality(OperRefs(opers', k)) = Cardinality(OperRefs(opers, k)) - h
      BY <3>1, ClearOper DEF One
    <3>8. /\ Cardinality(ClassUsers(cn, k)) \in Nat /\ Cardinality(ConnectRefs(connects, k)) \in Nat
          /\ Cardinality(AllowRefs(allows, k)) \in Nat /\ Cardinality(OperRefs(opers, k)) \in Nat
      BY UsersFinite, RefsFinite
    <3> QED BY <3>2, <3>3, <3>4, <3>5, <3>6, <3>7, <3>8
  <2> QED BY <2>1 DEF Moves
<1>8. ClassPart(class', cn2, connects', allows', opers')
  BY <1>2, <1>6, <1>7, MovesOK
<1>9. ClaimsOK(connects', cn2, shared)
  <2>1. \A b : Claimants(cn2, b) = Claimants(cn, b) \ {c}
    BY <1>2, <1>3, ClosedIs, UsersSame
  <2>2. ASSUME NEW b \in Connects \ shared, NEW d \in Claimants(cn2, b)
        PROVE  connects'[b] # None /\ connects'[b].acpt # None /\ \A e \in Claimants(cn2, b) : e = d
    <3>1. d \in Claimants(cn, b) /\ d # c
      BY <2>1, <2>2
    <3>2. connects[b] # None /\ connects[b].acpt # None /\ \A e \in Claimants(cn, b) : e = d
      BY <1>2, <3>1 DEF ClaimsOK
    <3>3. c \notin Claimants(cn, b)
      BY <3>1, <3>2
    <3>4. b # conn[c].aconn \/ conn[c].st # "server"
      BY <1>1, <3>3 DEF Claimants
    <3>5. connects'[b] = connects[b]
      BY <3>4, ClearConnect
    <3> QED BY <2>1, <3>2, <3>5
  <2> QED BY <2>2 DEF ClaimsOK
<1>10. ConfTypes'
  BY <1>1, <1>4, <1>6, ClearConnect, ClearAllow, ClearOper DEF ConfInv, ConfTypes
<1>11. \A d \in Links : ShapeOK(conn'[d])
  BY <1>1, <1>4, ClosedIs DEF ConfInv
<1> QED BY <1>1, <1>6, <1>8, <1>9, <1>10, <1>11, ClearAllow, ClearOper DEF ConfInv

----------------------------------------------------------------------------
(* Servers.                                                                *)

\* Connection c, which pointed to no block, takes block b.
LEMMA ConfTake ==
  ASSUME ConfInv, NEW c \in Links, conn[c].class = None, NEW b \in Connects, connects[b] # None,
         connects' = [connects EXCEPT ![b].acpt = c],
         NEW x \in ConnRecs, x.st \in {"nego", "server"}, x.aconn = b, ShapeOK(x), class[x.class] # None,
         PutAt(conn', conn, c, x), shared' = IF Claimed(b) THEN shared \cup {b} ELSE shared,
         class' = set_effective_class(class, None, x.class), UNCHANGED <<allows, opers>>
  PROVE  ConfInv'
<1>1. PICK cn, cn2, ct, ct2 : cn = conn /\ cn2 = conn' /\ ct = connects /\ ct2 = connects'
  OBVIOUS
<1>2. /\ cn \in ConnTabs /\ ct \in ConnectTabs /\ allows \in AllowTabs /\ opers \in OperTabs /\ shared \subseteq Connects
      /\ (\A d \in Links : ShapeOK(cn[d])) /\ ClassPart(class, cn, ct, allows, opers)
  BY <1>1 DEF ConfInv, ConfTypes
<1>3. PutAt(cn2, cn, c, x) /\ ct[b] # None /\ cn[c].class = None
  BY <1>1
<1>4. cn[c].allow = None /\ cn[c].oper = None /\ cn[c].st \notin {"nego", "server"}
  <2>1. cn[c] \in ConnRecs /\ ShapeOK(cn[c])
    BY <1>2 DEF ConnTabs
  <2> QED BY <1>3, <2>1, ConfAssumption DEF ConnRecs, ShapeOK
<1>5. PICK y : y = [ct[b] EXCEPT !.acpt = c]
  OBVIOUS
<1>6. ct[b] \in ConnectRecs
  BY <1>2, <1>3 DEF ConnectTabs
<1>7. y \in ConnectRecs /\ y.class = ct[b].class /\ y.acpt = c /\ y # None
  BY <1>5, <1>6, ConfNull DEF ConnectRecs
<1>8. PutAt(ct2, ct, b, y)
  BY <1>1, <1>2, <1>5 DEF PutAt, ConnectTabs
<1>9. cn2 \in ConnTabs /\ cn2[c] = x /\ \A d \in Links : d # c => cn2[d] = cn[d]
  BY <1>2, <1>3, ConnSwing
<1>10. ct2 \in ConnectTabs /\ ct2[b] = y /\ \A d \in Connects : d # b => ct2[d] = ct[d]
  BY <1>2, <1>7, <1>8, ConnectSwing
<1>11. ClassPart(class', cn2, ct2, allows, opers)
  <2>1. SameRefs(ct, allows, opers, ct2, allows, opers)
    BY <1>2, <1>3, <1>7, <1>8, ConnectKept
  <2>2. ClassPart(set_effective_class(class, cn[c].class, x.class), cn2, ct2, allows, opers)
    BY <1>2, <1>3, <2>1, EffectiveOK
  <2> QED BY <1>3, <2>2
<1>12. x.allow = None /\ x.oper = None
  BY DEF ShapeOK
<1>13. (\A a : AllowUsers(cn2, a) = AllowUsers(cn, a)) /\ (\A o : OperUsers(cn2, o) = OperUsers(cn, o))
  BY <1>2, <1>3, <1>4, <1>12, UsersSame
<1>14. AllowsOK(allows, cn2) /\ OpersOK(opers, cn2)
  BY <1>1, <1>13 DEF ConfInv, AllowsOK, OpersOK
<1>15. ClaimsOK(ct2, cn2, shared')
  <2>1. /\ \A e : e # b => Claimants(cn2, e) = Claimants(cn, e) \ {c}
        /\ Claimants(cn2, b) = Claimants(cn, b) \cup {c}
    BY <1>2, <1>3, UsersSame
  <2>2. Claimed(b) <=> Claimants(cn, b) # {}
    BY <1>1 DEF Claimed, Claimants
  <2>3. ASSUME NEW e \in Connects \ shared', NEW d \in Claimants(cn2, e)
        PROVE  ct2[e] # None /\ ct2[e].acpt # None /\ \A g \in Claimants(cn2, e) : g = d
    <3>1. CASE e = b
      <4>1. Claimants(cn, b) = {}
        BY <2>2, <2>3, <3>1
      <4>2. c # None
        BY ConfAssumption
      <4> QED BY <1>7, <1>10, <2>1, <3>1, <4>1, <4>2
    <3>2. CASE e # b
      <4>1. e \in Connects \ shared /\ d \in Claimants(cn, e)
        BY <2>1, <2>3, <3>2
      <4>2. ct[e] # None /\ ct[e].acpt # None /\ \A g \in Claimants(cn, e) : g = d
        BY <1>1, <4>1 DEF ConfInv, ClaimsOK
      <4> QED BY <1>10, <2>1, <3>2, <4>2
    <3> QED BY <3>1, <3>2
  <2> QED BY <2>3 DEF ClaimsOK
<1>16. ConfTypes' /\ \A d \in Links : ShapeOK(conn'[d])
  BY <1>1, <1>2, <1>9, <1>10 DEF ConfTypes
<1> QED BY <1>1, <1>11, <1>14, <1>15, <1>16 DEF ConfInv

LEMMA ConfServer ==
  ASSUME ConfInv, NEW c \in Links, NEW b \in Connects, m_server(c, b)
  PROVE  ConfInv'
<1>1. /\ conn \in ConnTabs /\ connects \in ConnectTabs /\ allows \in AllowTabs /\ opers \in OperTabs
      /\ ClassPart(class, conn, connects, allows, opers) /\ ShapeOK(conn[c])
  BY DEF ConfInv, ConfTypes
<1>2. /\ conn[c].st \in {"unknown", "connecting"} /\ conn[c].class = None /\ connects[b] # None
      /\ connects' = [connects EXCEPT ![b].acpt = c] /\ UNCHANGED <<allows, opers>>
  BY DEF m_server
<1>3. connects[b] \in ConnectRecs /\ connects[b].class \in ClassNames
  BY <1>1, <1>2 DEF ConnectTabs, ConnectRecs
<1>4. CASE conn' = [conn EXCEPT ![c] = Closed] /\ UNCHANGED <<class, shared>>
  <2>1. PICK cn, cn2, ct, ct2 : cn = conn /\ cn2 = conn' /\ ct = connects /\ ct2 = connects'
    OBVIOUS
  <2>2. cn \in ConnTabs /\ ct \in ConnectTabs /\ PutAt(cn2, cn, c, Closed) /\ ct[b] # None
    BY <1>1, <1>2, <1>4, <2>1 DEF PutAt
  <2>3. PICK y : y = [ct[b] EXCEPT !.acpt = c]
    OBVIOUS
  <2>4. y \in ConnectRecs /\ y.class = ct[b].class /\ y.acpt = c /\ y # None
    BY <1>3, <2>1, <2>3, ConfNull DEF ConnectRecs
  <2>5. PutAt(ct2, ct, b, y)
    BY <1>2, <2>1, <2>2, <2>3 DEF PutAt, ConnectTabs
  <2>6. cn2 \in ConnTabs /\ cn2[c] = Closed /\ \A d \in Links : d # c => cn2[d] = cn[d]
    BY <2>2, ClosedIs, ConnSwing
  <2>7. ct2 \in ConnectTabs /\ ct2[b] = y /\ \A d \in Connects : d # b => ct2[d] = ct[d]
    BY <2>2, <2>4, <2>5, ConnectSwing
  <2>8. cn[c].class = None /\ cn[c].allow = None /\ cn[c].oper = None /\ cn[c].st \notin {"nego", "server"}
    BY <1>1, <1>2, <2>1 DEF ShapeOK
  <2>9. /\ LinksOf(cn2) = LinksOf(cn) /\ (\A k : ClassUsers(cn2, k) = ClassUsers(cn, k))
        /\ (\A a : AllowUsers(cn2, a) = AllowUsers(cn, a)) /\ (\A o : OperUsers(cn2, o) = OperUsers(cn, o))
        /\ \A e : Claimants(cn2, e) = Claimants(cn, e) \ {c}
    BY <2>2, <2>8, ClosedIs, UsersSame
  <2>10. SameRefs(ct, allows, opers, ct2, allows, opers)
    BY <2>2, <2>4, <2>5, ConnectKept
  <2>11. RefsOf(cn2, ct2, allows, opers) = RefsOf(cn, ct, allows, opers)
    BY <2>9, <2>10 DEF RefsOf, SameRefs
  <2>12. ClassPart(class, cn2, ct2, allows, opers)
    BY <1>1, <2>1, <2>9, <2>11 DEF ClassPart
  <2>13. AllowsOK(allows, cn2) /\ OpersOK(opers, cn2)
    BY <2>1, <2>9 DEF ConfInv, AllowsOK, OpersOK
  <2>14. ClaimsOK(ct2, cn2, shared)
    <3>1. ASSUME NEW e \in Connects \ shared, NEW d \in Claimants(cn2, e)
          PROVE  ct2[e] # None /\ ct2[e].acpt # None /\ \A g \in Claimants(cn2, e) : g = d
      <4>1. d \in Claimants(cn, e)
        BY <2>9, <3>1
      <4>2. ct[e] # None /\ ct[e].acpt # None /\ \A g \in Claimants(cn, e) : g = d
        BY <2>1, <4>1 DEF ConfInv, ClaimsOK
      <4>3. c # None
        BY ConfAssumption
      <4> QED BY <2>4, <2>7, <2>9, <4>2, <4>3
    <3> QED BY <3>1 DEF ClaimsOK
  <2>15. ConfTypes' /\ \A d \in Links : ShapeOK(conn'[d])
    BY <1>2, <1>4, <2>1, <2>6, <2>7, ClosedIs DEF ConfInv, ConfTypes
  <2> QED BY <1>2, <1>4, <2>1, <2>12, <2>13, <2>14, <2>15 DEF ConfInv
<1>5. CASE /\ conn' = [conn EXCEPT ![c] = [Closed EXCEPT !.st = "nego", !.class = Default, !.aconn = b]]
           /\ shared' = IF Claimed(b) THEN shared \cup {b} ELSE shared
           /\ class' = set_effective_class(class, None, Default)
  <2>1. PICK x : x = [Closed EXCEPT !.st = "nego", !.class = Default, !.aconn = b]
    OBVIOUS
  <2>2. x \in ConnRecs /\ x.st = "nego" /\ x.class = Default /\ x.aconn = b /\ ShapeOK(x)
    BY <2>1, ConfAssumption DEF Closed, ConnRecs, ShapeOK
  <2>3. class[x.class] # None
    BY <1>1, <2>2 DEF ClassPart
  <2>4. PutAt(conn', conn, c, x)
    BY <1>5, <2>1 DEF PutAt
  <2> QED BY <1>2, <1>5, <2>2, <2>3, <2>4, ConfTake
<1>6. CASE /\ conn' = [conn EXCEPT ![c] = [Closed EXCEPT !.st = "server", !.aconn = b,
                                                         !.class = connects[b].class]]
           /\ shared' = IF Claimed(b) THEN shared \cup {b} ELSE shared
           /\ class' = set_effective_class(class, None, connects[b].class)
  <2>1. PICK k : k = connects[b].class
    OBVIOUS
  <2>2. PICK x : x = [Closed EXCEPT !.st = "server", !.aconn = b, !.class = k]
    OBVIOUS
  <2>3. k \in ClassNames
    BY <1>3, <2>1
  <2>4. x \in ConnRecs /\ x.st = "server" /\ x.class = k /\ x.aconn = b /\ ShapeOK(x)
    BY <2>2, <2>3 DEF Closed, ConnRecs, ShapeOK
  <2>5. class[x.class] # None
    BY <1>1, <1>2, <2>1, <2>4, ClassThere
  <2>6. PutAt(conn', conn, c, x)
    BY <1>6, <2>1, <2>2 DEF PutAt
  <2>7. class' = set_effective_class(class, None, x.class)
    BY <1>6, <2>1, <2>4, SMTT(30)
  <2> QED BY <1>2, <1>6, <2>4, <2>5, <2>6, <2>7, ConfTake
<1> QED BY <1>4, <1>5, <1>6 DEF m_server

\* Of two links to a server the younger exits, and with it the other's note in the block.
LEMMA ConfRival ==
  ASSUME ConfInv, NEW c \in Links, conn[c].st = "nego", NEW b \in Connects, b = conn[c].aconn, connects[b] # None,
         NEW up \in ConnRecs, up.st = "server", up.aconn = b, up.class = connects[b].class, ShapeOK(up),
         NEW d \in Linked(b), NEW loser \in {"c", "d"},
         conn' = IF loser = "c" THEN [conn EXCEPT ![c] = Closed] ELSE [conn EXCEPT ![c] = up, ![d] = Closed],
         connects' = [connects EXCEPT ![b] = IF connects[b].legal = -1 THEN None
                                             ELSE [connects[b] EXCEPT !.acpt = None]],
         class' = counted(class,
                    [k \in ClassNames |->
                       One(loser = "d" /\ k = up.class) - One(k = conn[c].class)
                       - One(loser = "d" /\ k = conn[d].class)
                       - One(connects[b].legal = -1 /\ k = connects[b].class)],
                    [k \in ClassNames |->
                       One(loser = "d" /\ k = up.class) - One(k = conn[c].class)
                       - One(loser = "d" /\ k = conn[d].class)]),
         UNCHANGED <<allows, opers, shared>>
  PROVE  ConfInv'
<1>1. PICK cn, cn2, ct, ct2 : cn = conn /\ cn2 = conn' /\ ct = connects /\ ct2 = connects'
  OBVIOUS
<1>2. /\ cn \in ConnTabs /\ ct \in ConnectTabs /\ allows \in AllowTabs /\ opers \in OperTabs
      /\ (\A e \in Links : ShapeOK(cn[e])) /\ ClassPart(class, cn, ct, allows, opers) /\ ClaimsOK(ct, cn, shared)
  BY <1>1 DEF ConfInv, ConfTypes
<1>3. d \in Links /\ cn[d].st = "server" /\ cn[d].aconn = b /\ d # c /\ cn[c].st = "nego" /\ cn[c].aconn = b /\ ct[b] # None
  BY <1>1 DEF Linked
<1>4. /\ cn[c].allow = None /\ cn[c].oper = None /\ cn[d].allow = None /\ cn[d].oper = None
      /\ up.allow = None /\ up.oper = None
  BY <1>2, <1>3 DEF ShapeOK
<1>5. b \in shared
  <2>1. c \in Claimants(cn, b) /\ d \in Claimants(cn, b)
    BY <1>3 DEF Claimants
  <2> QED BY <1>2, <1>3, <2>1 DEF ClaimsOK
<1>6. ct[b] \in ConnectRecs
  BY <1>2, <1>3 DEF ConnectTabs
<1>7. PICK z : z = [ct[b] EXCEPT !.acpt = None]
  OBVIOUS
<1>8. z \in ConnectRecs /\ z.class = ct[b].class /\ z # None
  BY <1>6, <1>7, ConfNull DEF ConnectRecs
<1>9. PICK y : y = IF ct[b].legal = -1 THEN None ELSE z
  OBVIOUS
<1>10. PutAt(ct2, ct, b, y) /\ y \in ConnectRecs \cup {None}
  BY <1>1, <1>7, <1>8, <1>9 DEF PutAt
<1>11. /\ ct2 \in ConnectTabs /\ ct2[b] = y /\ (\A e \in Connects : e # b => ct2[e] = ct[e])
       /\ \A k \in ClassNames : Cardinality(ConnectRefs(ct2, k)) = Cardinality(ConnectRefs(ct, k))
            + (IF RefOf(y) = k THEN 1 ELSE 0) - (IF RefOf(ct[b]) = k THEN 1 ELSE 0)
  BY <1>2, <1>10, ConnectSwing
<1>12. ASSUME NEW k \in ClassNames
       PROVE  Cardinality(ConnectRefs(ct2, k)) = Cardinality(ConnectRefs(ct, k))
                - (IF ct[b].legal = -1 /\ k = ct[b].class THEN 1 ELSE 0)
  <2>1. k # None /\ Cardinality(ConnectRefs(ct, k)) \in Nat
    BY ConfAssumption, RefsFinite
  <2>2. RefOf(ct[b]) = ct[b].class /\ RefOf(y) = IF ct[b].legal = -1 THEN None ELSE ct[b].class
    BY <1>3, <1>8, <1>9 DEF RefOf
  <2>3. Cardinality(ConnectRefs(ct2, k)) = Cardinality(ConnectRefs(ct, k))
            + (IF RefOf(y) = k THEN 1 ELSE 0) - (IF RefOf(ct[b]) = k THEN 1 ELSE 0)
    BY <1>11
  <2> QED BY <2>1, <2>2, <2>3
<1>13. PICK dr, dl : /\ dr = [k \in ClassNames |->
                                One(loser = "d" /\ k = up.class) - One(k = conn[c].class)
                                - One(loser = "d" /\ k = conn[d].class)
                                - One(connects[b].legal = -1 /\ k = connects[b].class)]
                     /\ dl = [k \in ClassNames |->
                                One(loser = "d" /\ k = up.class) - One(k = conn[c].class)
                                - One(loser = "d" /\ k = conn[d].class)]
  OBVIOUS
<1>14. class[up.class] # None
  BY <1>1, <1>2, <1>3, ClassThere
<1>15. /\ cn2 \in ConnTabs /\ (\A e \in Links : ShapeOK(cn2[e]))
       /\ \A e \in Links : e # c /\ e # d => cn2[e] = cn[e]
       /\ \A e \in {c, d} : cn2[e].allow = None /\ cn2[e].oper = None /\ (cn2[e].st = "none" \/ cn2[e].aconn = b)
       /\ \A k \in ClassNames : Cardinality(ClassUsers(cn2, k)) = Cardinality(ClassUsers(cn, k)) + dl[k]
  <2>1. CASE loser = "c"
    <3>1. PutAt(cn2, cn, c, Closed)
      BY <1>1, <2>1 DEF PutAt
    <3>2. cn2 \in ConnTabs /\ cn2[c] = Closed /\ \A e \in Links : e # c => cn2[e] = cn[e]
      BY <1>2, <3>1, ClosedIs, ConnSwing
    <3>3. ASSUME NEW k \in ClassNames
          PROVE  Cardinality(ClassUsers(cn2, k)) = Cardinality(ClassUsers(cn, k)) + dl[k]
      <4>1. Cardinality(ClassUsers(cn2, k)) = Cardinality(ClassUsers(cn, k))
              + (IF Closed.class = k THEN 1 ELSE 0) - (IF cn[c].class = k THEN 1 ELSE 0)
        BY <1>2, <3>1, ClosedIs, ConnSwing
      <4>2. Closed.class # k /\ Cardinality(ClassUsers(cn, k)) \in Nat
        BY ClosedIs, ConfAssumption, UsersFinite
      <4>3. dl[k] = - (IF cn[c].class = k THEN 1 ELSE 0)
        BY <1>1, <1>13, <2>1 DEF One
      <4> QED BY <4>1, <4>2, <4>3
    <3>4. \A e \in {c, d} : cn2[e].allow = None /\ cn2[e].oper = None /\ (cn2[e].st = "none" \/ cn2[e].aconn = b)
      BY <1>3, <1>4, <3>2, ClosedIs
    <3> QED BY <1>2, <3>2, <3>3, <3>4, ClosedIs
  <2>2. CASE loser = "d"
    <3>1. PICK mid : mid = [cn EXCEPT ![c] = up]
      OBVIOUS
    <3>2. PutAt(mid, cn, c, up)
      BY <3>1 DEF PutAt
    <3>3. mid \in ConnTabs /\ mid[c] = up /\ \A e \in Links : e # c => mid[e] = cn[e]
      BY <1>2, <3>2, ConnSwing
    <3>4. PutAt(cn2, mid, d, Closed)
      BY <1>1, <1>2, <1>3, <2>2, <3>1 DEF PutAt, ConnTabs
    <3>5. cn2 \in ConnTabs /\ cn2[d] = Closed /\ \A e \in Links : e # d => cn2[e] = mid[e]
      BY <1>3, <3>3, <3>4, ClosedIs, ConnSwing
    <3>6. ASSUME NEW k \in ClassNames
          PROVE  Cardinality(ClassUsers(cn2, k)) = Cardinality(ClassUsers(cn, k)) + dl[k]
      <4>1. Cardinality(ClassUsers(mid, k)) = Cardinality(ClassUsers(cn, k))
              + (IF up.class = k THEN 1 ELSE 0) - (IF cn[c].class = k THEN 1 ELSE 0)
        BY <1>2, <3>2, ConnSwing
      <4>2. Cardinality(ClassUsers(cn2, k)) = Cardinality(ClassUsers(mid, k))
              + (IF Closed.class = k THEN 1 ELSE 0) - (IF mid[d].class = k THEN 1 ELSE 0)
        BY <1>3, <3>3, <3>4, ClosedIs, ConnSwing
      <4>3. Closed.class # k /\ mid[d].class = cn[d].class
        BY <1>3, <3>3, ClosedIs, ConfAssumption
      <4>4. Cardinality(ClassUsers(cn, k)) \in Nat /\ Cardinality(ClassUsers(mid, k)) \in Nat
        BY UsersFinite
      <4>5. dl[k] = (IF up.class = k THEN 1 ELSE 0) - (IF cn[c].class = k THEN 1 ELSE 0)
                      - (IF cn[d].class = k THEN 1 ELSE 0)
        BY <1>1, <1>13, <2>2 DEF One
      <4> QED BY <4>1, <4>2, <4>3, <4>4, <4>5
    <3>7. \A e \in {c, d} : cn2[e].allow = None /\ cn2[e].oper = None /\ (cn2[e].st = "none" \/ cn2[e].aconn = b)
      BY <1>3, <1>4, <3>3, <3>5, ClosedIs
    <3>8. \A e \in Links : ShapeOK(cn2[e])
      BY <1>2, <3>3, <3>5, ClosedIs
    <3> QED BY <3>3, <3>5, <3>6, <3>7, <3>8
  <2> QED BY <2>1, <2>2
<1>16. Moves(class, cn, ct, allows, opers, cn2, ct2, allows, opers, dr, dl)
  <2>1. ASSUME NEW k \in ClassNames
        PROVE  /\ dr[k] \in Int /\ dl[k] \in Int
               /\ dl[k] = Cardinality(ClassUsers(cn2, k)) - Cardinality(ClassUsers(cn, k))
               /\ dr[k] = dl[k] + (Cardinality(ConnectRefs(ct2, k)) - Cardinality(ConnectRefs(ct, k)))
                      + (Cardinality(AllowRefs(allows, k)) - Cardinality(AllowRefs(allows, k)))
                      + (Cardinality(OperRefs(opers, k)) - Cardinality(OperRefs(opers, k)))
               /\ class[k] = None => dr[k] <= 0
    <3>1. PICK e, f, g, h : /\ e = One(loser = "d" /\ k = up.class) /\ f = One(k = conn[c].class)
                            /\ g = One(loser = "d" /\ k = conn[d].class)
                            /\ h = One(connects[b].legal = -1 /\ k = connects[b].class)
      OBVIOUS
    <3>2. e \in {0, 1} /\ f \in {0, 1} /\ g \in {0, 1} /\ h \in {0, 1} /\ (class[k] = None => e = 0)
      BY <1>14, <3>1 DEF One
    <3>3. dr[k] = e - f - g - h /\ dl[k] = e - f - g
      BY <1>13, <3>1
    <3>4. Cardinality(ConnectRefs(ct2, k)) = Cardinality(ConnectRefs(ct, k)) - h
      BY <1>1, <1>12, <3>1 DEF One
    <3>5. Cardinality(ClassUsers(cn2, k)) = Cardinality(ClassUsers(cn, k)) + dl[k]
      BY <1>15
    <3>6. /\ Cardinality(ClassUsers(cn, k)) \in Nat /\ Cardinality(ConnectRefs(ct, k)) \in Nat
          /\ Cardinality(AllowRefs(allows, k)) \in Nat /\ Cardinality(OperRefs(opers, k)) \in Nat
      BY UsersFinite, RefsFinite
    <3> QED BY <3>2, <3>3, <3>4, <3>5, <3>6
  <2> QED BY <2>1 DEF Moves
<1>17. ClassPart(class', cn2, ct2, allows, opers)
  <2>1. class' = counted(class, dr, dl)
    BY <1>13
  <2> QED BY <1>2, <1>16, <2>1, MovesOK
<1>18. \A a \in AllowBlocks : AllowUsers(cn2, a) = AllowUsers(cn, a)
  BY <1>3, <1>4, <1>15, ConfNull DEF AllowUsers
<1>19. \A o \in Opers : OperUsers(cn2, o) = OperUsers(cn, o)
  BY <1>3, <1>4, <1>15, ConfAssumption DEF OperUsers
<1>20. AllowsOK(allows, cn2) /\ OpersOK(opers, cn2)
  BY <1>1, <1>18, <1>19 DEF ConfInv, AllowsOK, OpersOK
<1>21. ClaimsOK(ct2, cn2, shared)
  <2>1. ASSUME NEW e \in Connects \ shared PROVE Claimants(cn2, e) = Claimants(cn, e) /\ ct2[e] = ct[e]
    BY <1>3, <1>5, <1>11, <1>15, <2>1 DEF Claimants
  <2> QED BY <1>2, <2>1 DEF ClaimsOK
<1>22. ConfTypes'
  BY <1>1, <1>11, <1>15 DEF ConfInv, ConfTypes
<1> QED BY <1>1, <1>15, <1>17, <1>20, <1>21, <1>22 DEF ConfInv

LEMMA ConfDkey ==
  ASSUME ConfInv, NEW c \in Links, m_dkey(c)
  PROVE  ConfInv'
<1>1. /\ conn \in ConnTabs /\ connects \in ConnectTabs /\ allows \in AllowTabs /\ opers \in OperTabs
      /\ ClassPart(class, conn, connects, allows, opers) /\ ShapeOK(conn[c]) /\ conn[c].st = "nego"
  BY DEF ConfInv, ConfTypes, m_dkey
<1> DEFINE b  == conn[c].aconn
           up == [conn[c] EXCEPT !.st = "server", !.class = connects[b].class]
<1>2. b \in Connects /\ b = conn[c].aconn
  BY <1>1 DEF ShapeOK
<1>3. connects[b] # None /\ UNCHANGED <<allows, opers, shared>>
  BY DEF m_dkey, b
<1>4. connects[b] \in ConnectRecs /\ connects[b].class \in ClassNames
  BY <1>1, <1>2, <1>3 DEF ConnectTabs, ConnectRecs
<1>5. up = [conn[c] EXCEPT !.st = "server", !.class = connects[b].class]
  OBVIOUS
<1> HIDE DEF b, up
<1>6. /\ up \in ConnRecs /\ up.st = "server" /\ up.class = connects[b].class /\ up.aconn = b
      /\ up.allow = conn[c].allow /\ up.oper = conn[c].oper /\ ShapeOK(up)
  <2>1. conn[c] \in ConnRecs /\ conn[c].allow = None /\ conn[c].oper = None
    BY <1>1 DEF ConnTabs, ShapeOK
  <2>2. PICK g : g = [conn[c] EXCEPT !.st = "server"]
    OBVIOUS
  <2>3. g \in ConnRecs /\ g.st = "server" /\ g.aconn = b /\ g.allow = conn[c].allow /\ g.oper = conn[c].oper
    BY <1>2, <2>1, <2>2 DEF ConnRecs
  <2>4. PICK k : k = connects[b].class
    OBVIOUS
  <2>5. up = [g EXCEPT !.class = k] /\ k \in ClassNames
    BY <1>4, <1>5, <2>1, <2>2, <2>4 DEF ConnRecs
  <2>6. /\ up \in ConnRecs /\ up.st = "server" /\ up.class = k /\ up.aconn = b
        /\ up.allow = conn[c].allow /\ up.oper = conn[c].oper
    BY <2>3, <2>5 DEF ConnRecs
  <2> QED BY <1>2, <2>1, <2>4, <2>5, <2>6 DEF ShapeOK
<1>7. CASE Linked(b) = {}
  <2>1. /\ conn' = [conn EXCEPT ![c] = up] /\ class' = set_effective_class(class, conn[c].class, up.class)
        /\ connects' = connects
    BY <1>7 DEF m_dkey, b, up
  <2>2. PICK cn, cn2 : cn = conn /\ cn2 = conn'
    OBVIOUS
  <2>3. cn \in ConnTabs /\ PutAt(cn2, cn, c, up) /\ cn[c].aconn = b /\ cn[c].st = "nego"
    BY <1>1, <1>2, <2>1, <2>2 DEF PutAt
  <2>4. cn2 \in ConnTabs /\ cn2[c] = up /\ \A d \in Links : d # c => cn2[d] = cn[d]
    BY <1>6, <2>3, ConnSwing
  <2>5. ClassPart(class', cn2, connects, allows, opers)
    <3>1. class[up.class] # None
      BY <1>1, <1>2, <1>3, <1>6, ClassThere
    <3>2. SameRefs(connects, allows, opers, connects, allows, opers)
      BY DEF SameRefs
    <3>3. ClassPart(class, cn, connects, allows, opers)
      BY <1>1, <2>2
    <3>4. ClassPart(set_effective_class(class, cn[c].class, up.class), cn2, connects, allows, opers)
      BY <1>6, <2>3, <3>1, <3>2, <3>3, EffectiveOK
    <3> QED BY <2>1, <2>2, <3>4
  <2>6. (\A a : AllowUsers(cn2, a) = AllowUsers(cn, a)) /\ (\A o : OperUsers(cn2, o) = OperUsers(cn, o))
    BY <1>6, <2>2, <2>3, UsersSame
  <2>7. \A e : Claimants(cn2, e) = Claimants(cn, e)
    BY <1>6, <2>3, <2>4 DEF Claimants
  <2>8. AllowsOK(allows, cn2) /\ OpersOK(opers, cn2) /\ ClaimsOK(connects, cn2, shared)
    BY <2>2, <2>6, <2>7 DEF ConfInv, AllowsOK, OpersOK, ClaimsOK
  <2>9. ConfTypes' /\ \A d \in Links : ShapeOK(conn'[d])
    BY <1>3, <1>6, <2>1, <2>2, <2>4, SMTT(30) DEF ConfInv, ConfTypes
  <2> QED BY <1>3, <2>1, <2>2, <2>5, <2>8, <2>9 DEF ConfInv
<1>8. CASE Linked(b) # {}
  <2>1. PICK d \in Linked(b), loser \in {"c", "d"} :
          /\ conn' = IF loser = "c" THEN [conn EXCEPT ![c] = Closed] ELSE [conn EXCEPT ![c] = up, ![d] = Closed]
          /\ connects' = [connects EXCEPT ![b] = IF connects[b].legal = -1 THEN None
                                             ELSE [connects[b] EXCEPT !.acpt = None]]
          /\ class' = counted(class,
                    [k \in ClassNames |->
                       One(loser = "d" /\ k = up.class) - One(k = conn[c].class)
                       - One(loser = "d" /\ k = conn[d].class)
                       - One(connects[b].legal = -1 /\ k = connects[b].class)],
                    [k \in ClassNames |->
                       One(loser = "d" /\ k = up.class) - One(k = conn[c].class)
                       - One(loser = "d" /\ k = conn[d].class)])
    BY <1>8 DEF m_dkey, b, up
  <2> QED BY <1>1, <1>2, <1>3, <1>6, <2>1, ConfRival, ZenonT(40)
<1> QED BY <1>7, <1>8

----------------------------------------------------------------------------
(* Rehash.                                                                 *)

\* Classes that are marked, taken over or added count what they did.
LEMMA MergedClasses ==
  ASSUME ConfInv, NEW f \in AnyFile
  PROVE  /\ ClassPart(merge_classes(f), conn, connects, allows, opers)
         /\ \A k \in ClassNames : merge_classes(f)[k] = None => k \notin f.classes /\ class[k] = None
<1>1. PICK n, u, cl : n = LinksOf(conn) /\ u = RefsOf(conn, connects, allows, opers) /\ cl = merge_classes(f)
  OBVIOUS
<1>2. n \in ClassNats /\ u \in ClassNats /\ \A k \in ClassNames : n[k] <= u[k]
  BY <1>1, CountsTyped
<1>3. ClassesOK(class, n, u)
  BY <1>1 DEF ConfInv, ClassPart
<1>4. Default \in f.classes /\ f.classes \subseteq ClassNames
  BY DEF AnyFile
<1>5. ASSUME NEW k \in ClassNames
      PROVE  /\ cl[k] \in ClassRecs \cup {None}
             /\ cl[k] = None => u[k] = 0 /\ k \notin f.classes /\ class[k] = None
             /\ cl[k] # None => cl[k].links = n[k] /\ cl[k].refs >= u[k]
             /\ k \in f.classes => cl[k] # None /\ cl[k].max # -1
  <2>1. /\ n[k] \in Nat /\ u[k] \in Nat /\ n[k] <= u[k] /\ class[k] \in ClassRecs \cup {None}
        /\ (class[k] = None => u[k] = 0) /\ (class[k] # None => class[k].links = n[k] /\ class[k].refs >= u[k])
    BY <1>2, <1>3 DEF ClassesOK, ClassTabs, ClassNats
  <2>2. PICK x : x = MaxLinks[k]
    OBVIOUS
  <2>3. x \in Nat \ {0} /\ x \in {MaxLinks[j] : j \in ClassNames}
    BY <2>2, ConfAssumption
  <2>4. CASE k \in f.classes /\ class[k] = None
    <3>1. cl[k] = [max |-> x, refs |-> 0, links |-> 0]
      BY <1>1, <2>2, <2>4 DEF merge_classes
    <3>2. cl[k] \in ClassRecs /\ cl[k].max = x /\ cl[k].refs = 0 /\ cl[k].links = 0
      BY <2>3, <3>1 DEF ClassRecs
    <3>3. n[k] = 0 /\ u[k] = 0 /\ x # -1 /\ cl[k] # None
      BY <2>1, <2>3, <2>4, <3>2, ConfNull
    <3> QED BY <3>2, <3>3
  <2>5. CASE k \in f.classes /\ class[k] # None
    <3>1. cl[k] = [class[k] EXCEPT !.max = x]
      BY <1>1, <2>2, <2>5 DEF merge_classes
    <3>2. class[k] \in ClassRecs
      BY <2>1, <2>5
    <3>3. cl[k] \in ClassRecs /\ cl[k].max = x /\ cl[k].refs = class[k].refs /\ cl[k].links = class[k].links
      BY <2>3, <3>1, <3>2 DEF ClassRecs
    <3>4. x # -1 /\ cl[k] # None
      BY <2>3, <3>3, ConfNull
    <3> QED BY <2>1, <2>5, <3>3, <3>4
  <2>6. CASE k \notin f.classes /\ class[k] # None
    <3>1. cl[k] = [class[k] EXCEPT !.max = -1]
      BY <1>1, <2>6 DEF merge_classes
    <3>2. class[k] \in ClassRecs
      BY <2>1, <2>6
    <3>3. cl[k] \in ClassRecs /\ cl[k].refs = class[k].refs /\ cl[k].links = class[k].links
      BY <3>1, <3>2 DEF ClassRecs
    <3>4. cl[k] # None
      BY <3>3, ConfNull
    <3> QED BY <2>1, <2>6, <3>3, <3>4
  <2>7. CASE k \notin f.classes /\ class[k] = None
    <3>1. cl[k] = None
      BY <1>1, <2>7 DEF merge_classes
    <3> QED BY <2>1, <2>7, <3>1
  <2> QED BY <2>4, <2>5, <2>6, <2>7
<1>6. cl \in ClassTabs
  <2>1. cl = [k \in ClassNames |-> cl[k]]
    BY <1>1 DEF merge_classes
  <2> QED BY <1>5, <2>1 DEF ClassTabs
<1>7. ClassesOK(cl, n, u)
  BY <1>5, <1>6 DEF ClassesOK
<1>8. cl[Default] # None /\ cl[Default].max # -1
  BY <1>4, <1>5
<1> QED BY <1>1, <1>5, <1>7, <1>8 DEF ClassPart

LEMMA MergedConnects ==
  ASSUME ConfInv, NEW f \in AnyFile, NEW t, t = merge_connects(f)
  PROVE  /\ t \in ConnectTabs /\ ClaimsOK(t, conn, shared)
         /\ \A b \in Connects : t[b] # None => \/ f.connects[b] # None /\ t[b].class = f.connects[b]
                                               \/ connects[b] # None /\ t[b].class = connects[b].class
<1>1. connects \in ConnectTabs
  BY DEF ConfInv, ConfTypes
<1>2. ASSUME NEW b \in Connects
      PROVE  /\ t[b] \in ConnectRecs \cup {None}
             /\ t[b] # None => \/ f.connects[b] # None /\ t[b].class = f.connects[b]
                               \/ connects[b] # None /\ t[b].class = connects[b].class
             /\ connects[b] # None /\ connects[b].acpt # None => t[b] # None /\ t[b].acpt # None
  <2>1. connects[b] \in ConnectRecs \cup {None} /\ f.connects[b] \in ClassNames \cup {None}
    BY <1>1 DEF ConnectTabs, AnyFile
  <2>2. CASE f.connects[b] # None
    <3>1. PICK w, z : w = f.connects[b] /\ z = IF connects[b] = None THEN None ELSE connects[b].acpt
      OBVIOUS
    <3>2. w \in ClassNames /\ z \in Links \cup {None}
      BY <2>1, <2>2, <3>1 DEF ConnectRecs
    <3>3. t[b] = [class |-> w, legal |-> 1, acpt |-> z]
      BY <2>2, <3>1 DEF merge_connects
    <3>4. t[b] \in ConnectRecs /\ t[b].class = w /\ t[b].acpt = z
      BY <3>2, <3>3 DEF ConnectRecs
    <3>5. t[b] # None
      BY <3>4, ConfNull
    <3> QED BY <2>2, <3>1, <3>4, <3>5
  <2>3. CASE f.connects[b] = None /\ (connects[b] = None \/ connects[b].acpt = None)
    <3>1. t[b] = None
      BY <2>3 DEF merge_connects
    <3> QED BY <2>3, <3>1
  <2>4. CASE f.connects[b] = None /\ connects[b] # None /\ connects[b].acpt # None
    <3>1. t[b] = [connects[b] EXCEPT !.legal = -1]
      BY <2>4 DEF merge_connects
    <3>2. connects[b] \in ConnectRecs
      BY <2>1, <2>4
    <3>3. t[b] \in ConnectRecs /\ t[b].class = connects[b].class /\ t[b].acpt = connects[b].acpt
      BY <3>1, <3>2 DEF ConnectRecs
    <3>4. t[b] # None
      BY <3>3, ConfNull
    <3> QED BY <2>4, <3>3, <3>4
  <2> QED BY <2>2, <2>3, <2>4
<1>3. t \in ConnectTabs
  <2>1. t = [b \in Connects |-> t[b]]
    BY DEF merge_connects
  <2> QED BY <1>2, <2>1 DEF ConnectTabs
<1>4. ClaimsOK(t, conn, shared)
  BY <1>2 DEF ConfInv, ClaimsOK
<1> QED BY <1>2, <1>3, <1>4

LEMMA MergedAllows ==
  ASSUME ConfInv, NEW f \in AnyFile, NEW t, t = merge_allows(f)
  PROVE  /\ t \in AllowTabs /\ AllowsOK(t, conn)
         /\ \A a \in AllowBlocks : t[a] # None => a \in f.allows \/ allows[a] # None
<1>1. allows \in AllowTabs
  BY DEF ConfInv, ConfTypes
<1>2. ASSUME NEW a \in AllowBlocks
      PROVE  /\ t[a] \in AllowRecs \cup {None}
             /\ t[a] # None => a \in f.allows \/ allows[a] # None
             /\ t[a] = None => AllowUsers(conn, a) = {}
             /\ t[a] # None => /\ t[a].clients = Cardinality(AllowUsers(conn, a))
                               /\ t[a].legal = -1 => AllowUsers(conn, a) # {}
  <2>1. allows[a] \in AllowRecs \cup {None}
    BY <1>1 DEF AllowTabs
  <2>2. /\ allows[a] = None => AllowUsers(conn, a) = {}
        /\ allows[a] # None => allows[a].clients = Cardinality(AllowUsers(conn, a))
    BY DEF ConfInv, AllowsOK
  <2>3. /\ IsFiniteSet(AllowUsers(conn, a)) /\ Cardinality(AllowUsers(conn, a)) \in Nat
        /\ Cardinality(AllowUsers(conn, a)) = 0 <=> AllowUsers(conn, a) = {}
    BY UsersFinite, FS_EmptySet
  <2>4. CASE a \in f.allows
    <3>1. PICK z : z = IF allows[a] = None THEN 0 ELSE allows[a].clients
      OBVIOUS
    <3>2. z \in Nat /\ z = Cardinality(AllowUsers(conn, a))
      BY <2>2, <2>3, <3>1
    <3>3. t[a] = [legal |-> 1, clients |-> z]
      BY <2>4, <3>1 DEF merge_allows
    <3>4. t[a] \in AllowRecs /\ t[a].legal = 1 /\ t[a].clients = z
      BY <3>2, <3>3 DEF AllowRecs
    <3>5. t[a] # None
      BY <3>4, ConfNull
    <3> QED BY <2>4, <3>2, <3>4, <3>5
  <2>5. CASE a \notin f.allows /\ (allows[a] = None \/ allows[a].clients <= 0)
    <3>1. t[a] = None
      BY <2>5 DEF merge_allows
    <3>2. AllowUsers(conn, a) = {}
      BY <2>2, <2>3, <2>5
    <3> QED BY <3>1, <3>2
  <2>6. CASE a \notin f.allows /\ allows[a] # None /\ ~ (allows[a].clients <= 0)
    <3>1. t[a] = [allows[a] EXCEPT !.legal = -1]
      BY <2>6 DEF merge_allows
    <3>2. allows[a] \in AllowRecs
      BY <2>1, <2>6
    <3>3. t[a] \in AllowRecs /\ t[a].clients = allows[a].clients
      BY <3>1, <3>2 DEF AllowRecs
    <3>4. t[a] # None /\ AllowUsers(conn, a) # {}
      BY <2>2, <2>3, <2>6, <3>3, ConfNull
    <3> QED BY <2>2, <2>6, <3>3, <3>4
  <2> QED BY <2>4, <2>5, <2>6
<1>3. t \in AllowTabs
  <2>1. t = [a \in AllowBlocks |-> t[a]]
    BY DEF merge_allows
  <2> QED BY <1>2, <2>1 DEF AllowTabs
<1>4. AllowsOK(t, conn)
  BY <1>2 DEF AllowsOK
<1> QED BY <1>2, <1>3, <1>4

LEMMA MergedOpers ==
  ASSUME ConfInv, NEW f \in AnyFile, NEW t, t = merge_opers(f)
  PROVE  /\ t \in OperTabs /\ OpersOK(t, conn)
         /\ \A o \in Opers : t[o] # None => \/ f.opers[o] # None /\ t[o].class = f.opers[o]
                                            \/ opers[o] # None /\ t[o].class = opers[o].class
<1>1. opers \in OperTabs
  BY DEF ConfInv, ConfTypes
<1>2. ASSUME NEW o \in Opers
      PROVE  /\ t[o] \in OperRecs \cup {None}
             /\ t[o] # None => \/ f.opers[o] # None /\ t[o].class = f.opers[o]
                               \/ opers[o] # None /\ t[o].class = opers[o].class
             /\ t[o] = None => OperUsers(conn, o) = {}
             /\ t[o] # None => t[o].opers = Cardinality(OperUsers(conn, o))
  <2>1. opers[o] \in OperRecs \cup {None} /\ f.opers[o] \in ClassNames \cup {None}
    BY <1>1 DEF OperTabs, AnyFile
  <2>2. /\ opers[o] = None => OperUsers(conn, o) = {}
        /\ opers[o] # None => opers[o].opers = Cardinality(OperUsers(conn, o))
    BY DEF ConfInv, OpersOK
  <2>3. /\ IsFiniteSet(OperUsers(conn, o)) /\ Cardinality(OperUsers(conn, o)) \in Nat
        /\ Cardinality(OperUsers(conn, o)) = 0 <=> OperUsers(conn, o) = {}
    BY UsersFinite, FS_EmptySet
  <2>4. CASE f.opers[o] # None
    <3>1. PICK w, z : w = f.opers[o] /\ z = IF opers[o] = None THEN 0 ELSE opers[o].opers
      OBVIOUS
    <3>2. z \in Nat /\ z = Cardinality(OperUsers(conn, o)) /\ w \in ClassNames
      BY <2>1, <2>2, <2>3, <2>4, <3>1
    <3>3. t[o] = [class |-> w, legal |-> 1, opers |-> z]
      BY <2>4, <3>1 DEF merge_opers
    <3>4. t[o] \in OperRecs /\ t[o].class = w /\ t[o].opers = z
      BY <3>2, <3>3 DEF OperRecs
    <3>5. t[o] # None
      BY <3>4, ConfNull
    <3> QED BY <2>4, <3>1, <3>2, <3>4, <3>5
  <2>5. CASE f.opers[o] = None /\ (opers[o] = None \/ opers[o].opers <= 0)
    <3>1. t[o] = None
      BY <2>5 DEF merge_opers
    <3>2. OperUsers(conn, o) = {}
      BY <2>2, <2>3, <2>5
    <3> QED BY <3>1, <3>2
  <2>6. CASE f.opers[o] = None /\ opers[o] # None /\ ~ (opers[o].opers <= 0)
    <3>1. t[o] = [opers[o] EXCEPT !.legal = -1]
      BY <2>6 DEF merge_opers
    <3>2. opers[o] \in OperRecs
      BY <2>1, <2>6
    <3>3. t[o] \in OperRecs /\ t[o].opers = opers[o].opers /\ t[o].class = opers[o].class
      BY <3>1, <3>2 DEF OperRecs
    <3>4. t[o] # None
      BY <3>3, ConfNull
    <3> QED BY <2>2, <2>6, <3>3, <3>4
  <2> QED BY <2>4, <2>5, <2>6
<1>3. t \in OperTabs
  <2>1. t = [o \in Opers |-> t[o]]
    BY DEF merge_opers
  <2> QED BY <1>2, <2>1 DEF OperTabs
<1>4. OpersOK(t, conn)
  BY <1>2 DEF OpersOK
<1> QED BY <1>2, <1>3, <1>4

LEMMA ConfMerge ==
  ASSUME ConfInv, NEW f \in AnyFile, Complete(f), merge_confs(f), UNCHANGED <<conn, shared>>
  PROVE  ConfInv'
<1>1. PICK cl, ct, al, op : /\ cl = merge_classes(f) /\ ct = merge_connects(f)
                            /\ al = merge_allows(f) /\ op = merge_opers(f)
  OBVIOUS
<1>2. PICK dr, dl : dr = [k \in ClassNames |-> merged_refs(k, ct, al, op)] /\ dl = [k \in ClassNames |-> 0]
  OBVIOUS
<1>3. connects' = ct /\ allows' = al /\ opers' = op /\ class' = counted(cl, dr, dl)
  BY <1>1, <1>2 DEF merge_confs
<1>4. /\ ClassPart(cl, conn, connects, allows, opers)
      /\ \A k \in ClassNames : cl[k] = None => k \notin f.classes /\ class[k] = None
  BY <1>1, MergedClasses
<1>5. /\ ct \in ConnectTabs /\ ClaimsOK(ct, conn, shared)
      /\ \A b \in Connects : ct[b] # None => \/ f.connects[b] # None /\ ct[b].class = f.connects[b]
                                             \/ connects[b] # None /\ ct[b].class = connects[b].class
  BY <1>1, MergedConnects
<1>6. /\ al \in AllowTabs /\ AllowsOK(al, conn)
      /\ \A a \in AllowBlocks : al[a] # None => a \in f.allows \/ allows[a] # None
  BY <1>1, MergedAllows
<1>7. /\ op \in OperTabs /\ OpersOK(op, conn)
      /\ \A o \in Opers : op[o] # None => \/ f.opers[o] # None /\ op[o].class = f.opers[o]
                                          \/ opers[o] # None /\ op[o].class = opers[o].class
  BY <1>1, MergedOpers
<1>8. ASSUME NEW k \in ClassNames, cl[k] = None
      PROVE  ConnectRefs(ct, k) = {} /\ AllowRefs(al, k) = {} /\ OperRefs(op, k) = {}
  <2>1. k \notin f.classes /\ class[k] = None /\ k # None
    BY <1>4, <1>8, ConfAssumption
  <2>2. /\ conn \in ConnTabs /\ connects \in ConnectTabs /\ allows \in AllowTabs /\ opers \in OperTabs
        /\ ClassPart(class, conn, connects, allows, opers)
    BY DEF ConfInv, ConfTypes
  <2>3. /\ \A b \in Connects : connects[b] # None => class[connects[b].class] # None
        /\ \A a \in AllowBlocks : allows[a] # None => class[a[2]] # None
        /\ \A o \in Opers : opers[o] # None => class[opers[o].class] # None
    BY <2>2, ClassThere
  <2>4. ConnectRefs(ct, k) = {}
    BY <1>5, <2>1, <2>3 DEF ConnectRefs, Complete
  <2>5. AllowRefs(al, k) = {}
    BY <1>6, <2>1, <2>3 DEF AllowRefs, Complete
  <2>6. OperRefs(op, k) = {}
    BY <1>7, <2>1, <2>3 DEF OperRefs, Complete
  <2> QED BY <2>4, <2>5, <2>6
<1>9. Moves(cl, conn, connects, allows, opers, conn, ct, al, op, dr, dl)
  <2>1. ASSUME NEW k \in ClassNames
        PROVE  /\ dr[k] \in Int /\ dl[k] \in Int
               /\ dl[k] = Cardinality(ClassUsers(conn, k)) - Cardinality(ClassUsers(conn, k))
               /\ dr[k] >= dl[k] + (Cardinality(ConnectRefs(ct, k)) - Cardinality(ConnectRefs(connects, k)))
                      + (Cardinality(AllowRefs(al, k)) - Cardinality(AllowRefs(allows, k)))
                      + (Cardinality(OperRefs(op, k)) - Cardinality(OperRefs(opers, k)))
               /\ cl[k] = None => dl[k] + (Cardinality(ConnectRefs(ct, k)) - Cardinality(ConnectRefs(connects, k)))
                        + (Cardinality(AllowRefs(al, k)) - Cardinality(AllowRefs(allows, k)))
                        + (Cardinality(OperRefs(op, k)) - Cardinality(OperRefs(opers, k))) <= 0
    <3>1. PICK p, g, h, i, j, a, b, e :
             /\ p = Cardinality(ClassUsers(conn, k))
             /\ g = Cardinality(ConnectRefs(connects, k)) /\ h = Cardinality(ConnectRefs(ct, k))
             /\ i = Cardinality(AllowRefs(allows, k)) /\ j = Cardinality(AllowRefs(al, k))
             /\ a = Cardinality(OperRefs(opers, k)) /\ b = Cardinality(OperRefs(op, k))
             /\ e = Cardinality({o \in OperRefs(opers, k) : op[o] # None})
      OBVIOUS
    <3>2. /\ p \in Nat /\ g \in Nat /\ h \in Nat /\ i \in Nat /\ j \in Nat /\ a \in Nat /\ b \in Nat
      BY <3>1, UsersFinite, RefsFinite
    <3>3. e \in Nat /\ e <= a
      <4>1. IsFiniteSet(OperRefs(opers, k)) /\ {o \in OperRefs(opers, k) : op[o] # None} \in SUBSET OperRefs(opers, k)
        BY RefsFinite
      <4>2. /\ IsFiniteSet({o \in OperRefs(opers, k) : op[o] # None})
            /\ Cardinality({o \in OperRefs(opers, k) : op[o] # None}) <= Cardinality(OperRefs(opers, k))
        BY <4>1, FS_Subset
      <4> QED BY <3>1, <4>2, FS_CardinalityType
    <3>4. dr[k] = h - g + j - i + b - e /\ dl[k] = 0
      BY <1>2, <3>1 DEF merged_refs
    <3>5. cl[k] = None => h = 0 /\ j = 0 /\ b = 0
      BY <1>8, <3>1, FS_EmptySet
    <3>6. dr[k] \in Int /\ dl[k] = p - p /\ dr[k] >= dl[k] + (h - g) + (j - i) + (b - a)
      BY <3>2, <3>3, <3>4
    <3>7. cl[k] = None => dl[k] + (h - g) + (j - i) + (b - a) <= 0
      BY <3>2, <3>4, <3>5
    <3> QED BY <3>1, <3>4, <3>6, <3>7
  <2> QED BY <2>1 DEF Moves
<1>10. ClassPart(class', conn, ct, al, op)
  BY <1>3, <1>4, <1>9, MovesOK
<1>11. ConfTypes' /\ \A c \in Links : ShapeOK(conn'[c])
  BY <1>3, <1>5, <1>6, <1>7 DEF ConfInv, ConfTypes
<1> QED BY <1>3, <1>5, <1>6, <1>7, <1>10, <1>11 DEF ConfInv

----------------------------------------------------------------------------
LEMMA ConfInitInv == ConfInit => ConfInv
<1> SUFFICES ASSUME ConfInit PROVE ConfInv
  OBVIOUS
<1>1. \A c \in Links : conn[c] = Closed
  BY DEF ConfInit
<1>2. ConfTypes /\ \A c \in Links : ShapeOK(conn[c])
  BY <1>1, ClosedIs DEF ConfInit, ConfTypes, ConnTabs, ConnectTabs, AllowTabs, OperTabs
<1>3. \A k \in ClassNames : /\ ClassUsers(conn, k) = {} /\ ConnectRefs(connects, k) = {}
                            /\ AllowRefs(allows, k) = {} /\ OperRefs(opers, k) = {}
  BY <1>1, ClosedIs, ConfAssumption DEF ConfInit, ClassUsers, ConnectRefs, AllowRefs, OperRefs
<1>4. \A k \in ClassNames : LinksOf(conn)[k] = 0 /\ RefsOf(conn, connects, allows, opers)[k] = 0
  BY <1>3, FS_EmptySet DEF LinksOf, RefsOf
<1>5. PICK r : r = [max |-> MaxLinks[Default], refs |-> 0, links |-> 0]
  OBVIOUS
<1>6. PICK x : x = MaxLinks[Default]
  OBVIOUS
<1>7. x \in Nat \ {0} /\ x \in {MaxLinks[j] : j \in ClassNames} /\ Default \in ClassNames
  BY <1>6, ConfAssumption
<1>8. r \in ClassRecs /\ r.max = x /\ r.refs = 0 /\ r.links = 0 /\ r # None
  BY <1>5, <1>6, <1>7, ConfNull DEF ClassRecs
<1>9. class = [k \in ClassNames |-> IF k = Default THEN r ELSE None]
  BY <1>5 DEF ConfInit
<1>10. ClassPart(class, conn, connects, allows, opers)
  BY <1>4, <1>7, <1>8, <1>9 DEF ClassPart, ClassesOK, ClassTabs
<1>11. (\A a \in AllowBlocks : AllowUsers(conn, a) = {}) /\ (\A o \in Opers : OperUsers(conn, o) = {})
  BY <1>1, ClosedIs, ConfNull, ConfAssumption DEF AllowUsers, OperUsers
<1>12. \A b : Claimants(conn, b) = {}
  BY <1>1, ClosedIs DEF Claimants
<1>13. AllowsOK(allows, conn) /\ OpersOK(opers, conn) /\ ClaimsOK(connects, conn, shared)
  BY <1>11, <1>12 DEF ConfInit, AllowsOK, OpersOK, ClaimsOK
<1> QED BY <1>2, <1>10, <1>13 DEF ConfInv

LEMMA ConfStep == ConfInv /\ [ConfNext]_confVars => ConfInv'
<1> SUFFICES ASSUME ConfInv, [ConfNext]_confVars PROVE ConfInv'
  OBVIOUS
<1>1. CASE UNCHANGED confVars
  BY <1>1 DEF confVars, ConfInv, ConfTypes
<1>2. ASSUME NEW c \in Links, accept(c) PROVE ConfInv'
  <2>1. PICK x : x = [Closed EXCEPT !.st = "unknown"]
    OBVIOUS
  <2>2. x \in ConnRecs /\ x.st = "unknown" /\ ShapeOK(x)
    BY <2>1 DEF Closed, ConnRecs, ShapeOK
  <2>3. /\ PutAt(conn', conn, c, x) /\ {x.st, conn[c].st} \subseteq {"none", "unknown", "connecting"}
        /\ UNCHANGED <<class, connects, allows, opers, shared>>
    BY <1>2, <2>1, <2>2 DEF accept, PutAt
  <2> QED BY <2>2, <2>3, ConfQuiet
<1>3. ASSUME NEW c \in Links, NEW b \in Connects, connect_server(c, b) PROVE ConfInv'
  <2>1. PICK x : x = [Closed EXCEPT !.st = "connecting", !.aconn = b]
    OBVIOUS
  <2>2. x \in ConnRecs /\ x.st = "connecting" /\ ShapeOK(x)
    BY <2>1 DEF Closed, ConnRecs, ShapeOK
  <2>3. /\ PutAt(conn', conn, c, x) /\ {x.st, conn[c].st} \subseteq {"none", "unknown", "connecting"}
        /\ UNCHANGED <<class, connects, allows, opers, shared>>
    BY <1>3, <2>1, <2>2 DEF connect_server, PutAt
  <2> QED BY <2>2, <2>3, ConfQuiet
<1>4. ASSUME NEW f \in Files, rehash_conf(f) PROVE ConfInv'
  <2>1. f \in AnyFile
    BY ConfAssumption
  <2>2. CASE Complete(f)
    BY <1>4, <2>1, <2>2, ConfMerge DEF rehash_conf
  <2>3. CASE ~ Complete(f)
    <3>1. UNCHANGED confVars
      BY <1>4, <2>3 DEF rehash_conf, confVars
    <3> QED BY <3>1 DEF confVars, ConfInv, ConfTypes
  <2> QED BY <2>2, <2>3
<1> QED BY <1>1, <1>2, <1>3, <1>4, ConfRegister, ConfOper, ConfUmode, ConfExit, ConfServer, ConfDkey DEF ConfNext

\* Across rehashes no connection and no block points into freed configuration, the
\* counters of classes, allow and oper blocks are the connections that point to them,
\* and an allow block the file no longer has is gone with its last client, for any
\* files, connections and classes (merge_confs, clear_conflinks, set_effective_class).
THEOREM ConfAlwaysRight == ConfSpec => []ConfRight
<1>1. ConfInv => ConfRight
  <2> SUFFICES ASSUME ConfInv PROVE ConfRight
    OBVIOUS
  <2>1. /\ ConfTypes /\ (\A c \in Links : ShapeOK(conn[c])) /\ ClassPart(class, conn, connects, allows, opers)
        /\ AllowsOK(allows, conn) /\ OpersOK(opers, conn) /\ ClaimsOK(connects, conn, shared)
    BY DEF ConfInv
  <2>2. conn \in ConnTabs /\ connects \in ConnectTabs /\ allows \in AllowTabs /\ opers \in OperTabs
    BY <2>1 DEF ConfTypes
  <2>3. ConfPointers
    <3>1. ASSUME NEW c \in Links
          PROVE  /\ conn[c].class # None => class[conn[c].class] # None
                 /\ conn[c].allow # None => allows[conn[c].allow] # None
                 /\ conn[c].oper # None => opers[conn[c].oper] # None
                 /\ conn[c].st \in {"nego", "server"} /\ conn[c].aconn \notin shared
                      => connects[conn[c].aconn] # None
      <4>1. conn[c] \in ConnRecs /\ ShapeOK(conn[c])
        BY <2>1, <2>2 DEF ConnTabs
      <4>2. conn[c].class # None => class[conn[c].class] # None
        BY <2>1, <2>2, ClassThere
      <4>3. ASSUME conn[c].allow # None PROVE allows[conn[c].allow] # None
        <5>1. conn[c].allow \in AllowBlocks /\ c \in AllowUsers(conn, conn[c].allow)
          BY <4>1, <4>3 DEF ConnRecs, AllowUsers
        <5> QED BY <2>1, <5>1 DEF AllowsOK
      <4>4. ASSUME conn[c].oper # None PROVE opers[conn[c].oper] # None
        <5>1. conn[c].oper \in Opers /\ c \in OperUsers(conn, conn[c].oper)
          BY <4>1, <4>4 DEF ConnRecs, OperUsers
        <5> QED BY <2>1, <5>1 DEF OpersOK
      <4>5. ASSUME conn[c].st \in {"nego", "server"}, conn[c].aconn \notin shared
            PROVE  connects[conn[c].aconn] # None
        <5>1. conn[c].aconn \in Connects /\ c \in Claimants(conn, conn[c].aconn)
          BY <4>1, <4>5 DEF ShapeOK, Claimants
        <5> QED BY <2>1, <4>5, <5>1 DEF ClaimsOK
      <4> QED BY <4>2, <4>3, <4>4, <4>5
    <3>2. /\ \A b \in Connects : connects[b] # None => class[connects[b].class] # None
          /\ \A a \in AllowBlocks : allows[a] # None => class[a[2]] # None
          /\ \A o \in Opers : opers[o] # None => class[opers[o].class] # None
      BY <2>1, <2>2, ClassThere
    <3> QED BY <3>1, <3>2 DEF ConfPointers
  <2>4. ConfTypeOK
    BY <2>1 DEF ConfTypeOK, ConfTypes, ClassPart, ClassesOK, ClassTabs, ConnTabs, ConnectTabs, AllowTabs, OperTabs
  <2>5. \A k \in ClassNames : class[k] # None => class[k].links = Cardinality({c \in Links : conn[c].class = k})
    BY <2>1 DEF ClassPart, ClassesOK, LinksOf, ClassUsers
  <2>6. \A a \in AllowBlocks : allows[a] # None =>
           /\ allows[a].clients = Cardinality({c \in Links : conn[c].allow = a})
           /\ allows[a].legal = -1 => \E c \in Links : conn[c].allow = a
    BY <2>1 DEF AllowsOK, AllowUsers
  <2>7. \A o \in Opers : opers[o] # None => opers[o].opers = Cardinality({c \in Links : conn[c].oper = o})
    BY <2>1 DEF OpersOK, OperUsers
  <2> QED BY <2>3, <2>4, <2>5, <2>6, <2>7 DEF ConfRight, ConfCounts
<1> QED BY <1>1, ConfInitInv, ConfStep, PTL DEF ConfSpec
=============================================================================
