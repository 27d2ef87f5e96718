---------------------------- MODULE SjoinMerge ----------------------------
(***************************************************************************)
(* How a SJOIN combines the modes of two servers' copies of one channel    *)
(* (src/src/channel.c, m_sjoin).  The lower timestamp's modes replace the  *)
(* others; with equal timestamps each parameter has a rule of its own.  A  *)
(* timestamp of 0, which a server's +o or +h leaves behind, takes part in  *)
(* no comparison: the modes are merged and the result is 0 again.          *)
(* A mode is a record                                                      *)
(*   flags   the parameterless letters that are set                        *)
(*   limit   +l, 0 for none                                                *)
(*   key     +k, 0 for none; keys are numbered in strcmp order             *)
(*   rate    whether +j is set (MODE_JOINRATE)                             *)
(*   num, time   the parameters of +j                                      *)
(***************************************************************************)
EXTENDS Integers

CONSTANTS Letters, MaxLimit, MaxKey, MaxNum

ASSUME MergeAssumption == MaxLimit \in Nat /\ MaxKey \in Nat /\ MaxNum \in Nat

NoMode == [flags |-> {}, limit |-> 0, key |-> 0, rate |-> FALSE, num |-> 0, time |-> 0]

\* What set_mode stores and what channel_modes puts on the wire: +j with a
\* zero in it is "+j 0", and without +j both parameters are zero.
Modes ==
  {m \in [flags: SUBSET Letters, limit: 0..MaxLimit, key: 0..MaxKey,
          rate: BOOLEAN, num: 0..MaxNum, time: 0..MaxNum] :
     /\ m.num = 0 <=> m.time = 0
     /\ ~ m.rate => m.num = 0}

----------------------------------------------------------------------------
\* Mutant: the receiver's key always stays.
merge_key_ours(old, new) == IF old # 0 THEN old ELSE new

\* The strcmp-smaller key wins, any key beats none.
merge_key(old, new) ==
  IF old # 0 /\ new # 0 /\ new > old THEN old
  ELSE IF old # 0 /\ new = 0 THEN old
  ELSE new

merge_limit(old, new) == IF old > new THEN old ELSE new

\* Mutant: "0 wins" is forgotten.
incoming_rate_no_zero(old, new) ==
  \/ ~ old.rate
  \/ old.num # 0 /\ new.num > old.num
  \/ new.num = old.num /\ new.time < old.time

\* TRUE when the incoming +j parameters are kept: ours are not set, theirs
\* are "0", theirs allow more joins, or as many in less time.
incoming_rate_wins(old, new) ==
  \/ ~ old.rate
  \/ new.rate /\ new.num = 0
  \/ old.num # 0 /\ new.num > old.num
  \/ new.num = old.num /\ new.time < old.time

merge_mode(old, new) ==
  LET theirs == incoming_rate_wins(old, new)
  IN [flags |-> old.flags \cup new.flags,
      limit |-> merge_limit(old.limit, new.limit),
      key   |-> merge_key(old.key, new.key),
      rate  |-> old.rate \/ new.rate,
      num   |-> IF theirs THEN new.num ELSE old.num,
      time  |-> IF theirs THEN new.time ELSE old.time]

\* Timestamp a wins over b: both are set and a is smaller.
wins(a, b) == a # 0 /\ b # 0 /\ a < b

\* The modes a server that has (oldts, old) keeps when a SJOIN brings
\* (newts, new).
sjoin_mode(oldts, old, newts, new) ==
  IF wins(oldts, newts) THEN old
  ELSE IF wins(newts, oldts) THEN new
  ELSE merge_mode(old, new)

\* ... and the timestamp.
sjoin_ts(oldts, newts) ==
  IF newts = 0 \/ oldts = 0 THEN 0
  ELSE IF newts < oldts THEN newts ELSE oldts
============================================================================
