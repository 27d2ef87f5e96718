---------------------------- MODULE BurstMerge ----------------------------
(***************************************************************************)
(* Servers that hold copies of one channel and burst to each other in any  *)
(* order, a pair at a time: each sends its timestamp and modes and applies *)
(* the other's (send_channel_modes on one side, m_sjoin on the other).     *)
(***************************************************************************)
EXTENDS SjoinMerge

CONSTANTS Servers,
          StartTS,     \* the timestamps the copies start with, 0 for none
          StartModes   \* ... and their modes

ASSUME StartAssumption == StartTS \subseteq Nat /\ StartModes \subseteq Modes

VARIABLE copy          \* server |-> [ts, mode]

Copies == [ts: Nat, mode: Modes]

\* What a server that holds c keeps after a SJOIN that carries d.
Apply(c, d) == [ts   |-> sjoin_ts(c.ts, d.ts),
                mode |-> sjoin_mode(c.ts, c.mode, d.ts, d.mode)]

BurstInit == copy \in [Servers -> [ts: StartTS, mode: StartModes]]

Exchange(s, t) ==
  /\ s # t
  /\ copy' = [copy EXCEPT ![s] = Apply(copy[s], copy[t]), ![t] = Apply(copy[t], copy[s])]

BurstNext == \E s, t \in Servers : Exchange(s, t)

BurstSpec == BurstInit /\ [][BurstNext]_copy

----------------------------------------------------------------------------
\* A merge never makes an ill-formed mode, such as a +j that counts joins
\* over no time.
ModesWellFormed == \A s \in Servers : copy[s] \in Copies

\* A copy without a timestamp among T meets copies with different ones: it merges
\* with whichever comes first, and with one that would have lost to another too.
Blasted(T) == 0 \in T /\ \E a, b \in T : wins(a, b)

\* The order in which three copies meet makes no difference to the result,
\* so servers that burst along different paths of the network agree; except that
\* a copy whose timestamp was blasted (channel.c:1739, 1843) takes the modes of a
\* newer copy when it meets that one before the older one, and the timestamp alone
\* is the same then.
OrderIrrelevant ==
  \A c, d, e \in {copy[s] : s \in Servers} :
    LET l == Apply(Apply(c, d), e)
        r == Apply(c, Apply(d, e))
    IN l.ts = r.ts /\ (Blasted({c.ts, d.ts, e.ts}) \/ l.mode = r.mode)

\* The rules of m_sjoin for one parameter each make, together, well-formed
\* modes that do not depend on the order of bursts, but for blasted timestamps.
MergeLaws == ModesWellFormed /\ OrderIrrelevant

\* Two servers that burst to each other end with the same copy: neither
\* side's own modes are privileged ("whichever TS is smaller wins",
\* channel.c:4731, and the merge rules below it).
BurstAgrees == [][\E s, t \in Servers : s # t /\ copy'[s] = copy'[t]]_copy
============================================================================
