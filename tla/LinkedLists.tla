---------------------------- MODULE LinkedLists ----------------------------
(***************************************************************************)
(* The linked lists of the server as sequences: SLink, DLink and the lists *)
(* threaded through structures.  One entry is unlinked by RemoveFirst of   *)
(* SequencesExt, several in one walk by Keep.                              *)
(***************************************************************************)
EXTENDS Integers, FiniteSets, Sequences, SequencesExt

\* What a walk through list s leaves that unlinks every entry not in K.
Keep(s, K) ==
  LET kept[i \in 0 .. Len(s)] ==
        IF i = 0 THEN << >>
        ELSE IF s[i] \in K THEN Append(kept[i - 1], s[i]) ELSE kept[i - 1]
  IN kept[Len(s)]

\* The sum of the numbers in s.
Total(s) ==
  LET sum[i \in 0 .. Len(s)] == IF i = 0 THEN 0 ELSE sum[i - 1] + s[i]
  IN sum[Len(s)]
============================================================================
