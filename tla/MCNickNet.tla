----------------------------- MODULE MCNickNet -----------------------------
(***************************************************************************)
(* Instances of NickNet: servers A - B - C in a line (or only A - B), a1   *)
(* and a2 clients of A, b1 of B, c1 of C.  a1 and b1 have one user name    *)
(* and host: a user whose old connection is still there.                   *)
(***************************************************************************)
EXTENDS NickNet

CONSTANTS A, B, C, a1, a2, b1, c1, x, y

MCHome  == [c \in Clients |-> IF c = b1 THEN B ELSE IF c = c1 THEN C ELSE A]
MCIdent == [c \in Clients |-> IF c = b1 THEN a1 ELSE c]
MCEdges == {{A, B}, {B, C}} \cap SUBSET Servers
MCHop   == [s \in Servers |-> [t \in Servers |-> IF {s, t} \in MCEdges \/ s = t THEN t ELSE B]]
============================================================================
