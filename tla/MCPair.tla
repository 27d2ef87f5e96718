------------------------------- MODULE MCPair -------------------------------
(***************************************************************************)
(* A pair of servers, in three scenes: the stream between them, whose form *)
(* they negotiate ("stream"), the clients and nicks that they tell each    *)
(* other of ("nicks"), and the modes of a user ("umodes").                 *)
(***************************************************************************)
EXTENDS MCNickNet, LinkStream, Umodes

CONSTANTS o1, o2

VARIABLE scene

\* The blocks of an IRC operator and of a local services administrator.
MCOpflags == [b \in OperBlocks |-> IF b = o1 THEN {"global"} ELSE {"sadmin"}]

PairInit == /\ scene \in {"nicks", "stream", "umodes"}
            /\ Init /\ UmodesInit
            /\ LinkInit /\ (scene # "stream" => want = [e \in Sides |-> {}])

PairNext == /\ UNCHANGED scene
            /\ IF scene = "nicks" THEN Next ELSE UNCHANGED vars
            /\ IF scene = "stream" THEN LinkNext ELSE UNCHANGED linkVars
            /\ IF scene = "umodes" THEN UmodesNext ELSE UNCHANGED umodeVars

\* No fair action of one scene is enabled in the others.
PairSpec == /\ PairInit /\ [][PairNext]_<<scene, vars, linkVars, umodeVars>>
            /\ (\A e \in Wires : WF_vars(Receive(e[1], e[2]))) /\ LinkFairness
=============================================================================
