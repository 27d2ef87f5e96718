---------------------------- MODULE MCNetChannel ----------------------------
(* NetChannel.tla for TLC: two linked servers, and three in a line. *)
EXTENDS NetChannel, TLC

CONSTANTS u1, u2, u3

Two == {"A", "B"}
TwoHop == [s \in Two |-> [t \in Two |-> t]]
TwoEdges == {{"A", "B"}}
TwoHome == [u \in Users |-> IF u = u2 THEN "B" ELSE "A"]

Three == {"A", "B", "C"}
ThreeHop == [s \in Three |-> [t \in Three |-> IF s = "B" \/ s = t THEN t ELSE "B"]]
ThreeEdges == {{"A", "B"}, {"B", "C"}}
ThreeHome == (u1 :> "A" @@ u2 :> "B" @@ u3 :> "C")
=============================================================================
