------------------------------ MODULE MCThree -------------------------------
(***************************************************************************)
(* Three servers, in three scenes.  They are linked in a line, and three   *)
(* clients contend for one nick, leave and are killed ("owners"), or a     *)
(* KILL chases a client through its nick changes ("chase"); or they link,  *)
(* along routes that close a cycle, and split ("tree").                    *)
(***************************************************************************)
EXTENDS MCNickNet, ServerTree

VARIABLE scene

Contend ==
  /\ scene = "owners"
  /\ \/ \E c \in Clients : register_user(c) \/ m_quit(c) \/ m_nick_first(c, x)
     \/ \E s \in Servers : m_kill_local(s, x)
     \/ \E e \in Wires : Receive(e[1], e[2])
     \/ Tick
  /\ given' <= 2

Chase ==
  /\ scene = "chase"
  /\ \/ register_user(b1) \/ m_quit(b1)
     \/ \E n \in Nicks : m_nick_first(b1, n) \/ m_nick_unregistered(b1, n) \/ m_nick_local(b1, n)
     \/ \E w, n \in Nicks : m_svsnick_collide(b1, w, n)
     \/ \E w, n \in Nicks, t \in 1..now : m_svsnick(b1, w, n, t)
     \/ \E s \in Servers, n \in Nicks : m_kill_local(s, n)
     \/ \E e \in Wires : Receive(e[1], e[2])
     \/ Tick
  /\ now' <= 2

\* A ring of routes; one of the three links negotiates keys.
MCRoutes    == {<<A, B>>, <<B, C>>, <<C, A>>}
MCNegotiate == {{A, C}}

ThreeInit == Init /\ TreeInit /\ scene \in {"owners", "chase", "tree"}

ThreeNext ==
  /\ UNCHANGED scene
  /\ \/ (Contend \/ Chase) /\ UNCHANGED treeVars
     \/ scene = "tree" /\ TreeNext /\ UNCHANGED vars

ThreeSpec == ThreeInit /\ [][ThreeNext]_<<vars, treeVars, scene>> /\ TreeFairness

\* "this keeps servers in synch when nick change and kill collide" (m_kill):
\* a KILL that meets the nick change of its victim ends the victim everywhere
\* or nowhere, if it meets it within KILLCHASETIMELIMIT.
Chased == scene = "chase" => ChaseInSynch
============================================================================
