------------------------------- MODULE Common -------------------------------
(***************************************************************************)
(* What the modules about one server's tables share: the client structures *)
(* (struct Client; a freed one may be handed out again), the nicks that    *)
(* clients can have, a null pointer, and the clock's bound.                *)
(***************************************************************************)
EXTENDS LinkedLists

CONSTANTS
  None,        \* a null pointer, an empty name
  Clients,     \* the client structures
  Nicks,       \* the nicks clients use
  MaxClock     \* bound: the clock

ASSUME CommonAssumption ==
  /\ None \notin Clients /\ None \notin Nicks
  /\ MaxClock \in Nat
============================================================================
