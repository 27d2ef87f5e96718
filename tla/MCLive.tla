------------------------------- MODULE MCLive -------------------------------
(***************************************************************************)
(* What waits must end: the copies of a channel on two servers settle, a   *)
(* lookup in the resolver comes back and a client's line is parsed.  They  *)
(* share no state, so one run explores them side by side: a behaviour is   *)
(* one of `part', the others stay as they begin.                           *)
(***************************************************************************)
EXTENDS MCNetChannel, Resolver, RecvQueue

CONSTANTS c1, c2, b1, i1, i2, i3

VARIABLE part

\* Every caller of the resolver has an address of its own.
MCAddr == [a \in Callers \cup Confs |-> a]

LiveInit == /\ part \in {"net", "resolver", "recvq"}
            /\ Init /\ ResolverInit /\ RecvInit

LiveNext == /\ UNCHANGED part
            /\ IF part = "net" THEN Next ELSE UNCHANGED vars
            /\ IF part = "resolver" THEN ResolverNext ELSE UNCHANGED resolverVars
            /\ IF part = "recvq" THEN RecvNext ELSE UNCHANGED recvVars

\* None of the fair actions is enabled as its part begins, so the fairness of
\* a part asks nothing of the others.
LiveFairness == /\ ResolverFairness /\ RecvFairness
                /\ \A s, t \in Nodes : WF_vars(receive(s, t))

LiveSpec == /\ LiveInit /\ [][LiveNext]_<<part, vars, resolverVars, recvVars>>
            /\ LiveFairness
============================================================================
