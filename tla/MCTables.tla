------------------------------ MODULE MCTables ------------------------------
(***************************************************************************)
(* The tables that clients of one server are entered in: nick history,     *)
(* WATCH, DCCALLOW and channels with their invitations; and the hooks of   *)
(* modules.  They share no state, so one run explores them side by side: a *)
(* behaviour is one of `part', the other tables stay as they begin.        *)
(***************************************************************************)
EXTENDS Whowas, Watch, DccAllow, Channel, Hooks

CONSTANTS c1, c2, c3, n1, n2, n3, k1, k2, d1, d2, g1, g2, g3

VARIABLE part

MCHashOf == [n \in Nicks |-> IF n = n3 THEN "q" ELSE "p"]

TablesInit ==
  /\ part \in {"whowas", "watch", "dccallow", "channel", "hooks"}
  /\ WhowasInit /\ WatchInit /\ DccInit /\ Init /\ HooksInit

TablesNext ==
  /\ UNCHANGED part
  /\ IF part = "whowas" THEN WhowasNext ELSE UNCHANGED whowasVars
  /\ IF part = "watch" THEN WatchNext ELSE UNCHANGED watchVars
  /\ IF part = "dccallow" THEN DccNext ELSE UNCHANGED dccVars
  /\ IF part = "channel" THEN Next ELSE UNCHANGED vars
  /\ IF part = "hooks" THEN HooksNext ELSE UNCHANGED hookVars

tablesVars == <<part, whowasVars, watchVars, dccVars, vars, hookVars>>

TablesSpec == TablesInit /\ [][TablesNext]_tablesVars
============================================================================
