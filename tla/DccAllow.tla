------------------------------ MODULE DccAllow ------------------------------
(***************************************************************************)
(* DCCALLOW (src/src/s_user.c, remove_dcc_references of src/src/s_misc.c): *)
(* a client lists the clients whose files it accepts (DCC_LINK_ME), and    *)
(* each of these has a link back (DCC_LINK_REMOTE) in its own list, so     *)
(* that it can be taken from the lists of others when it exits.            *)
(***************************************************************************)
EXTENDS Common

CONSTANT MaxDccAllow    \* MAXDCCALLOW

ASSUME DccAssumption == MaxDccAllow \in Nat \ {0}

VARIABLES present,      \* the clients that are there
          opers,        \* those of them that are operators
          dccallow      \* dccallow[c]: the links of c, [to, me]

dccVars == <<present, opers, dccallow>>

Me(d)     == [to |-> d, me |-> TRUE]
Remote(d) == [to |-> d, me |-> FALSE]

\* The links of c for the clients it allows.
Mine(c) == {i \in DOMAIN dccallow[c] : dccallow[c][i].me}

\* add_dccallow.  The count is compared before the entry is looked at.
add_dccallow(c, d) ==
  /\ \/ Cardinality(Mine(c)) < MaxDccAllow
     \/ c \in opers
  /\ Me(d) \notin Range(dccallow[c])
  /\ dccallow' = [dccallow EXCEPT ![c] = <<Me(d)>> \o @, ![d] = <<Remote(c)>> \o @]

\* del_dccallow.
del_dccallow(c, d) ==
  /\ Me(d) \in Range(dccallow[c])
  /\ dccallow' = [dccallow EXCEPT ![c] = RemoveFirst(@, Me(d)), ![d] = RemoveFirst(@, Remote(c))]

\* m_dccallow.
m_dccallow(c, d) ==
  /\ c \in present /\ d \in present /\ c # d
  /\ add_dccallow(c, d) \/ del_dccallow(c, d)
  /\ UNCHANGED <<present, opers>>

\* Mutant: links of the same kind are taken for the opposite ones.
remove_dcc_same_kind(c) ==
  [d \in Clients |->
     IF d = c THEN <<>>
     ELSE Keep(dccallow[d], {l \in Range(dccallow[d]) :
                  ~ (l.to = c /\ [to |-> d, me |-> l.me] \in Range(dccallow[c]))})]

\* remove_dcc_references: for every link of c the opposite one goes.
remove_dcc_references(c) ==
  [d \in Clients |->
     IF d = c THEN <<>>
     ELSE Keep(dccallow[d], {l \in Range(dccallow[d]) :
                  ~ (l.to = c /\ [to |-> d, me |-> ~ l.me] \in Range(dccallow[c]))})]

DccExit(c) == /\ c \in present /\ dccallow' = remove_dcc_references(c)
              /\ present' = present \ {c} /\ opers' = opers \ {c}

DccArrive(c) == /\ c \notin present /\ present' = present \cup {c}
                /\ UNCHANGED <<opers, dccallow>>

\* m_oper; m_umode -o.  The list may be longer than the limit afterwards.
DccOper(c) == /\ c \in present \ opers /\ opers' = opers \cup {c}
              /\ UNCHANGED <<present, dccallow>>
DccDeop(c) == /\ c \in opers /\ opers' = opers \ {c} /\ UNCHANGED <<present, dccallow>>

DccInit == present = {} /\ opers = {} /\ dccallow = [c \in Clients |-> <<>>]

DccNext == \/ \E c, d \in Clients : m_dccallow(c, d)
           \/ \E c \in Clients : DccExit(c) \/ DccArrive(c) \/ DccOper(c) \/ DccDeop(c)

DccSpec == DccInit /\ [][DccNext]_dccVars

----------------------------------------------------------------------------
(* Properties.                                                             *)

\* Every link has its opposite at the other client, once, and points to a
\* client that is there: allow_dcc and m_dccallow's list read no freed client.
DccMirror ==
  \A c \in Clients :
    /\ IsInjective(dccallow[c])
    /\ \A i \in DOMAIN dccallow[c] :
         LET l == dccallow[c][i]
         IN l.to \in present /\ [to |-> c, me |-> ~ l.me] \in Range(dccallow[l.to])

============================================================================
