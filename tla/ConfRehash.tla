----------------------------- MODULE ConfRehash -----------------------------
(***************************************************************************)
(* Connection classes, connect, allow and oper blocks, the connections     *)
(* that use them, and REHASH (src/src/s_conf.c, with check_server_init,    *)
(* connect_server and close_connection of src/src/s_bsd.c, m_server_estab  *)
(* and do_server_estab of src/src/m_server.c, m_oper and m_umode of        *)
(* src/src/s_user.c).  A rehash replaces the configuration while clients,  *)
(* operators and servers point into it: what is still used is only marked  *)
(* for removal, and goes with its last user.                               *)
(*                                                                         *)
(* A structure is identified by its name (an allow block, which has none,  *)
(* by its mask and its class); one that was freed is None.                 *)
(***************************************************************************)
EXTENDS Common

CONSTANTS
  Links,        \* connections of this server, users or servers
  ClassNames, Default,
  MaxLinks,     \* MaxLinks[k]: maxlinks of class k in the file, when it is there
  Connects,     \* names of connect blocks: the server each is for
  AllowMasks,   \* masks of allow blocks
  Opers,        \* names of oper blocks
  Files,        \* configuration files that are loaded
  Negotiate,    \* HAVE_ENCRYPTION_ON: links may negotiate keys first
  MaxRefs       \* bound: references that a rehash may leave a class with

AllowBlocks == AllowMasks \X ClassNames

\* A configuration file: its classes, and the blocks with their classes.
AnyFile ==
  [classes : {S \in SUBSET ClassNames : Default \in S},
   connects : [Connects -> ClassNames \cup {None}],
   allows : SUBSET AllowBlocks,
   opers : [Opers -> ClassNames \cup {None}]]

ASSUME ConfAssumption ==
  /\ IsFiniteSet(Links)                                 \* MAXCONNECTIONS
  /\ IsFiniteSet(ClassNames) /\ IsFiniteSet(Connects)   \* what the files loaded name
  /\ IsFiniteSet(AllowMasks) /\ IsFiniteSet(Opers)
  /\ Files \subseteq AnyFile
  /\ Default \in ClassNames /\ None \notin ClassNames \cup Links \cup Connects \cup Opers
  /\ MaxLinks \in [ClassNames -> Nat \ {0}] /\ Negotiate \in BOOLEAN /\ MaxRefs \in Nat

VARIABLES
  class,      \* class[k]: its maxlinks (-1: marked), refs and links, or None
  connects,   \* connects[b]: its class, legal and acpt, or None
  allows,     \* allows[<<m, k>>]: its legal and clients, or None
  opers,      \* opers[o]: its class, legal and opers, or None
  conn,       \* conn[c]: what connection c is, and the blocks it points to
  shared      \* blocks that two links had at one time (history)

confVars == <<class, connects, allows, opers, conn, shared>>

ClassRecs   == [max : {-1} \cup {MaxLinks[k] : k \in ClassNames}, refs : Nat, links : Nat]
ConnectRecs == [class : ClassNames, legal : {-1, 1}, acpt : Links \cup {None}]
AllowRecs   == [legal : {-1, 1}, clients : Nat]
OperRecs    == [class : ClassNames, legal : {-1, 1}, opers : Nat]
ConnRecs    == [st : {"none", "unknown", "person", "connecting", "nego", "server"},
                class : ClassNames \cup {None}, allow : AllowBlocks \cup {None},
                oper : Opers \cup {None}, aconn : Connects \cup {None}]

ASSUME ConfNull ==
  /\ None \notin ClassRecs /\ None \notin ConnectRecs /\ None \notin AllowRecs
  /\ None \notin OperRecs /\ None \notin AllowBlocks

Closed == [st |-> "none", class |-> None, allow |-> None, oper |-> None, aconn |-> None]

----------------------------------------------------------------------------
(* Classes.                                                                *)

One(b) == IF b THEN 1 ELSE 0

\* expire_class, for every class: a marked one nobody refers to is freed.
expire_class(cl) == [k \in ClassNames |-> IF cl[k] # None /\ cl[k].max = -1 /\ cl[k].refs = 0
                                         THEN None ELSE cl[k]]

\* The counts of the classes change: dr[k] references, dl[k] links.
counted(cl, dr, dl) ==
  expire_class([k \in ClassNames |->
                  IF cl[k] = None THEN None
                  ELSE [cl[k] EXCEPT !.refs = @ + dr[k], !.links = @ + dl[k]]])

\* set_effective_class: from class old (or None) to class new.
set_effective_class(cl, old, new) ==
  LET d == [k \in ClassNames |-> One(k = new) - One(k = old)] IN counted(cl, d, d)

----------------------------------------------------------------------------
(* Connections.                                                            *)

\* add_connection.
accept(c) ==
  /\ conn[c].st = "none"
  /\ conn' = [conn EXCEPT ![c] = [Closed EXCEPT !.st = "unknown"]]
  /\ UNCHANGED <<class, connects, allows, opers, shared>>

\* register_user: attach_Iline finds a block that is not marked and whose class
\* has room; the client stays (set_effective_class), or is turned away by a
\* later check and exits.
register_user(c, a) ==
  /\ conn[c].st = "unknown" /\ allows[a] # None /\ allows[a].legal # -1
  /\ class[a[2]].links < class[a[2]].max
  /\ conn' = [conn EXCEPT ![c] = [Closed EXCEPT !.st = "person", !.class = a[2], !.allow = a]]
  /\ allows' = [allows EXCEPT ![a].clients = @ + 1]
  /\ class' = set_effective_class(class, None, a[2])
  /\ UNCHANGED <<connects, opers, shared>>

\* m_oper: a user who is no operator gives the password of a block that is not
\* marked.
m_oper(c, o) ==
  /\ conn[c].st = "person" /\ conn[c].oper = None
  /\ opers[o] # None /\ opers[o].legal # -1
  /\ conn' = [conn EXCEPT ![c] = [conn[c] EXCEPT !.oper = o, !.class = opers[o].class]]
  /\ opers' = [opers EXCEPT ![o].opers = @ + 1]
  /\ class' = set_effective_class(class, conn[c].class, opers[o].class)
  /\ UNCHANGED <<connects, allows, shared>>

\* Mutant: the block still counts the user.
m_umode_keeps(c) ==
  /\ conn[c].oper # None
  /\ conn' = [conn EXCEPT ![c] = [conn[c] EXCEPT !.oper = None, !.class = conn[c].allow[2]]]
  /\ class' = set_effective_class(class, conn[c].class, conn[c].allow[2])
  /\ UNCHANGED <<connects, allows, opers, shared>>

\* m_umode: an operator takes off +o or +O.  A marked block stays until the next
\* rehash.
m_umode(c) ==
  /\ conn[c].oper # None
  /\ conn' = [conn EXCEPT ![c] = [conn[c] EXCEPT !.oper = None, !.class = conn[c].allow[2]]]
  /\ opers' = [opers EXCEPT ![conn[c].oper].opers = @ - 1]
  /\ class' = set_effective_class(class, conn[c].class, conn[c].allow[2])
  /\ UNCHANGED <<connects, allows, shared>>

\* connect_server: a connection that is not established yet points to the block,
\* the block not to it.
connect_server(c, b) ==
  /\ conn[c].st = "none" /\ connects[b] # None
  /\ \A d \in Links : ~ (conn[d].st = "server" /\ conn[d].aconn = b)
  /\ conn' = [conn EXCEPT ![c] = [Closed EXCEPT !.st = "connecting", !.aconn = b]]
  /\ UNCHANGED <<class, connects, allows, opers, shared>>

\* A linked server and its block.  (What is done through a pointer to a block that
\* was freed is left out: see ConfPointers.)
Holds(c) == conn[c].st = "server" /\ connects[conn[c].aconn] # None

\* clear_conflinks: a marked block goes with its last user.
GoneConnect(c) == Holds(c) /\ connects[conn[c].aconn].legal = -1
GoneAllow(c) == /\ conn[c].allow # None /\ allows[conn[c].allow].legal = -1
                  /\ allows[conn[c].allow].clients <= 1
GoneOper(c) == /\ conn[c].oper # None /\ opers[conn[c].oper].legal = -1
                  /\ opers[conn[c].oper].opers <= 1

\* clear_conflinks.  A freed block drops its reference to its class.  A server that
\* is not linked yet leaves acpt as it is.
clear_conflinks(c) ==
  LET x == conn[c]
  IN /\ connects' = IF Holds(c)
                    THEN [connects EXCEPT ![x.aconn] =
                            IF GoneConnect(c) THEN None ELSE [connects[x.aconn] EXCEPT !.acpt = None]]
                    ELSE connects
     /\ allows' = IF x.allow # None
                  THEN [allows EXCEPT ![x.allow] =
                          IF GoneAllow(c) THEN None ELSE [allows[x.allow] EXCEPT !.clients = @ - 1]]
                  ELSE allows
     /\ opers' = IF x.oper # None
                 THEN [opers EXCEPT ![x.oper] =
                         IF GoneOper(c) THEN None ELSE [opers[x.oper] EXCEPT !.opers = @ - 1]]
                 ELSE opers
     /\ class' = counted(class,
          [k \in ClassNames |->
             - One(k = x.class)
             - One(GoneConnect(c) /\ k = connects[x.aconn].class)
             - One(GoneAllow(c) /\ k = x.allow[2])
             - One(GoneOper(c) /\ k = opers[x.oper].class)],
          [k \in ClassNames |-> - One(k = x.class)])

exit_client(c) ==
  /\ conn[c].st # "none" /\ clear_conflinks(c)
  /\ conn' = [conn EXCEPT ![c] = Closed] /\ UNCHANGED shared

----------------------------------------------------------------------------
(* Servers.                                                                *)

Linked(b) == {d \in Links : conn[d].st = "server" /\ conn[d].aconn = b}

Claimed(b) == \E d \in Links : conn[d].st \in {"nego", "server"} /\ conn[d].aconn = b

\* m_server: check_server_init finds the block by the name that is given, marked
\* or not, and takes it; m_server_estab turns the link away (it then exits), or
\* negotiates keys, or establishes it.
m_server(c, b) ==
  /\ conn[c].st \in {"unknown", "connecting"} /\ conn[c].class = None
  /\ connects[b] # None
  /\ connects' = [connects EXCEPT ![b].acpt = c]
  /\ \/ /\ conn' = [conn EXCEPT ![c] = Closed] /\ UNCHANGED <<class, shared>>
     \/ /\ Linked(b) = {} /\ Negotiate
        /\ conn' = [conn EXCEPT ![c] = [Closed EXCEPT !.st = "nego", !.class = Default, !.aconn = b]]
        /\ shared' = IF Claimed(b) THEN shared \cup {b} ELSE shared
        /\ class' = set_effective_class(class, None, Default)
     \/ /\ Linked(b) = {}
        /\ conn' = [conn EXCEPT ![c] = [Closed EXCEPT !.st = "server", !.aconn = b,
                                                     !.class = connects[b].class]]
        /\ shared' = IF Claimed(b) THEN shared \cup {b} ELSE shared
        /\ class' = set_effective_class(class, None, connects[b].class)
  /\ UNCHANGED <<allows, opers>>

\* m_dkey: keys are agreed, do_server_estab establishes the link.  When another
\* link to that server was first, the younger of the two exits.
m_dkey(c) ==
  LET b == conn[c].aconn
      up == [conn[c] EXCEPT !.st = "server", !.class = connects[b].class]
      rivals == Linked(b)
  IN /\ conn[c].st = "nego" /\ connects[b] # None
     /\ IF rivals = {}
        THEN /\ conn' = [conn EXCEPT ![c] = up]
             /\ class' = set_effective_class(class, conn[c].class, up.class)
             /\ UNCHANGED connects
        ELSE \E d \in rivals, loser \in {"c", "d"} :
               /\ conn' = IF loser = "c" THEN [conn EXCEPT ![c] = Closed]
                          ELSE [conn EXCEPT ![c] = up, ![d] = Closed]
               /\ connects' = [connects EXCEPT ![b] = IF connects[b].legal = -1 THEN None
                                                     ELSE [connects[b] EXCEPT !.acpt = None]]
               /\ class' = counted(class,
                    [k \in ClassNames |->
                       One(loser = "d" /\ k = up.class) - One(k = conn[c].class)
                       - One(loser = "d" /\ k = conn[d].class)
                       - One(connects[b].legal = -1 /\ k = connects[b].class)],
                    [k \in ClassNames |->
                       One(loser = "d" /\ k = up.class) - One(k = conn[c].class)
                       - One(loser = "d" /\ k = conn[d].class)])
     /\ UNCHANGED <<allows, opers, shared>>

----------------------------------------------------------------------------
(* Rehash.                                                                 *)

\* finishconf, set_classes: every block's class is in the file.
Complete(f) ==
  /\ \A b \in Connects : f.connects[b] \in f.classes \cup {None}
  /\ \A a \in f.allows : a[2] \in f.classes
  /\ \A o \in Opers : f.opers[o] \in f.classes \cup {None}

\* merge_classes, up to expire_class: old classes are marked, those of the file
\* get its values or are added.
merge_classes(f) ==
  [k \in ClassNames |->
     CASE k \in f.classes /\ class[k] = None -> [max |-> MaxLinks[k], refs |-> 0, links |-> 0]
       [] k \in f.classes /\ class[k] # None -> [class[k] EXCEPT !.max = MaxLinks[k]]
       [] k \notin f.classes /\ class[k] # None -> [class[k] EXCEPT !.max = -1]
       [] OTHER -> None]

\* Mutant: a block that is used is freed.
merge_connects_prunes(f) ==
  [b \in Connects |->
     IF f.connects[b] = None THEN None
     ELSE [class |-> f.connects[b], legal |-> 1,
           acpt |-> IF connects[b] = None THEN None ELSE connects[b].acpt]]

\* merge_connects: blocks of the file are taken over or added, others are freed
\* unless a server uses them.
merge_connects(f) ==
  [b \in Connects |->
     IF f.connects[b] # None
     THEN [class |-> f.connects[b], legal |-> 1,
           acpt |-> IF connects[b] = None THEN None ELSE connects[b].acpt]
     ELSE IF connects[b] = None \/ connects[b].acpt = None THEN None
     ELSE [connects[b] EXCEPT !.legal = -1]]

\* merge_allows: of two equal blocks the old one stays.
merge_allows(f) ==
  [a \in AllowBlocks |->
     IF a \in f.allows
     THEN [legal |-> 1, clients |-> IF allows[a] = None THEN 0 ELSE allows[a].clients]
     ELSE IF allows[a] = None \/ allows[a].clients <= 0 THEN None
     ELSE [allows[a] EXCEPT !.legal = -1]]

\* merge_opers.
merge_opers(f) ==
  [o \in Opers |->
     IF f.opers[o] # None
     THEN [class |-> f.opers[o], legal |-> 1,
           opers |-> IF opers[o] = None THEN 0 ELSE opers[o].opers]
     ELSE IF opers[o] = None \/ opers[o].opers <= 0 THEN None
     ELSE [opers[o] EXCEPT !.legal = -1]]

\* Blocks that refer to class k.
ConnectRefs(t, k) == {b \in Connects : t[b] # None /\ t[b].class = k}
AllowRefs(t, k) == {a \in AllowBlocks : t[a] # None /\ a[2] = k}
OperRefs(t, k) == {o \in Opers : t[o] # None /\ t[o].class = k}

\* The references that merging takes and drops.  An oper block that is freed
\* keeps its reference to its class.
merged_refs(k, conns, als, ops) ==
    Cardinality(ConnectRefs(conns, k)) - Cardinality(ConnectRefs(connects, k))
  + Cardinality(AllowRefs(als, k)) - Cardinality(AllowRefs(allows, k))
  + Cardinality(OperRefs(ops, k))
  - Cardinality({o \in OperRefs(opers, k) : ops[o] # None})

\* merge_confs.
merge_confs(f) ==
  LET conns == merge_connects(f)
      als   == merge_allows(f)
      ops   == merge_opers(f)
  IN /\ connects' = conns /\ allows' = als /\ opers' = ops
     /\ class' = counted(merge_classes(f), [k \in ClassNames |-> merged_refs(k, conns, als, ops)],
                         [k \in ClassNames |-> 0])

\* rehash: a file that is not complete changes nothing (clear_newconfs).
rehash_conf(f) ==
  /\ IF Complete(f) THEN merge_confs(f) ELSE UNCHANGED <<class, connects, allows, opers>>
  /\ \A k \in ClassNames : class'[k] # None => class'[k].refs <= MaxRefs
  /\ UNCHANGED <<conn, shared>>

----------------------------------------------------------------------------
ConfInit ==
  /\ class = [k \in ClassNames |-> IF k = Default THEN [max |-> MaxLinks[k], refs |-> 0, links |-> 0]
                                  ELSE None]
  /\ connects = [b \in Connects |-> None]
  /\ allows = [a \in AllowBlocks |-> None]
  /\ opers = [o \in Opers |-> None]
  /\ conn = [c \in Links |-> Closed] /\ shared = {}

ConfNext ==
  \/ \E c \in Links : accept(c) \/ m_umode(c) \/ exit_client(c) \/ m_dkey(c)
  \/ \E c \in Links, a \in AllowBlocks : register_user(c, a)
  \/ \E c \in Links, o \in Opers : m_oper(c, o)
  \/ \E c \in Links, b \in Connects : connect_server(c, b) \/ m_server(c, b)
  \/ \E f \in Files : rehash_conf(f)

ConfSpec == ConfInit /\ [][ConfNext]_confVars

----------------------------------------------------------------------------
\* The type invariant.
ConfTypeOK ==
  /\ class \in [ClassNames -> ClassRecs \cup {None}]
  /\ connects \in [Connects -> ConnectRecs \cup {None}]
  /\ allows \in [AllowBlocks -> AllowRecs \cup {None}]
  /\ opers \in [Opers -> OperRecs \cup {None}] /\ conn \in [Links -> ConnRecs]
  /\ shared \subseteq Connects

\* Across rehashes nobody points into freed configuration (clear_conflinks,
\* set_effective_class, merge_confs): the classes of connections and of blocks, the
\* allow and oper blocks of users, and the connect block of a server exist.  The
\* last is so unless two links of that server were up at once, one of them
\* negotiating keys: the one that exits then resets acpt for the one that stays.
ConfPointers ==
  /\ \A c \in Links :
       /\ conn[c].class # None => class[conn[c].class] # None
       /\ conn[c].allow # None => allows[conn[c].allow] # None
       /\ conn[c].oper # None => opers[conn[c].oper] # None
       /\ conn[c].st \in {"nego", "server"} /\ conn[c].aconn \notin shared
            => connects[conn[c].aconn] # None
  /\ \A b \in Connects : connects[b] # None => class[connects[b].class] # None
  /\ \A a \in AllowBlocks : allows[a] # None => class[a[2]] # None
  /\ \A o \in Opers : opers[o] # None => class[opers[o].class] # None

\* A class's links, an allow block's clients and an oper block's opers, which admit
\* clients and free what is marked, count the connections that point to it
\* (set_effective_class, attach_iline, m_oper, m_umode, clear_conflinks); and an
\* allow block that the file no longer has goes with its last client
\* (clear_conflinks, merge_allows).
ConfCounts ==
  /\ ConfTypeOK
  /\ \A k \in ClassNames : class[k] # None =>
       class[k].links = Cardinality({c \in Links : conn[c].class = k})
  /\ \A a \in AllowBlocks : allows[a] # None =>
       /\ allows[a].clients = Cardinality({c \in Links : conn[c].allow = a})
       /\ allows[a].legal = -1 => \E c \in Links : conn[c].allow = a
  /\ \A o \in Opers : opers[o] # None =>
       opers[o].opers = Cardinality({c \in Links : conn[c].oper = o})

\* Both: no pointer into freed configuration, and counters that free in time.
ConfRight == ConfPointers /\ ConfCounts

=============================================================================
