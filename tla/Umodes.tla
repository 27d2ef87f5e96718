------------------------------- MODULE Umodes -------------------------------
(***************************************************************************)
(* User modes and operators: m_oper, m_umode, send_umode_out, send_lusers  *)
(* (s_user.c, s_serv.c), m_svsmode and m_svsnick of m_services.c, the nick *)
(* changes of m_nick.c, and what remove_client_from_list takes off the     *)
(* counters.  Two servers: the users are on the first, services behind the *)
(* second.  MODE carries what changed, so each server keeps a copy of its  *)
(* own; services change modes and nicks on their side at once.             *)
(*                                                                         *)
(* A nick is the number of times its user has changed it; SVSMODE names a  *)
(* nick (and its timestamp) and is dropped where nobody has it any more.   *)
(* Of the modes that only operators have there is one, `a'.                *)
(***************************************************************************)
EXTENDS Integers, FiniteSets, SequencesExt

CONSTANTS
  Chatters,    \* the users of the first server
  Nobody,      \* a null pointer
  OperBlocks,  \* operator blocks of the first server's configuration
  opflags,     \* opflags[b]: the flags of block b, of "global" and "sadmin"
  MaxSteps     \* bound: commands

ASSUME UmodesAssumption ==
  /\ IsFiniteSet(Chatters)                              \* MAXCONNECTIONS
  /\ Nobody \notin OperBlocks /\ MaxSteps \in Nat
  /\ opflags \in [OperBlocks -> SUBSET {"global", "sadmin"}]

VARIABLES
  known,       \* known[s][c]: [nick, umode] of the user in structure c, or Nobody
  oper,        \* oper[c]: user->oper on the first server
  attached,    \* attached[b]: aoper->opers
  operList,    \* oper_list of the first server
  counts,      \* counts[s]: Count.oper and Count.invisi
  toward,      \* toward[s]: messages on their way to server s
  past         \* history: [steps, granted, crossed, drifted]

umodeVars == <<known, oper, attached, operList, counts, toward, past>>

\* Of the letters: the operator's two, one for all users, one of operators, one of services.
Letters == {"o", "O", "i", "a", "r"}
People  == [nick : Nat, umode : SUBSET Letters]

ASSUME UmodesNull == Nobody \notin People

Both   == {1, 2}
Far(s) == 3 - s
OperModes == {"a"}
IsAnOper(um) == um \cap {"o", "O"} # {}
Person(s, c) == known[s][c] # Nobody

\* A change is the letters to add and to delete, as MODE or SVSMODE says them.
Applied(um, ch) == (um \cup ch.add) \ ch.del
Diff(old, new) == [add |-> new \ old, del |-> old \ new]

\* Mutant: who is no operator any more stays on the list.
without_oper_stays(l, c) == l
without_oper(l, c) == RemoveFirst(l, c)

\* How the counters move when a user's modes go from old to new.
Step(test(_), old, new) == (IF test(new) THEN 1 ELSE 0) - (IF test(old) THEN 1 ELSE 0)
Invisible(um) == "i" \in um
tallied(n, old, new) == [oper   |-> n.oper + Step(IsAnOper, old, new),
                         invisi |-> n.invisi + Step(Invisible, old, new)]

Queue(s, m) == [toward EXCEPT ![s] = Append(@, m)]
\* A command is one more step; it crosses what is under way to its own side
\* about the same user.
Command(c, s) == [past EXCEPT !.steps = @ + 1,
                              !.crossed = IF \E i \in DOMAIN toward[s] : toward[s][i].user = c
                                          THEN @ \cup {c} ELSE @]
MayCommand == past.steps < MaxSteps

----------------------------------------------------------------------------
(* Users come, go and change nicks.                                        *)

\* register_user and the NICK that introduces the user; m_nick counts the
\* operators among the letters it gets.
register_person(c, um) ==
  /\ MayCommand /\ \A s \in Both : ~ Person(s, c)
  /\ \A s \in Both : \A i \in DOMAIN toward[s] : toward[s][i].user # c
  /\ known' = [known EXCEPT ![1][c] = [nick |-> 0, umode |-> um]]
  /\ counts' = [counts EXCEPT ![1] = tallied(@, {}, um)]
  /\ toward' = Queue(2, [cmd |-> "NICK", user |-> c, umode |-> um])
  /\ past' = [past EXCEPT !.steps = @ + 1, !.crossed = @ \ {c},
                          !.granted = {g \in @ : g[1] # c}]
  /\ UNCHANGED <<oper, attached, operList>>

\* exit_client: the operator's block is released, even when services took the
\* operator's modes.
m_quit_person(c) ==
  /\ MayCommand /\ Person(1, c)
  /\ known' = [known EXCEPT ![1][c] = Nobody]
  /\ counts' = [counts EXCEPT ![1] = tallied(@, known[1][c].umode, {})]
  /\ attached' = IF oper[c] = Nobody THEN attached ELSE [attached EXCEPT ![oper[c]] = @ - 1]
  /\ oper' = [oper EXCEPT ![c] = Nobody]
  /\ operList' = IF IsAnOper(known[1][c].umode) THEN without_oper(operList, c) ELSE operList
  /\ toward' = Queue(2, [cmd |-> "QUIT", user |-> c])
  /\ past' = Command(c, 1)

\* Mutant: a user keeps +r with a new nick.
renamed_r(p) == [nick |-> p.nick + 1, umode |-> p.umode]
\* A new nick is not registered.
renamed(p) == [nick |-> p.nick + 1, umode |-> p.umode \ {"r"}]

\* A change of nick, the user's own or one that m_svsnick forces.
m_nick_person(c) ==
  /\ MayCommand /\ Person(1, c)
  /\ known' = [known EXCEPT ![1][c] = renamed(@)]
  /\ toward' = Queue(2, [cmd |-> "NEWNICK", user |-> c])
  /\ past' = Command(c, 1)
  /\ UNCHANGED <<oper, attached, operList, counts>>

----------------------------------------------------------------------------
(* Operators and modes.                                                    *)

\* m_oper with the right password, for one who is not an operator yet.
m_oper_person(c, b) ==
  LET old == known[1][c].umode
      new == old \cup (IF "global" \in opflags[b] THEN {"o"} ELSE {"O"})
                 \cup (IF "sadmin" \in opflags[b] THEN {"a", "o"} ELSE {})
  IN /\ MayCommand /\ Person(1, c) /\ ~ IsAnOper(old)
     /\ known' = [known EXCEPT ![1][c].umode = new]
     /\ oper' = [oper EXCEPT ![c] = b]
     /\ attached' = [attached EXCEPT ![b] = @ + 1]
     /\ operList' = <<c>> \o operList
     /\ counts' = [counts EXCEPT ![1] = tallied(@, old, new)]
     /\ toward' = Queue(2, [cmd |-> "MODE", user |-> c, change |-> Diff(old, new)])
     /\ past' = Command(c, 1)

\* m_umode, of what is asked: nobody changes +r, no user becomes an operator,
\* and who is none loses an operator's modes.
Asked(old, ch) == LET um == Applied(old, [add |-> ch.add \ {"r"}, del |-> ch.del \ {"r"}])
                  IN um \ {m \in {"o", "O"} : m \notin old}
Allowed(old, ch, b) ==
  LET um == Asked(old, ch)
  IN IF ~ IsAnOper(um) THEN um \ OperModes
     ELSE IF b = Nobody \/ "sadmin" \notin opflags[b] THEN um \ {"a"} ELSE um

m_umode_person(c, ch) ==
  LET old   == known[1][c].umode
      new   == Allowed(old, ch, oper[c])
      leave == IsAnOper(old) /\ ~ IsAnOper(new)
  IN /\ MayCommand /\ Person(1, c) /\ new # old
     /\ known' = [known EXCEPT ![1][c].umode = new]
     /\ counts' = [counts EXCEPT ![1] = tallied(@, old, new)]
     /\ IF leave THEN /\ operList' = without_oper(operList, c)
                      /\ attached' = [attached EXCEPT ![oper[c]] = @ - 1]
                      /\ oper' = [oper EXCEPT ![c] = Nobody]
        ELSE UNCHANGED <<operList, attached, oper>>
     /\ toward' = Queue(2, [cmd |-> "MODE", user |-> c, change |-> Diff(old, new)])
     /\ past' = Command(c, 1)

\* m_svsmode at server s, for the user that has the nick: no opering this way.
\* It leaves the counters and the operator's block as they are.
svsmode_known(s, c, k, ch) ==
  IF Person(s, c) /\ known[s][c].nick = k
  THEN [known EXCEPT ![s][c].umode = Applied(@, [add |-> ch.add \ {"o", "O"}, del |-> ch.del])]
  ELSE known

\* Services: they may register the nick that they see, or change other modes.
m_svsmode(c, ch) ==
  LET k == known[2][c].nick
  IN /\ MayCommand /\ Person(2, c)
     /\ known' = svsmode_known(2, c, k, ch)
     /\ toward' = Queue(1, [cmd |-> "SVSMODE", user |-> c, nick |-> k, change |-> ch])
     /\ past' = [Command(c, 2) EXCEPT !.granted = IF "r" \in ch.add THEN @ \cup {<<c, k>>} ELSE @,
                                      !.drifted = @ \/ ch.del \cup ch.add # {"r"}]
     /\ UNCHANGED <<oper, attached, operList, counts>>

----------------------------------------------------------------------------
(* The messages.                                                           *)

\* What server 2 does with a message about one of its remote users: m_nick,
\* m_umode, which trusts a server, and exit_client.
receive2 ==
  /\ toward[2] # <<>> /\ toward' = [toward EXCEPT ![2] = Tail(@)]
  /\ LET m   == Head(toward[2])
         p   == known[2][m.user]
         new == Applied(p.umode, m.change)
     IN CASE m.cmd = "NICK" ->
               /\ known' = [known EXCEPT ![2][m.user] = [nick |-> 0, umode |-> m.umode]]
               /\ counts' = [counts EXCEPT ![2] = tallied(@, {}, m.umode)]
          [] m.cmd = "QUIT" ->
               /\ known' = [known EXCEPT ![2][m.user] = Nobody]
               /\ counts' = [counts EXCEPT ![2] = tallied(@, p.umode, {})]
          [] m.cmd = "NEWNICK" ->
               known' = [known EXCEPT ![2][m.user] = renamed(@)] /\ UNCHANGED counts
          [] m.cmd = "MODE" ->
               /\ known' = [known EXCEPT ![2][m.user].umode = new]
               /\ counts' = [counts EXCEPT ![2] = tallied(@, p.umode, new)]
  /\ UNCHANGED <<oper, attached, operList, past>>

\* SVSMODE on the user's own server: who loses the operator's modes is taken
\* off the list.
receive1 ==
  LET m == Head(toward[1])
      c == m.user
  IN /\ toward[1] # <<>> /\ toward' = [toward EXCEPT ![1] = Tail(@)]
     /\ known' = svsmode_known(1, c, m.nick, m.change)
     /\ operList' = IF Person(1, c) /\ IsAnOper(known[1][c].umode) /\ ~ IsAnOper(known'[1][c].umode)
                    THEN without_oper(operList, c) ELSE operList
     /\ UNCHANGED <<oper, attached, counts, past>>

\* send_lusers counts the users again.
Recount(s) == LET Of(test(_)) == Cardinality({c \in Chatters : Person(s, c) /\ test(known[s][c].umode)})
              IN [oper |-> Of(IsAnOper), invisi |-> Of(Invisible)]
send_lusers(s) == /\ counts[s] # Recount(s) /\ counts' = [counts EXCEPT ![s] = Recount(s)]
                  /\ UNCHANGED <<known, oper, attached, operList, toward, past>>

----------------------------------------------------------------------------
UmodesInit ==
  /\ known = [s \in Both |-> [c \in Chatters |-> Nobody]]
  /\ oper = [c \in Chatters |-> Nobody] /\ attached = [b \in OperBlocks |-> 0] /\ operList = <<>>
  /\ counts = [s \in Both |-> [oper |-> 0, invisi |-> 0]]
  /\ toward = [s \in Both |-> <<>>]
  /\ past = [steps |-> 0, granted |-> {}, crossed |-> {}, drifted |-> FALSE]

\* The changes that are tried: one letter at a time.
Tried == {[add |-> {m}, del |-> {}] : m \in {"o", "O", "i", "a"}}
           \cup {[add |-> {}, del |-> {m}] : m \in {"o", "O", "i", "a"}}
Forced == Tried \cup {[add |-> {"r"}, del |-> {}]}

UmodesNext ==
  \/ receive1 \/ receive2 \/ \E s \in Both : send_lusers(s)
  \/ \E c \in Chatters :
       \/ \E um \in {{}, {"i"}} : register_person(c, um)
       \/ m_quit_person(c) \/ m_nick_person(c)
       \/ \E b \in OperBlocks : m_oper_person(c, b)
       \/ \E ch \in Tried : m_umode_person(c, ch)
       \/ \E ch \in Forced : m_svsmode(c, ch)

UmodesSpec == UmodesInit /\ [][UmodesNext]_umodeVars

----------------------------------------------------------------------------
(* Properties.                                                             *)

\* oper_list has the operators of this server, each once; an operator has a
\* block, which is not freed while a user points to it; the counters are right
\* until services change modes behind their back.
OperTables ==
  /\ \A c \in Chatters :
       /\ Cardinality({i \in DOMAIN operList : operList[i] = c})
            = IF Person(1, c) /\ IsAnOper(known[1][c].umode) THEN 1 ELSE 0
       /\ Person(1, c) /\ IsAnOper(known[1][c].umode) => oper[c] # Nobody
  /\ \A b \in OperBlocks : attached[b] >= Cardinality({c \in Chatters : oper[c] = b})
  /\ ~ past.drifted => \A s \in Both : counts[s] = Recount(s)

\* A user's modes are the same everywhere once the messages have arrived,
\* unless a change by services crossed one by the user; +r belongs to a nick
\* that services have registered, even if it crossed a change of nick.
UmodesAgree ==
  \A c \in Chatters :
    /\ (\A s \in Both : toward[s] = <<>>) /\ c \notin past.crossed => known[1][c] = known[2][c]
    /\ \A s \in Both : Person(s, c) /\ "r" \in known[s][c].umode =>
         <<c, known[s][c].nick>> \in past.granted
=============================================================================
