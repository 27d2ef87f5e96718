------------------------------ MODULE Message ------------------------------
(***************************************************************************)
(* PRIVMSG and NOTICE on one server (m_message of src/src/s_user.c): the   *)
(* limit on the number of people a client may address, and the protection  *)
(* of clients and channels against floods of CTCP messages.  A target      *)
(* remembers who sent it CTCPs (fluders), and each of these has a link     *)
(* back (fludees).  Both lists have to follow clients that exit and        *)
(* channels that are freed.                                                *)
(***************************************************************************)
EXTENDS Common

CONSTANTS
  Chans,              \* channels
  Near,               \* the clients of this server (MyConnect)
  ULined,             \* the clients of super servers (IsULine)
  TargetMin,          \* MSG_TARGET_MIN and ...
  TargetMax,          \* ... MSG_TARGET_MAX: how many people one may address
  TargetTime,         \* MSG_TARGET_TIME: within so many seconds
  TargetYoung,        \* MSG_TARGET_MINTOMAXTIME: the lower limit for so long
  FludNum, FludTime, FludBlock,
  Speakers,           \* bound: the clients who send, and ...
  Lists,              \* ... the lists of targets they use
  Leavers,            \* bound: the clients who leave, and those whose
  Opering,            \* ... modes change
  MaxLives,           \* bound: newcomers that get the structure of a client
  MaxSeconds,         \* bound: the clock
  MaxMessages         \* bound: messages sent

ASSUME MessageAssumption ==
  /\ Near \subseteq Clients /\ ULined \subseteq Clients /\ Chans \cap Clients = {}
  /\ TargetMin \in 1 .. TargetMax /\ TargetMax \in Nat
  /\ {TargetTime, TargetYoung, FludNum, FludTime, MaxMessages, MaxSeconds, MaxLives} \subseteq Nat
  /\ Speakers \cup Leavers \cup Opering \subseteq Clients /\ Lists \subseteq Seq(Clients \cup Chans) \ {<<>>}
  /\ FludBlock \in Nat \ {0}      \* flud_block == 0: disabled

VARIABLES
  there,      \* the client structures of somebody on line
  exempt,     \* opers, and those with user mode F (NoMsgThrottle)
  born,       \* born[c]: firsttime
  targets,    \* targets[c]: the slots, [cli, sent]
  fluders,    \* fluders[t]: [fluder, count, first_msg, last_msg], t a client
              \* of this server or a channel
  fludees,    \* fludees[c]: what c's CTCPs went to
  fludblock,  \* fludblock[t]: when t was last protected
  mnow,       \* NOW
  handling,   \* the PRIVMSG or NOTICE being handled, None between handlers
  sends,      \* messages sent so far
  life,       \* history: life[c]: how often structure c went to a newcomer
  reached,    \* history: reached[c]: [to, life, at] for everybody c addressed
              \* under the limit
  passed      \* history: passed[t]: [by, at] for every CTCP let through to t

messageVars == <<there, born, targets, fluders, fludees, fludblock, mnow, handling,
                 sends, reached, passed, exempt, life>>

Floodable == Near \cup Chans
NoSlot    == [cli |-> None, sent |-> 0]

----------------------------------------------------------------------------
max_targets(c) == IF mnow - born[c] > TargetYoung THEN TargetMax ELSE TargetMin

\* Mutant: a slot is free one second early.
usable_early(e, d) == e.cli = None \/ e.cli = d \/ e.sent <= mnow - TargetTime

\* A slot check_target_limit takes for a message to d.
usable(e, d) == e.cli = None \/ e.cli = d \/ e.sent < mnow - TargetTime

Usable(c, d) == {i \in 1 .. max_targets(c) : usable(targets[c][i], d)}

\* No limit for opers, on oneself or on services.
unlimited(c, d) == c \in exempt \/ c = d \/ d \in ULined

\* check_target_limit, for a client of this server: not enabled when the
\* message is refused (the penalty for that is left out).  A slot compares
\* structures: it goes on pointing to that of a client who is gone, and takes
\* the newcomer who gets the structure for the same.
check_target_limit(c, d) ==
  LET i == CHOOSE j \in Usable(c, d) : \A k \in Usable(c, d) : j <= k
  IN IF c \notin Near \/ unlimited(c, d) THEN UNCHANGED <<targets, reached>>
     ELSE /\ Usable(c, d) # {}
          /\ targets' = [targets EXCEPT ![c][i] = [cli |-> d, sent |-> mnow]]
          /\ reached' = [reached EXCEPT ![c] = @ \cup {[to |-> d, life |-> life[d], at |-> mnow]}]

----------------------------------------------------------------------------
blocking(t) == fludblock[t] > mnow - FludBlock

\* check_for_flud's garbage collection.
current(t) == IF blocking(t) THEN fluders[t]
              ELSE Keep(fluders[t], {e \in Range(fluders[t]) : e.last_msg >= mnow - FludTime})

\* remove_fludee_reference, for the fluders in F.
remove_fludee_references(f, F, t) ==
  [c \in Clients |-> IF c \in F THEN RemoveFirst(f[c], t) ELSE f[c]]

Fluders(l) == {l[i].fluder : i \in DOMAIN l}

\* Mutant: every fluder counts once.
weight_one(e) == 1

\* What a fluder contributes to the count of recent messages.
weight(e) == IF e.first_msg < mnow - FludTime THEN 1 ELSE e.count

\* check_for_flud: the list of t after a CTCP of c, and whether t is
\* protected now.
noted(c, t) ==
  LET l == current(t)
  IN IF c \in Fluders(l)
     THEN [i \in DOMAIN l |-> IF l[i].fluder = c
                              THEN [l[i] EXCEPT !.last_msg = mnow, !.count = @ + 1] ELSE l[i]]
     ELSE <<[fluder |-> c, count |-> 1, first_msg |-> mnow, last_msg |-> mnow]>> \o l

protected(c, t) ==
  LET l == noted(c, t)
  IN blocking(t) \/ Total([i \in DOMAIN l |-> weight(l[i])]) > FludNum

\* Mutant: the garbage collection forgets the links back.
check_for_flud_one_sided(c, t) ==
  /\ fluders' = [fluders EXCEPT ![t] = noted(c, t)]
  /\ fludees' = IF c \in Fluders(current(t)) THEN fludees ELSE [fludees EXCEPT ![c] = <<t>> \o @]
  /\ fludblock' = [fludblock EXCEPT ![t] = IF protected(c, t) THEN mnow ELSE @]
  /\ passed' = [passed EXCEPT ![t] = IF protected(c, t) THEN @
                                     ELSE Append(@, [by |-> c, at |-> mnow])]

check_for_flud(c, t) ==
  LET F == Fluders(fluders[t]) \ Fluders(current(t))
      f == remove_fludee_references(fludees, F, t)
  IN /\ fluders' = [fluders EXCEPT ![t] = noted(c, t)]
     /\ fludees' = IF c \in Fluders(current(t)) THEN f ELSE [f EXCEPT ![c] = <<t>> \o @]
     /\ fludblock' = [fludblock EXCEPT ![t] = IF protected(c, t) THEN mnow ELSE @]
     /\ passed' = [passed EXCEPT ![t] = IF protected(c, t) THEN @
                                        ELSE Append(@, [by |-> c, at |-> mnow])]

unflooded == UNCHANGED <<fluders, fludees, fludblock, passed>>

----------------------------------------------------------------------------
\* m_message begins: the sender, whether the text is a CTCP in a PRIVMSG (that
\* of super sources is not looked at), and the targets, at most MAXRECIPIENTS.
m_message(c, ctcp, to) ==
  /\ handling = None /\ c \in there /\ sends < MaxMessages
  /\ handling' = [by |-> c, ctcp |-> ctcp /\ c \notin ULined, left |-> to] /\ sends' = sends + 1
  /\ UNCHANGED <<there, born, targets, fluders, fludees, fludblock, mnow, reached, passed, exempt, life>>

\* On to the next target, or (return 0) to none.
Continue == handling' = IF Tail(handling.left) = <<>> THEN None
                        ELSE [handling EXCEPT !.left = Tail(@)]
Stop     == handling' = None

Handles(t) == /\ handling # None /\ t = Head(handling.left)
              /\ UNCHANGED <<there, born, mnow, sends, exempt, life>>

\* A channel.  Whether the client may speak there (can_send, module BanCache)
\* is asked after the flood check and changes nothing here.  A DCC to a
\* channel goes no further.
message_channel(t) ==
  /\ t \in Chans /\ Handles(t) /\ UNCHANGED <<targets, reached>>
  /\ IF handling.ctcp
     THEN /\ check_for_flud(handling.by, t)
          /\ IF protected(handling.by, t) THEN Stop ELSE Continue
     ELSE unflooded /\ Continue

\* A client: the limit on targets, then (PRIVMSG, clients of this server) the
\* flood check; then +R, DCCALLOW and SILENCE, which change nothing here.
message_client(t) ==
  /\ t \in Clients /\ Handles(t)
  /\ LET c == handling.by
     IN IF t \notin there \/ ~ (c \notin Near \/ unlimited(c, t) \/ Usable(c, t) # {})
        THEN UNCHANGED <<targets, reached>> /\ unflooded /\ Continue
        ELSE /\ check_target_limit(c, t)
             /\ IF handling.ctcp /\ t \in Near
                THEN /\ check_for_flud(c, t)
                     /\ IF protected(c, t) THEN Stop ELSE Continue
                ELSE unflooded /\ Continue

\* sub1_from_channel when the last member leaves: free_fluders(NULL, chptr).
free_channel(t) ==
  /\ handling = None /\ t \in Chans /\ fluders[t] # <<>>
  /\ fludees' = remove_fludee_references(fludees, Fluders(fluders[t]), t)
  /\ fluders' = [fluders EXCEPT ![t] = <<>>] /\ fludblock' = [fludblock EXCEPT ![t] = 0]
  /\ passed' = [passed EXCEPT ![t] = <<>>]
  /\ UNCHANGED <<there, born, targets, mnow, handling, sends, reached, exempt, life>>

\* remove_client_from_list: free_fluders and free_fludees.  The slots of other
\* clients go on pointing to the structure.
FludExit(c) ==
  LET mine == IF c \in Near THEN Fluders(fluders[c]) ELSE {}
      own  == IF c \in mine THEN RemoveFirst(fludees[c], c) ELSE fludees[c]
  IN /\ handling = None /\ c \in there /\ there' = there \ {c}
     /\ fluders' = [t \in Floodable |->
          IF t = c THEN <<>>
          ELSE IF t \in Range(own)
          THEN Keep(fluders[t], {e \in Range(fluders[t]) : e.fluder # c}) ELSE fluders[t]]
     /\ fludees' = [remove_fludee_references(fludees, mine, c) EXCEPT ![c] = <<>>]
     /\ fludblock' = [t \in Floodable |-> IF t = c THEN 0 ELSE fludblock[t]]
     /\ targets' = [targets EXCEPT ![c] = [i \in 1 .. TargetMax |-> NoSlot]]
     /\ reached' = [reached EXCEPT ![c] = {}]
     /\ passed' = [t \in Floodable |-> IF t = c THEN <<>>
                     ELSE Keep(passed[t], {e \in Range(passed[t]) : e.by # c})]
     /\ exempt' = exempt \ {c}
     /\ UNCHANGED <<born, mnow, handling, sends, life>>

\* A newcomer gets the structure of a client who is gone.
FludArrive(c) ==
  /\ handling = None /\ c \notin there /\ there' = there \cup {c}
  /\ life[c] < MaxLives /\ life' = [life EXCEPT ![c] = @ + 1]
  /\ born' = [born EXCEPT ![c] = mnow]
  /\ UNCHANGED <<targets, fluders, fludees, fludblock, mnow, handling, sends, reached, passed, exempt>>

\* OPER and MODE (module Umodes): what exempts from the limit comes and goes.
FludModes(c) ==
  /\ handling = None /\ c \in there
  /\ exempt' = IF c \in exempt THEN exempt \ {c} ELSE exempt \cup {c}
  /\ UNCHANGED <<there, born, targets, fluders, fludees, fludblock, mnow, handling, sends, reached, passed, life>>

\* What is too long ago for the properties leaves the histories.
MessageTick ==
  /\ handling = None /\ mnow < FludBlock + MaxSeconds /\ mnow' = mnow + 1
  /\ reached' = [c \in Clients |-> {e \in reached[c] : e.at >= mnow' - TargetTime}]
  /\ passed' = [t \in Floodable |-> Keep(passed[t], {e \in Range(passed[t]) : e.at >= mnow' - FludTime})]
  /\ UNCHANGED <<there, born, targets, fluders, fludees, fludblock, handling, sends, exempt, life>>

MessageInit ==
  /\ there = Clients /\ exempt = {} /\ life = [c \in Clients |-> 0]
  /\ born = [c \in Clients |-> FludBlock]
  /\ targets = [c \in Clients |-> [i \in 1 .. TargetMax |-> NoSlot]]
  /\ fluders = [t \in Floodable |-> <<>>] /\ fludees = [c \in Clients |-> <<>>]
  /\ fludblock = [t \in Floodable |-> 0]
  /\ mnow = FludBlock /\ handling = None /\ sends = 0
  /\ reached = [c \in Clients |-> {}] /\ passed = [t \in Floodable |-> <<>>]

MessageNext ==
  \/ \E c \in Speakers, ctcp \in BOOLEAN, to \in Lists : m_message(c, ctcp, to)
  \/ \E t \in Clients \cup Chans : message_channel(t) \/ message_client(t) \/ free_channel(t)
  \/ \E c \in Leavers : FludExit(c) \/ FludArrive(c)
  \/ \E c \in Opering : FludModes(c)
  \/ MessageTick

MessageSpec == MessageInit /\ [][MessageNext]_messageVars

----------------------------------------------------------------------------
(* Properties.                                                             *)

\* The lists of fluders and of fludees mirror each other, each pair once, and
\* name clients that are there: free_fluders and free_fludees leave nothing
\* behind that the next CTCP would follow.
FludMirror ==
  /\ \A c \in Clients, t \in Floodable :
       Cardinality({i \in DOMAIN fluders[t] : fluders[t][i].fluder = c})
       = Cardinality({i \in DOMAIN fludees[c] : fludees[c][i] = t})
  /\ \A t \in Floodable : Fluders(fluders[t]) \subseteq there
  /\ \A c \in Clients : IsInjective(fludees[c]) /\ Range(fludees[c]) \cap Clients \subseteq there

\* The people c addressed under the limit within MSG_TARGET_TIME, each as a
\* structure and the life of it; and those whose structure went to another
\* one of them.
Addressed(c) == {<<e.to, e.life>> : e \in {d \in reached[c] : d.at >= mnow - TargetTime}}
Replaced(c)  == {p \in Addressed(c) : \E q \in Addressed(c) : q[1] = p[1] /\ q[2] > p[2]}

\* However a client spaces its messages, and whoever comes, goes and is made
\* an oper in between, it addresses no more than MSG_TARGET_MAX people within
\* MSG_TARGET_TIME seconds under the limit, but for those who left and whose
\* structure went to a newcomer it addressed too: nothing but such a reuse
\* makes the slots miss anybody.
TargetsBounded ==
  \A c \in Clients \cap Near : Cardinality(Addressed(c) \ Replaced(c)) <= TargetMax

\* Seconds in which FLUD_NUM messages must occur (config.h): of the clients
\* who are there, no more than FLUD_NUM CTCPs reach a target within FLUD_TIME
\* seconds, as long as all of those in its list are new to it (check_for_flud
\* counts one message for a fluder whose first one is longer ago).
FloodStopped ==
  \A t \in Floodable :
    (\A i \in DOMAIN fluders[t] : fluders[t][i].first_msg >= mnow - FludTime)
    => Cardinality({i \in DOMAIN passed[t] : passed[t][i].at >= mnow - FludTime}) <= FludNum

\* Both: the flood lists are sound, and stop a flood.
FludRight == FludMirror /\ FloodStopped
============================================================================
