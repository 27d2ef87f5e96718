------------------------------ MODULE Channel ------------------------------
(***************************************************************************)
(* One server's channel tables (src/src/channel.c): which users are on     *)
(* which channels, with which status, who is invited where, and the        *)
(* handlers that change them.                                              *)
(*                                                                         *)
(* The daemon keeps every membership and every invitation twice, once in a *)
(* list that hangs off the channel and once in a list that hangs off the   *)
(* user, with a counter on each side; a channel is freed when its counter  *)
(* reaches zero.  Every list is a variable of its own here, and every      *)
(* operation updates the lists the code updates, so that their agreement   *)
(* is something to check.                                                  *)
(*                                                                         *)
(* The daemon is single threaded: a handler runs to its end before the     *)
(* next one starts.  A handler whose body is a loop (the letters of MODE,  *)
(* the targets of KICK, the nicks of SJOIN, the channels of a client that  *)
(* exits) is a start step, one step per iteration and an end step, with    *)
(* `cmd' naming the handler that is running; no other handler can take a   *)
(* step until it ends.                                                     *)
(***************************************************************************)
EXTENDS Integers, FiniteSets, Sequences, SequencesExt

CONSTANTS
  LocalUsers,          \* clients connected to this server (MyConnect)
  RemoteUsers,         \* clients behind the uplink
  Channels,            \* channel names
  Srv,                 \* a remote server acting as the sender of a command
  NoChan,              \* no channel
  Opers,               \* users with umode +o (IsAnOper)
  SAdmins,             \* services administrators (IsSAdmin)
  ULines,              \* users of a U-lined (services) server (IsULine)
  maxchannelsperuser,  \* the limit of that name
  MAXMODEPARAMSUSER,   \* parameters one MODE command of a user may carry
  MaxServerParams,     \* the same for a server or a U-lined user (512)
  MaxKick,             \* targets one KICK may name (4 in the code)
  ModeLetters,         \* the letters senders of MODE use
  MaxTS,               \* bound: channel timestamps are 0..MaxTS
  MaxLimit,            \* bound: +l takes 1..MaxLimit
  SplitOpOk            \* confopts & FLAGS_SPLITOPOK

Users == LocalUsers \cup RemoteUsers
Status == {"o", "h", "v"}
Flags == {"i", "m", "O", "r"}

ASSUME UserAssumption ==
  /\ LocalUsers \cap RemoteUsers = {} /\ Srv \notin Users
  /\ NoChan \notin Channels
  /\ Opers \subseteq Users /\ SAdmins \subseteq Opers
  /\ ULines \subseteq RemoteUsers
ASSUME LimitAssumption ==
  /\ maxchannelsperuser \in Nat \ {0}
  /\ MAXMODEPARAMSUSER \in Nat /\ MaxServerParams \in Nat /\ MaxKick \in Nat
  /\ MaxTS \in Nat \ {0} /\ MaxLimit \in Nat \ {0}
ASSUME LetterAssumption == ModeLetters \subseteq Status \cup Flags \cup {"l"}
ASSUME SplitAssumption == SplitOpOk \in BOOLEAN

VARIABLES
  chans,     \* the channel hash table: channels that exist
  members,   \* chptr->members, channel side of a membership
  flags,     \* cm->flags of each member
  users,     \* chptr->users
  invites,   \* chptr->invites, channel side of an invitation
  mode,      \* chptr->mode.mode
  limit,     \* chptr->mode.limit, 0 for none
  ts,        \* chptr->channelts
  online,    \* clients in the client hash table
  channel,   \* user->channel, user side of a membership
  joined,    \* user->joined
  invited,   \* user->invited, user side of an invitation, oldest first
  server_was_split,
  cmd        \* the handler that is running

chanVars == <<chans, members, flags, users, mode, limit, ts>>
userVars == <<channel, joined>>
invVars  == <<invites, invited>>
vars == <<chanVars, userVars, invVars, online, server_was_split, cmd>>

\* `rank' is a history field: the authority the sender had when the
\* command started.  Nothing reads it but the properties.
Ranks == {"user", "half", "op", "super"}
Idle == [kind |-> "none", by |-> Srv, chan |-> NoChan, level |-> 0, left |-> 0,
         seen |-> {}, keep |-> FALSE, split |-> FALSE, rank |-> "user"]

----------------------------------------------------------------------------
(* Queries.                                                                *)

IsMember(u, c) == c \in channel[u]

find_user_member(c, u) == u \in members[c]

is_chan_op(u, c) == find_user_member(c, u) /\ "o" \in flags[c][u]

is_halfop(u, c) == find_user_member(c, u) /\ "h" \in flags[c][u]

is_only_halfop(u, c) == is_halfop(u, c) /\ "o" \notin flags[c][u]

MyClient(u) == u \in LocalUsers

\* The authority of a sender on a channel (history, for the properties).
RankOf(u, c) ==
  IF u = Srv \/ u \in ULines \/ u \in SAdmins THEN "super"
  ELSE IF is_chan_op(u, c) THEN "op"
  ELSE IF is_halfop(u, c) THEN "half" ELSE "user"

\* m_mode's `chanop' level.
mode_level(u, c) ==
  IF u \in ULines THEN 4
  ELSE IF u \in SAdmins /\ ~ is_chan_op(u, c) /\ ~ is_halfop(u, c) /\ ~ MyClient(u) THEN 3
  ELSE IF is_chan_op(u, c) \/ (u = Srv /\ ts[c] # 0) THEN 2
  ELSE IF is_only_halfop(u, c) THEN 1
  ELSE 0

\* TRUE when the sender lacks the level the letter requires.
check_level(rlevel) == cmd.level < rlevel /\ cmd.by # Srv

----------------------------------------------------------------------------
(* The list operations the handlers are built from.                        *)

NoFlags == [u \in Users |-> {}]

\* get_channel with CREATE: a zeroed structure enters the hash table.
get_channel(c, t) ==
  /\ chans' = chans \cup {c}
  /\ ts' = [ts EXCEPT ![c] = t]

add_user_to_channel(c, u, fl) ==
  /\ members' = [members EXCEPT ![c] = @ \cup {u}]
  /\ flags' = [flags EXCEPT ![c][u] = fl]
  /\ users' = [users EXCEPT ![c] = @ + 1]
  /\ channel' = [channel EXCEPT ![u] = @ \cup {c}]
  /\ joined' = [joined EXCEPT ![u] = @ + 1]

\* Each loop of del_invite unlinks the first match on its own side.
del_invite(u, c) ==
  /\ invites' = [invites EXCEPT ![c] = @ \ {u}]
  /\ invited' = [invited EXCEPT ![u] = RemoveFirst(@, c)]

\* "while ((tmp = chptr->invites)) del_invite(tmp->value.cptr, chptr)"
del_all_invites(c) ==
  /\ invites' = [invites EXCEPT ![c] = {}]
  /\ invited' = [u \in Users |-> IF u \in invites[c] THEN RemoveFirst(invited[u], c)
                                 ELSE invited[u]]

\* Mutant: the eviction forgets the channel side of the invitation.
add_invite_one_sided(u, c) ==
  LET mine == RemoveFirst(invited[u], c)
      kept == IF Len(mine) >= maxchannelsperuser THEN Tail(mine) ELSE mine
  IN /\ invited' = [invited EXCEPT ![u] = Append(kept, c)]
     /\ invites' = [invites EXCEPT ![c] = @ \cup {u}]

\* del_invite, then evict the oldest entry of a full list, then link both
\* sides.
add_invite(u, c) ==
  LET mine  == RemoveFirst(invited[u], c)
      full  == Len(mine) >= maxchannelsperuser
      kept  == IF full THEN Tail(mine) ELSE mine
      inv1  == IF full THEN [invites EXCEPT ![Head(mine)] = @ \ {u}] ELSE invites
  IN /\ invited' = [invited EXCEPT ![u] = Append(kept, c)]
     /\ invites' = [inv1 EXCEPT ![c] = @ \cup {u}]

\* The counter drops; at zero the structure and its invitations are freed.
\* A freed structure is shown as the zeroed one make_channel hands out.
sub1_from_channel(c) ==
  IF users[c] - 1 <= 0
  THEN /\ chans' = chans \ {c}
       /\ users' = [users EXCEPT ![c] = 0]
       /\ mode' = [mode EXCEPT ![c] = {}]
       /\ limit' = [limit EXCEPT ![c] = 0]
       /\ ts' = [ts EXCEPT ![c] = 0]
       /\ del_all_invites(c)
  ELSE /\ users' = [users EXCEPT ![c] = @ - 1]
       /\ UNCHANGED <<chans, mode, limit, ts, invVars>>

remove_user_from_channel(u, c) ==
  /\ members' = [members EXCEPT ![c] = @ \ {u}]
  /\ flags' = [flags EXCEPT ![c][u] = {}]
  /\ channel' = [channel EXCEPT ![u] = @ \ {c}]
  /\ joined' = [joined EXCEPT ![u] = @ - 1]
  /\ sub1_from_channel(c)

----------------------------------------------------------------------------
(* JOIN, SAJOIN, PART, INVITE.                                             *)

\* What this module does not carry: "refused" when +j, +k, +R or +S turns
\* the client away, "listed" when a +I mask matches it, "banned" when the
\* ban list does.
Gates == SUBSET {"refused", "listed", "banned"}

can_join(u, c, gate) ==
  LET error == \/ "refused" \in gate
               \/ "i" \in mode[c]
               \/ "O" \in mode[c] /\ u \notin Opers
               \/ limit[c] # 0 /\ users[c] >= limit[c]
  IN \/ Contains(invited[u], c)
     \/ u \in ULines
     \/ (error => "listed" \in gate) /\ "banned" \notin gate

max_channels(u) == IF u \in Opers THEN 3 * maxchannelsperuser ELSE maxchannelsperuser

\* Mutant: whoever creates the channel is operator, split or not.
m_join_create_riding(u, c, t) ==
  /\ cmd = Idle /\ u \in LocalUsers \cap online
  /\ joined[u] < max_channels(u)
  /\ c \notin chans
  /\ get_channel(c, t)
  /\ add_user_to_channel(c, u, {"o"})
  /\ del_invite(u, c)
  /\ UNCHANGED <<mode, limit, online, server_was_split, cmd>>

\* A local client is the first to enter: it becomes channel operator unless
\* the server has lost the network and the client is no oper.
m_join_create(u, c, t) ==
  LET allow_op == u \in Opers \/ ~ server_was_split \/ SplitOpOk
  IN /\ cmd = Idle /\ u \in LocalUsers \cap online
     /\ joined[u] < max_channels(u)
     /\ c \notin chans
     /\ get_channel(c, t)
     /\ add_user_to_channel(c, u, IF allow_op THEN {"o"} ELSE {})
     /\ del_invite(u, c)
     /\ UNCHANGED <<mode, limit, online, server_was_split, cmd>>

m_join_existing(u, c, gate) ==
  /\ cmd = Idle /\ u \in LocalUsers \cap online
  /\ joined[u] < max_channels(u)
  /\ c \in chans /\ ~ IsMember(u, c)
  /\ can_join(u, c, gate)
  /\ add_user_to_channel(c, u, {})
  /\ del_invite(u, c)
  /\ UNCHANGED <<chans, mode, limit, ts, online, server_was_split, cmd>>

\* ":nick JOIN #c" from the uplink: no admission test, never an operator.
m_join_remote(u, c, t) ==
  /\ cmd = Idle /\ u \in RemoteUsers \cap online /\ ~ IsMember(u, c)
  /\ IF c \in chans THEN UNCHANGED <<chans, ts>> ELSE get_channel(c, t)
  /\ add_user_to_channel(c, u, {})
  /\ UNCHANGED <<mode, limit, invVars, online, server_was_split, cmd>>

\* A services administrator enters an existing channel past every test; the
\* invitation he may hold is not consumed.
m_sajoin(u, c) ==
  /\ cmd = Idle /\ u \in LocalUsers \cap online \cap SAdmins
  /\ c \in chans /\ ~ IsMember(u, c)
  /\ add_user_to_channel(c, u, {})
  /\ UNCHANGED <<chans, mode, limit, ts, invVars, online, server_was_split, cmd>>

m_part(u, c) ==
  /\ cmd = Idle /\ u \in online
  /\ c \in chans /\ IsMember(u, c)
  /\ remove_user_from_channel(u, c)
  /\ UNCHANGED <<online, server_was_split, cmd>>

\* The invitation is recorded where the invited client is connected.  A
\* remote sender was checked by its own server.
m_invite(u, who, c) ==
  /\ cmd = Idle /\ u \in online /\ who \in online \cap LocalUsers
  /\ c \in chans /\ ~ IsMember(who, c)
  /\ MyClient(u) => IsMember(u, c) /\ is_chan_op(u, c)
  /\ add_invite(who, c)
  /\ UNCHANGED <<chanVars, userVars, online, server_was_split, cmd>>

----------------------------------------------------------------------------
(* MODE and SAMODE.                                                        *)

m_mode(u, c, modets) ==
  /\ cmd = Idle /\ u \in online \cup {Srv}
  /\ c \in chans
  /\ ~ MyClient(u) => modets = 0 \/ modets <= ts[c]
  /\ cmd' = [Idle EXCEPT !.kind = "MODE", !.by = u, !.chan = c,
                !.level = mode_level(u, c),
                !.left = IF u = Srv \/ u \in ULines THEN MaxServerParams
                         ELSE MAXMODEPARAMSUSER,
                !.rank = RankOf(u, c)]
  /\ UNCHANGED <<chanVars, userVars, invVars, online, server_was_split>>

m_samode(u, c) ==
  /\ cmd = Idle /\ u \in LocalUsers \cap online \cap Opers \cap SAdmins
  /\ c \in chans
  /\ cmd' = [Idle EXCEPT !.kind = "MODE", !.by = u, !.chan = c, !.level = 2,
                !.left = MAXMODEPARAMSUSER, !.rank = RankOf(u, c)]
  /\ UNCHANGED <<chanVars, userVars, invVars, online, server_was_split>>

Signed(set, plus, x) == IF plus THEN set \cup {x} ELSE set \ {x}

\* Letters o, h and v.  A server's +o or +h zeroes the timestamp.
set_mode_status(x, plus, who) ==
  LET c == cmd.chan
  IN /\ cmd.kind = "MODE" /\ x \in ModeLetters \cap Status
     /\ ~ check_level(IF x = "v" THEN 1 ELSE 2)
     /\ cmd.left > 0
     /\ cmd' = [cmd EXCEPT !.left = @ - 1]
     /\ who \in online /\ find_user_member(c, who)
     /\ flags' = [flags EXCEPT ![c][who] = Signed(@, plus, x)]
     /\ ts' = IF cmd.by = Srv /\ plus /\ x # "v" THEN [ts EXCEPT ![c] = 0] ELSE ts
     /\ UNCHANGED <<chans, members, users, mode, limit, userVars, invVars, online,
                    server_was_split>>

\* Letter l.
set_mode_l(plus, n) ==
  LET c == cmd.chan
  IN /\ cmd.kind = "MODE" /\ "l" \in ModeLetters
     /\ ~ check_level(1)
     /\ plus => cmd.left > 0
     /\ MyClient(cmd.by) => "l" \notin cmd.seen
     /\ cmd' = [cmd EXCEPT !.left = IF plus THEN @ - 1 ELSE @, !.seen = @ \cup {"l"}]
     /\ limit' = [limit EXCEPT ![c] = IF plus THEN n ELSE 0]
     /\ UNCHANGED <<chans, members, flags, users, mode, ts, userVars, invVars, online,
                    server_was_split>>

\* Which senders may change a parameterless letter.
may_set_flag(x) ==
  CASE x = "i" -> ~ check_level(2)
    [] x = "O" -> \/ cmd.by \in ULines
                  \/ cmd.by \in Opers /\ cmd.level >= 2
    [] x = "r" -> cmd.by = Srv \/ cmd.by \in ULines
    [] OTHER   -> ~ check_level(1)

\* The parameterless letters.  -i drops every pending invitation, and does
\* so before a repeated letter of a local sender is ignored; letter O has no
\* repetition test.
set_mode_flag(x, plus) ==
  LET c == cmd.chan
      repeated == MyClient(cmd.by) /\ x \in cmd.seen /\ x # "O"
  IN /\ cmd.kind = "MODE" /\ x \in ModeLetters \cap Flags
     /\ may_set_flag(x)
     /\ IF x = "i" /\ ~ plus THEN del_all_invites(c) ELSE UNCHANGED invVars
     /\ mode' = IF repeated THEN mode ELSE [mode EXCEPT ![c] = Signed(@, plus, x)]
     /\ cmd' = [cmd EXCEPT !.seen = @ \cup {x}]
     /\ UNCHANGED <<chans, members, flags, users, limit, ts, userVars, online,
                    server_was_split>>

----------------------------------------------------------------------------
(* KICK.                                                                   *)

\* A remote sender that is no operator here is let through unless the
\* channel has no timestamp: its own server saw an operator.
m_kick(u, c) ==
  /\ cmd = Idle /\ u \in online \cup {Srv}
  /\ c \in chans
  /\ \/ u = Srv \/ u \in ULines
     \/ is_chan_op(u, c) \/ is_halfop(u, c)
     \/ ~ MyClient(u) /\ ts[c] # 0
  /\ cmd' = [Idle EXCEPT !.kind = "KICK", !.by = u, !.chan = c, !.left = MaxKick,
                !.rank = IF u # Srv /\ ~ MyClient(u) THEN "super" ELSE RankOf(u, c)]
  /\ UNCHANGED <<chanVars, userVars, invVars, online, server_was_split>>

\* Mutant: a half operator may kick half operators, himself included, and
\* is none any more when his next target is looked at.
kick_target_peer(who) ==
  LET c == cmd.chan
  IN /\ cmd.kind = "KICK" /\ cmd.left > 0
     /\ who \in online /\ IsMember(who, c)
     /\ ~ (is_only_halfop(cmd.by, c) /\ is_chan_op(who, c))
     /\ remove_user_from_channel(who, c)
     /\ cmd' = [cmd EXCEPT !.left = @ - 1]
     /\ UNCHANGED <<online, server_was_split>>

\* One target.  A half operator's authority is looked up again for each.
kick_target(who) ==
  LET c == cmd.chan
  IN /\ cmd.kind = "KICK" /\ cmd.left > 0
     /\ who \in online /\ IsMember(who, c)
     /\ ~ (/\ is_only_halfop(cmd.by, c)
           /\ is_chan_op(who, c) \/ is_halfop(who, c))
     /\ remove_user_from_channel(who, c)
     /\ cmd' = [cmd EXCEPT !.left = @ - 1]
     /\ UNCHANGED <<online, server_was_split>>

\* The letters of a MODE or the targets of a KICK are used up.
end_command ==
  /\ cmd.kind \in {"MODE", "KICK"}
  /\ cmd' = Idle
  /\ UNCHANGED <<chanVars, userVars, invVars, online, server_was_split>>

----------------------------------------------------------------------------
(* SJOIN, from the uplink.                                                 *)

\* The timestamp after a SJOIN that carries newts.
sjoin_ts(c, newts) ==
  IF c \notin chans THEN newts
  ELSE IF newts = 0 \/ ts[c] = 0 THEN 0
  ELSE IF newts < ts[c] THEN newts ELSE ts[c]

\* ":nick SJOIN ts #c", one client entering.
m_sjoin_client(u, c, newts) ==
  /\ cmd = Idle /\ u \in RemoteUsers \cap online
  /\ get_channel(c, sjoin_ts(c, newts))
  /\ IF IsMember(u, c) THEN UNCHANGED <<members, flags, users, userVars>>
     ELSE add_user_to_channel(c, u, {})
  /\ UNCHANGED <<mode, limit, invVars, online, server_was_split, cmd>>

\* ":server SJOIN ts #c modes :nicks".  An older timestamp replaces our
\* modes and strips every member's status, a newer one is ignored, an equal
\* or a zero one is merged.
m_sjoin(c, newts, newmode, newlimit) ==
  LET old == c \in chans /\ newts # 0 /\ ts[c] # 0
      keepourmodes == ~ (old /\ newts < ts[c])
      keepnewmodes == ~ (old /\ newts > ts[c])
  IN /\ cmd = Idle
     /\ get_channel(c, sjoin_ts(c, newts))
     /\ mode' = [mode EXCEPT ![c] =
                   IF ~ keepnewmodes THEN @
                   ELSE IF keepourmodes THEN @ \cup newmode ELSE newmode]
     /\ limit' = [limit EXCEPT ![c] =
                   IF ~ keepnewmodes THEN @
                   ELSE IF keepourmodes /\ @ > newlimit THEN @ ELSE newlimit]
     /\ flags' = IF keepourmodes THEN flags ELSE [flags EXCEPT ![c] = NoFlags]
     /\ cmd' = [Idle EXCEPT !.kind = "SJOIN", !.chan = c, !.keep = keepnewmodes,
                   !.rank = "super"]
     /\ UNCHANGED <<members, users, userVars, invVars, online, server_was_split>>

\* One nick of the list.  A nick that is already a member keeps the status
\* it has here.
sjoin_nick(u, fl) ==
  /\ cmd.kind = "SJOIN" /\ u \in RemoteUsers \cap online
  /\ ~ IsMember(u, cmd.chan)
  /\ add_user_to_channel(cmd.chan, u, IF cmd.keep THEN fl ELSE {})
  /\ UNCHANGED <<chans, mode, limit, ts, invVars, online, server_was_split, cmd>>

\* Mutant: the empty channel is left in the hash table.
sjoin_end_leak ==
  /\ cmd.kind = "SJOIN"
  /\ cmd' = Idle
  /\ UNCHANGED <<chanVars, userVars, invVars, online, server_was_split>>

\* A channel created for a list of which nobody was left is freed again.
sjoin_end ==
  /\ cmd.kind = "SJOIN"
  /\ IF users[cmd.chan] = 0 THEN sub1_from_channel(cmd.chan)
     ELSE UNCHANGED <<chans, users, mode, limit, ts, invVars>>
  /\ cmd' = Idle
  /\ UNCHANGED <<members, flags, userVars, online, server_was_split>>

----------------------------------------------------------------------------
(* Clients coming and going.                                               *)

register_user(u) ==
  /\ cmd = Idle /\ u \in Users \ online
  /\ online' = online \cup {u}
  /\ UNCHANGED <<chanVars, userVars, invVars, server_was_split, cmd>>

\* "JOIN 0": leave everything.
m_join_zero(u) ==
  /\ cmd = Idle /\ u \in online /\ channel[u] # {}
  /\ cmd' = [Idle EXCEPT !.kind = "JOIN0", !.by = u]
  /\ UNCHANGED <<chanVars, userVars, invVars, online, server_was_split>>

exit_one_client(u) ==
  /\ cmd = Idle /\ u \in online
  /\ cmd' = [Idle EXCEPT !.kind = "EXIT", !.by = u]
  /\ UNCHANGED <<chanVars, userVars, invVars, online, server_was_split>>

\* The loop of JOIN 0 and of exit_one_client over user->channel.
leave_next(c) ==
  /\ cmd.kind \in {"JOIN0", "EXIT"} /\ c \in channel[cmd.by]
  /\ remove_user_from_channel(cmd.by, c)
  /\ UNCHANGED <<online, server_was_split, cmd>>

join_zero_end ==
  /\ cmd.kind = "JOIN0" /\ channel[cmd.by] = {}
  /\ cmd' = Idle
  /\ UNCHANGED <<chanVars, userVars, invVars, online, server_was_split>>

\* The loop of exit_one_client over user->invited.
uninvite_next ==
  /\ cmd.kind = "EXIT" /\ channel[cmd.by] = {} /\ invited[cmd.by] # <<>>
  /\ del_invite(cmd.by, Head(invited[cmd.by]))
  /\ UNCHANGED <<chanVars, userVars, online, server_was_split, cmd>>

\* The client leaves the hash table; in a split the next one follows.
exit_end ==
  /\ cmd.kind = "EXIT" /\ channel[cmd.by] = {} /\ invited[cmd.by] = <<>>
  /\ online' = online \ {cmd.by}
  /\ IF cmd.split /\ online' \cap RemoteUsers # {}
     THEN \E w \in online' \cap RemoteUsers : cmd' = [cmd EXCEPT !.by = w]
     ELSE cmd' = Idle
  /\ UNCHANGED <<chanVars, userVars, invVars, server_was_split>>

\* The last server link is lost: everyone behind it exits.
exit_server ==
  /\ cmd = Idle
  /\ server_was_split' = TRUE
  /\ IF online \cap RemoteUsers = {} THEN cmd' = Idle
     ELSE \E w \in online \cap RemoteUsers :
            cmd' = [Idle EXCEPT !.kind = "EXIT", !.by = w, !.split = TRUE]
  /\ UNCHANGED <<chanVars, userVars, invVars, online>>

\* The PONG that ends the topic burst.
m_pong ==
  /\ cmd = Idle /\ server_was_split
  /\ server_was_split' = FALSE
  /\ UNCHANGED <<chanVars, userVars, invVars, online, cmd>>

----------------------------------------------------------------------------
Init ==
  /\ chans = {}
  /\ members = [c \in Channels |-> {}]
  /\ flags = [c \in Channels |-> NoFlags]
  /\ users = [c \in Channels |-> 0]
  /\ invites = [c \in Channels |-> {}]
  /\ mode = [c \in Channels |-> {}]
  /\ limit = [c \in Channels |-> 0]
  /\ ts = [c \in Channels |-> 0]
  /\ online = {}
  /\ channel = [u \in Users |-> {}]
  /\ joined = [u \in Users |-> 0]
  /\ invited = [u \in Users |-> <<>>]
  /\ server_was_split = TRUE
  /\ cmd = Idle

Joins == \E u \in Users, c \in Channels :
           \/ \E t \in 1..MaxTS : m_join_create(u, c, t) \/ m_join_remote(u, c, t)
           \/ \E gate \in Gates : m_join_existing(u, c, gate)
           \/ m_sajoin(u, c)
           \/ m_part(u, c)
           \/ \E who \in Users : m_invite(u, who, c)
           \/ \E newts \in 0..MaxTS : m_sjoin_client(u, c, newts)

Commands == \/ \E u \in Users \cup {Srv}, c \in Channels :
                 \/ \E modets \in 0..MaxTS : m_mode(u, c, modets)
                 \/ m_samode(u, c)
                 \/ m_kick(u, c)
            \/ \E plus \in BOOLEAN :
                 \/ \E x \in Status, who \in Users : set_mode_status(x, plus, who)
                 \/ \E n \in 1..MaxLimit : set_mode_l(plus, n)
                 \/ \E x \in Flags : set_mode_flag(x, plus)
            \/ \E who \in Users : kick_target(who)
            \/ end_command

Bursts == \/ \E c \in Channels, newts \in 0..MaxTS, newlimit \in {0} \cup (IF "l" \in ModeLetters THEN 1..MaxLimit ELSE {}),
                newmode \in SUBSET (ModeLetters \cap Flags) :
               m_sjoin(c, newts, newmode, newlimit)
          \/ \E u \in Users, fl \in SUBSET (ModeLetters \cap Status) : sjoin_nick(u, fl)
          \/ sjoin_end

Presence == \/ \E u \in Users : register_user(u) \/ m_join_zero(u) \/ exit_one_client(u)
            \/ \E c \in Channels : leave_next(c)
            \/ join_zero_end \/ uninvite_next \/ exit_end \/ exit_server \/ m_pong

Next == Joins \/ Commands \/ Bursts \/ Presence

Spec == Init /\ [][Next]_vars

----------------------------------------------------------------------------
(* Properties.                                                             *)

Cmds == [kind: {"none", "MODE", "KICK", "SJOIN", "JOIN0", "EXIT"},
         by: Users \cup {Srv}, chan: Channels \cup {NoChan}, level: 0..4, left: Nat,
         seen: SUBSET ModeLetters, keep: BOOLEAN, split: BOOLEAN, rank: Ranks]

TypeOK ==
  /\ chans \subseteq Channels
  /\ members \in [Channels -> SUBSET Users]
  /\ flags \in [Channels -> [Users -> SUBSET Status]]
  /\ users \in [Channels -> Int]
  /\ invites \in [Channels -> SUBSET Users]
  /\ mode \in [Channels -> SUBSET Flags]
  /\ limit \in [Channels -> 0..MaxLimit]
  /\ ts \in [Channels -> 0..MaxTS]
  /\ online \subseteq Users
  /\ channel \in [Users -> SUBSET Channels]
  /\ joined \in [Users -> Int]
  /\ invited \in [Users -> Seq(Channels)]
  /\ server_was_split \in BOOLEAN
  /\ cmd \in Cmds

\* The two sides of every membership agree, and each counter counts its
\* list: add_user_to_channel and remove_user_from_channel keep four places
\* in step through every handler, and a wrong `users' frees a channel that
\* has members or leaks one that has none.
MembershipConsistent ==
  /\ \A c \in Channels, u \in Users : u \in members[c] <=> c \in channel[u]
  /\ \A c \in Channels : users[c] = Cardinality(members[c])
  /\ \A u \in Users : joined[u] = Cardinality(channel[u])

\* A channel is in the hash table exactly while it has members
\* (sub1_from_channel), except inside the SJOIN that has just created it:
\* no empty channel stays behind to lend its modes or its timestamp to the
\* next user who joins, and no member is on a freed channel.
ChannelIffMembers ==
  \A c \in Channels :
     \/ c \in chans <=> members[c] # {}
     \/ cmd.kind = "SJOIN" /\ cmd.chan = c /\ c \in chans

NoRepeats(s) == \A i, j \in 1..Len(s) : s[i] = s[j] => i = j

\* The two sides of every invitation agree, none is listed twice, and a
\* pending one is for a channel that exists: user->invited never keeps a
\* pointer to a freed channel, nor chptr->invites one to a freed client.
InvitesConsistent ==
  /\ \A u \in Users, c \in Channels : u \in invites[c] <=> Contains(invited[u], c)
  /\ \A u \in Users : NoRepeats(invited[u])
  /\ \A c \in Channels : invites[c] # {} => c \in chans
  /\ \A c \in Channels : invites[c] \subseteq online

\* add_invite evicts before it adds: no list outgrows maxchannelsperuser.
InvitesBounded == \A u \in Users : Len(invited[u]) <= maxchannelsperuser

\* An invitation admits once.  JOIN consumes it, INVITE is refused for a
\* member, so a member who is later kicked and banned holds no invitation
\* that would take him past the ban; only a services administrator who came
\* in by SAJOIN keeps his.
InvitationConsumed ==
  \A c \in Channels : members[c] \cap invites[c] \subseteq SAdmins

\* A client that is gone is on no channel and on no list.
NoGhosts ==
  \A u \in Users \ online :
    \A c \in Channels : u \notin members[c] /\ u \notin invites[c]

\* What the handlers trust of the channel tables after each of their steps
\* (add_user_to_channel, remove_user_from_channel, sub1_from_channel).
ChannelTables == TypeOK /\ MembershipConsistent /\ ChannelIffMembers

\* What they trust of the lists of invitations (add_invite, del_invite).
Invitations == InvitesConsistent /\ InvitesBounded /\ InvitationConsumed /\ NoGhosts

\* One command of a sender never does more than the rank it had when the
\* command started, however many letters or targets it carries: a plain
\* user's changes nothing, a half operator's neither makes nor unmakes an
\* operator or half operator nor removes one from the channel (m_mode fixes
\* the level once, m_kick looks it up again for every target).
RankRespected ==
  [][cmd.kind \in {"MODE", "KICK"} /\ cmd'.kind = cmd.kind =>
       /\ cmd.rank = "user" => UNCHANGED <<chanVars, invVars>>
       /\ cmd.rank = "half" =>
            /\ \A u \in Users : (flags'[cmd.chan][u] \cap {"o", "h"})
                                   = (flags[cmd.chan][u] \cap {"o", "h"})
            /\ UNCHANGED invVars]_vars

\* Where an operator comes from: a client becomes one by creating the
\* channel (not while the server is split off, unless it is an oper or the
\* configuration allows it), by a command of someone who was operator or
\* better when it started, or by a SJOIN.  An existing channel without
\* operators therefore gets one only from outside.
OpProvenance ==
  [][\A c \in Channels, u \in Users :
       "o" \in flags'[c][u] /\ "o" \notin flags[c][u] =>
         \/ /\ c \notin chans /\ cmd.kind = "none" /\ u \in LocalUsers
            /\ server_was_split => u \in Opers \/ SplitOpOk
         \/ cmd.kind = "MODE" /\ cmd.rank \in {"op", "super"}
         \/ cmd.kind = "SJOIN" /\ u \in RemoteUsers]_vars

============================================================================
