# A TLA+ verification of solidircd

solidircd is an IRC daemon (a descendant of bahamut): a single-threaded event
loop that keeps users, channels and linked servers in linked lists and hash
tables. This project models the parts of it that are hard to get right and hard
to test, checks the models with TLC and proves their central invariants with
TLAPS. Source paths below are relative to the repository's `src/` directory.

## 1. The system

| Part | State | Operations | Hard behaviour |
|---|---|---|---|
| Channel tables (`channel.c`, `list.c`, `s_misc.c`) | per channel: members with status, counter, invitations, modes, +l, timestamp; per user: channels, counter, invitations | JOIN, JOIN 0, SAJOIN, PART, KICK, INVITE, MODE, SAMODE, SJOIN, exit of a client, loss of a server | every link is stored twice and counted twice; channels are freed by counter; one command has many targets |
| Ban lists and cache (`channel.c`, `m_nick.c`) | ban and exemption lists, a serial number; per member a cached answer and its serial | +b -b +e -e, SVSMODE, SJOIN reset, messages, nick changes | a stale answer marked valid |
| Mode merging (`m_sjoin`) | timestamp, flags, +l, +k, +j of two copies | the merge rules | both ends, and any order, must agree |
| Channel on the network (`channel.c`, `s_misc.c`, `m_server.c`) | a copy per server, FIFO links | SJOIN, PART, KICK, MODE, RESYNCH, SQUIT, burst | messages that cross, copies freed and re-created, splits |
| Nick collisions (`m_nick.c`, `parse.c`) | nick tables with timestamps | NICK, SVSNICK, KILL, QUIT, direction check | two owners of one nick; KILL by name races NICK |
| Nick history (`whowas.c`) | a ring, hash chains, a list per client | add, re-use, exit, lookup | entries re-used while clients point to them |
| Server links (`m_server.c`, `s_serv.c`, `zlink.c`) | server list, links, the form of the stream | SERVER, SQUIT, DKEY, compression, loss | cycles, simultaneous links, a stream that changes its form within one read |
| Registration (`s_user.c`, `s_auth.c`, `s_bsd.c`) | half-registered client, pending DNS and ident | NICK, USER, answers, PING, timeouts | any order of five events |
| Resolver (`res.c`) | query list, cache | query, retry, answer, timeout, client exit | late answers, freed clients |
| Configuration (`s_conf.c`) | blocks with reference counts | attach, detach, OPER, rehash | blocks replaced while in use |
| Send queues (`send.c`, `sbuf.c`) | shared buffers with counts, dead sockets | send to many, flush, exit | a message sent while another is being sent |
| Receive queues (`s_bsd.c`, `packet.c`, `ircd.c`) | queues, fake lag, the list of those who wait | read, parse, walk | exits and re-used structures while the list is walked |
| Throttle, clones, flood control (`throttle.c`, `clones.c`, `s_user.c`) | counters and timers | connect, message, timer, exit | counters that drift, lists with links back |
| User bans (`userban.c`, `klines.c`, `glines.c`, `m_shun.c`) | lists with expiry, a journal | add, remove, match, expire, replay | crashes between two file operations |
| User modes (`s_user.c`, `m_services.c`) | modes on every server, operators, counters | OPER, MODE, SVSMODE, SVSNICK | changes by services that cross the user's |
| WATCH, DCCALLOW (`hash.c`, `s_user.c`) | lists with links back | add, remove, exit | pointers to clients that are gone |
| Modules and hooks (`modules.c`) | hook lists | load, unload, call | lists changed while they are walked |

How they interact: everything runs in one thread, so a handler is never
interrupted; concurrency is between *servers* (messages cross on the links),
between the server and what it waits for (answers, sockets, the clock), and
inside long handlers (a loop whose body changes what the next iteration looks
at). Handlers call the list operations directly, the exit path (`exit_client`)
calls into every table, and a server tells its neighbours with
`sendto_serv_butone`.

What makes each part correct: the two sides and the counters of every link agree
and nothing points to a freed structure (tables); a cached answer that counts as
current is right (bans, resolver); limits hold whatever the order of events
(throttle, clones, floods); whoever waits is waited for, and is served
(resolver, registration, receive queues); once all messages are handled the
servers agree, or at least do not disagree about their own clients (network).
`PROJECT.json` lists every component with its status, and under `hazards` the
lines where something can go wrong that a test would hardly reach, with the
properties that would notice.

## 2. Modules

| Module | Models | Extends |
|---|---|---|
| `Channel` | one server's channel tables and every handler that changes them | – |
| `BanCache` | ban lists and the cache of one channel | – |
| `SjoinMerge`, `BurstMerge` | the merge rules of `m_sjoin`; servers that burst pairwise | – |
| `NetChannel` | one channel on a tree of servers with FIFO links and splits | `SjoinMerge` |
| `NickNet` | nicks on a tree of servers: tables, history, collisions, KILLs | – |
| `ServerTree` | the tree of servers: SERVER, SQUIT, links made and lost | – |
| `LinkStream` | the stream between two servers, encrypted and compressed | – |
| `Umodes` | user modes and operators on two servers, with services | – |
| `LinkedLists`, `Common` | lists as sequences; clients, nicks, null, the clock's bound | – |
| `Whowas`, `NickHistory` | the WHOWAS ring, and the history it implements | `Common` |
| `Watch`, `DccAllow`, `Message` | WATCH, DCCALLOW, and PRIVMSG with its flood limits | `Common` |
| `Hooks` | loadable modules and their hooks | `LinkedLists` |
| `Resolver` | requests, answers and the cache of `res.c`, and who waits for them | `Common` |
| `RecvQueue` | reading, parsing and the list of clients with lines left | `Common` |
| `SignOn` | from accept to registration, and the timeouts | `Common` |
| `ConfRehash` | classes, blocks, and the connections that point to them | `Common` |
| `SendQueue` | shared buffers and send queues | `Common` |
| `Throttle`, `Clones` | connection throttle; clone limits, which throttle by force | `Common`; `Throttle` |
| `UserBan`, `Klines` | bans on users; K-lines and their journal | `Common`; `UserBan` |
| `MC*` | instances for TLC | the modules they instantiate |
| `ListLemmas`, `*Proofs` | theorems, see section 4 | the modules they are about |

Every definition that models code has the name the code gives it where TLA+
allows, and `PROJECT.json` (`map`) names its lines. Definitions whose comment
starts with "Mutant" are deliberately wrong variants, used to show that a
property notices the mistake; no specification refers to them.

A handler that is one block of code is one action, including all the list
operations it calls. A handler that is a loop whose body may change what the loop
looks at is a start action, one action per iteration and an end action, with a
variable that records where it is. Parameters of a command are chosen from small
sets; texts, replies and formatting are left out.

### Channels

**`Channel`.** Variables are the fields of the structures: `members`, `flags`,
`users`, `mode`, `limit`, `ts`, `invites` of a channel; `channel`, `joined`,
`invited` of a user; `chans` and `online` are the two hash tables. A freed
channel is shown as the zeroed structure `make_channel` returns. MODE (level
computed once, many letters), KICK (rank looked up per target), SJOIN (channel
created first, nicks added one by one), JOIN 0 and `exit_one_client` are loops,
and `cmd` records which of them runs. `mode_level`, `check_level` and
`may_set_flag` carry the authority rules: operators, half operators, services
administrators, U-lined services and servers. Letters: o h v, l, and of the
parameterless ones i (which drops invitations), O (opers only), r (services
only) and m, which stands for all letters that `set_mode` handles in its default
branch. What a user is refused for reasons this module does not carry (+k, +j,
+R, +S, a ban, or an exception by +I) is chosen freely when he joins (`Gates`).

**`BanCache`.** One channel; an identity is a nick and a host, a mask is the set
of identities it matches. `is_banned`, `remember` and `can_send` follow the
code's use of `cm->banserial`; `seenAs` is a history variable that records for
which identity an answer was computed, or that it was put there without
matching, as `add_user_to_channel` does. A member's status and +m matter because
`can_send` asks `is_banned` only without them.

**`SjoinMerge`, `BurstMerge`.** `merge_mode` is the block "check overriding modes
first ... now merge"; keys are numbered in `strcmp` order. `Modes` is the set of
modes `set_mode` can store: +j has both parameters or is "+j 0". A timestamp of 0,
which a +o or +h by a server without one leaves behind (`channel.c:1739`, `:1843`),
wins against none and loses to none (`wins`): both mode sets are merged and the
result has timestamp 0. `BurstMerge` lets any number of servers, whose copies start
with any timestamps, 0 too, exchange bursts pairwise.

**`NetChannel`.** Every server has a copy (timestamp, members, operators, modes);
`link` is a FIFO queue per direction, which is what a TCP connection gives. A
client's command changes its own server's copy at once and is sent to every
link; `receive_*` are the same handlers reached from a server. `from` and
`Behind` model the direction of a client (`acptr->from`), which `m_sjoin` tests.
Losing a link drops what is on it and removes everyone behind it on both sides
(`exit_server`); a new link starts with both sides sending their whole copy.
`crossed` is a history variable: some command was given at a server while a
message was on its way to it; `kicked` that there was a KICK. Timestamps are those
of a clock that is never 0 (the merge of timestamps 0 is `BurstMerge`'s).

### Nicks, servers, links

**`NickNet`.** `tab[s][c]` is what server `s` knows of client `c`: nick,
timestamp, and whether it has sent USER. The servers themselves find a client
only by its nick, and messages carry nicks (a `NICK` that introduces a client
also carries its user and host, here `who`). `hist[s][n]` is the `online`
pointer of the newest WHOWAS entry for `n`, which is all `get_history` looks at;
whether that entry is younger than KILLCHASETIMELIMIT is a free choice
(`Victims`). `m_nick` is split by its branches: first nick, nick before USER,
nick change of a local client; from a server a new client (`recv_NICK`) and a
nick change (`recv_CHANGE`). `ruling` is the comparison of timestamps and users
that both share. `Receive` is `parse`: a prefix nobody has is answered with a
KILL (`remove_unknown`), a prefix of somebody on another side is ignored
(`cancel_clients` for servers with timestamps). Two history variables say which
histories a property is about. `crossed`: a nick was taken while news that
somebody gave it up, or given up while any news about it, was on a link. `late`:
a KILL found that its victim had changed its nick longer ago than
KILLCHASETIMELIMIT. Simultaneous takings of a nick are neither, they are what
`m_nick` is there to settle. Links are not lost; hosts are not masked, so that
all servers see the same user and host; the operator who sends a KILL is known
everywhere; restricted nicks, flood limits and malformed nicks, which only
refuse a command, are left out.

**`ServerTree`.** Each server lists the servers it knows, with the link they are
behind and their uplink (`net.tab`), and is told of changes by SERVER and SQUIT.
There is no protection against cycles other than that a server which hears of a
server it has drops one of the two links. Links are made along given routes, may
be lost, and may be squitted; what is on a lost link is lost. All servers are
NOQUIT and UNCONNECT capable, as this one is.

**`LinkStream`.** The stream between two servers changes its form as it goes:
DKEY turns it encrypted, `CAPAB_DOZIP` compressed, each way at a place of its
own, and the line that does so can end anywhere in what one read returns. Each
character carries its place in the compressed and in the key stream; an end
that reads one at a wrong place has lost the stream.

**`Umodes`.** Two servers, users on the first, services behind the second. MODE
carries what changed, so each server keeps a copy; services change modes and
nicks on their side at once. `operList`, `attached` (the count of an oper
block), and the LUSERS counters are the tables that must follow. `past.crossed`
and `past.drifted` are history variables: a change by services crossed one by
the user; a change that the code does not count.

### Tables that point to clients

Client structures are freed and handed out again, so a table that is not told
of an exit points to somebody else. **`Whowas`**: a ring of entries, each in the
chain of its nick's hash and, while its client is on line, in the list of that
client; **`NickHistory`** is what it promises, the last nicks given up, newest
first. **`Watch`**: a client's list of nicks, the table of nicks with the clients
that watch them, and what each client was told. **`DccAllow`**: links in pairs.
**`Message`**: the targets of one PRIVMSG one after the other, the time slots of
the target limit, and the lists of CTCP senders with their links back. A slot of the
target limit holds a pointer that nobody clears when its client exits
(`s_user.c:1572`): a newcomer who gets the structure counts as the one who left.
`life` counts, as history, how often a structure went to a newcomer, so that people
can be told from structures. Opers, users with mode F, oneself and services are
exempt (`unlimited`), and `FludModes` makes and unmakes opers.
**`Hooks`**: `calls` is the stack of running `call_hooks`; the code of a module is
arbitrary, except that it adds no hook while it is shut down. It may delete the hook
that is being called, its own or one of a call further out: `call_hooks` then reads
`lp->next` of a freed link (`modules.c:679`). Such a call is astray
(`stray_returns`): it ends, calls any hook there is, or takes the server down
(`Lost`).

### One server and what it waits for

**`Resolver`.** Queries are datagrams: lost, answered late, answered twice, and
their ids are used again. A query may time out whenever it is outstanding. The
cache has `MaxCached` entries, of which the oldest goes; clients point into it.
Two ends of a request are left out, which both leave its client waiting for
`check_pings`: `get_res` removes a request of which nothing was sent after an answer
that was no use (`res.c:1396`), and `res_mkquery` may fail for a name
(`res.c:565`).

**`RecvQueue`.** Data comes in numbered pieces, some of which end a line. A client
that is ahead of its time has the rest left in its queue and is put on
`recvq_clients`; a line may end its own or another connection while that list is
walked. `sbuf_getmsg` looks for the end of a line as far as its caller's buffer of
8192 bytes goes (`Block`), while `client_dopacket` has room for 512 (`BufSize`): of a
longer line only the beginning is parsed, without the null at its end, and what
`parse` makes of the memory behind it is left open, as what it makes of any line is.
A line may make a connection a server, or one that negotiates keys (`nego`): what is
then in its queue is parsed a block at a time (`sbuf_get`), what is read later at once
(`read_server`), even while the queue is not empty; `late` notes that. What a block of
several lines costs a negotiating link is nothing or one line's price.

**`SignOn`.** Times are ages (how long ago something happened). Nothing is read
from a connection until DNS and ident are over, and `check_pings` gives them up.
Whether `register_user` lets a client in is arbitrary here; clones and bans have
their own modules.

**`ConfRehash`.** Classes, connect, allow and oper blocks; a rehash marks what is
still used, and it goes with its last user. Good and bad files.

**`SendQueue`.** A queue is a list of (buffer, offset); a message to many is one
buffer that all their queues use (`mem.shares` while it is being sent), freed by
the last to be done with it. `send_message` itself writes only when the queue has
grown by 4 (a server's by 8) kilobytes since the last write (`due`, `lastsq`) or
during a net split; otherwise the event loop does. (A notice to an operator that makes
a write due is written by the loop as well.) Sending may find a link dead, which sends a notice to
the operators while the message to many is being sent. `mem.want` and `mem.mixed`
are history variables: what a link was sent, and the links that were put a shared
buffer after something had been appended to it.

**`Throttle`, `Clones`.** `attempts` is the history of an address's connections, which
the record only counts. `clones_add` asks `MyConnect` whether a client is local,
`clones_remove` whether its uplink is this server (`clones.c:275`, `:304`); they differ
for a NICK that a server sends in the name of this one, which is killed as coming from
the wrong direction (`register_there` with `me`). `wrong` counts these, as history.

**`UserBan`, `Klines`.** Bans on an address with any user (`IpMasks`) are looked up when
a connection is accepted (`accept_unbanned`, `s_bsd.c:1275`) and not again; the others
when its user registers (`register_unbanned`, `s_user.c:928`). A new K-line or G-line on
an address ends unregistered connections too (`userban_sweep`), an akill does not
(`m_akill`). `spared` notes, as history, who was let through which ban. In `Klines` the file is a
sequence of entries; the server may crash between any two steps and in the
middle of a write, and the file operations of a compaction may fail. Otherwise a
write is taken to be whole: `klines.c` does not look at what `write` returns, and a
short one on a full disk, with the server running on, is not modelled.

## 3. What TLC checks

All runs are exhaustive for their bounds. Parts that share no state are checked
side by side in one run: the initial state picks a part (or a scene), and the
others stay as they begin, so the states are those of the parts added, not
multiplied.

| Run | Instance | Shows |
|---|---|---|
| `channel` | 2 local clients (one an oper and services administrator), 1 remote, 1 channel, 2 parameters or targets per command, timestamps 0..2; for messages 2 local clients, 2 remote ones and a service, 1 channel, target limits 1 and 2, CTCP limit 1, 3 messages, clock to 3, one structure used again, an oper made and unmade | `ChannelTables`: types, both sides and counters of every membership agree, a channel exists exactly while it has members; `RankRespected`: a command never exceeds the rank its sender had when it started, whatever it did to the sender on the way; `OpProvenance`: where operators come from; `FludRight`: fluders and fludees mirror each other and a flood is stopped; `TargetsBounded`: nobody addresses more people than the limit allows, but for those whose structure went to another of them |
| `tables` | 3 clients, 3 nicks; ring of 2; one entry per WATCH and DCCALLOW list; 2 channels, letter i, invitation limit 1; 2 modules, 3 hooks, calls nested 2 deep | `WhowasRight`: chains and lists are sound, the newest entry is found; `ImplementsHistory`: the ring refines `NickHistory`; `WatchRight`: both tables mirror each other, and what a client was last told is true; `DccMirror`; `Invitations`: lists mirror, are bounded, are consumed, name nobody who is gone; `HooksRight`: no hook of an unloaded module, none missed, but by a call whose own hook was deleted |
| `server` | 1 member, 2 nicks, 2 hosts, serial up to 4; 3 servers, timestamps 0..2; 2 links and 2 classes; 2 users and a server, buffers of 2 and 3; throttle at 2 connections in 2 seconds, clock to 8; clone limits 1 and 2, 1 introduction that names this server; 1 connection, times 3/9/4/2; 1 visitor, a mask on its address and one on its host, bans of 0 or 2 seconds, 2 at a time, clock to 2, journal of 2 lines compacted after every second | `CacheSound`: a current cached answer is right; `MergeLaws`, `BurstAgrees`: modes stay well formed, the order of bursts is irrelevant unless a timestamp of 0 meets two different ones, both ends agree; `ConfRight`: no pointer into freed configuration, counters are right; `SendqRight`: counts of shared buffers are right, a queue is what was sent; `ThrottleHolds`: who was sent away stays out, no burst is let in; `ClonesRight`: counts are right, but for introductions that name this server, and so is the limit; `SignOnRight`, `Timely`: read exactly when the lookups are over, nobody kept for ever or dropped early; `BansHold`: bans keep out whom they match, with the two exceptions below, and shuns end; `JournalFaithful`: a replay gives what is in force |
| `live` | 2 servers, 4 commands, 1 split; 1 client and 1 connect block, 3 ids, cache of 1, 2 requests; lines of at most 2 pieces, a buffer for 1 of them, blocks of 2, 5 connections and pieces | `Converges`: if no command crossed a message the copies are equal once all is handled, and a burst repairs what an earlier crossing left; `LookupRight`: a client waits exactly for its own request, and gets its own host; `RecvqRight`: who has lines left is on the list once, lines are parsed in order, and whole if they fit into the buffer, but for a server whose queue was overtaken; liveness: `Settles`, `DNSEnds`, `LinesServed` |
| `net_members` | 3 servers in a line, 4 commands with KICK, 1 split | `MembersRight`: a client that is on the channel at home is on it everywhere; without a KICK there is one member list |
| `pair` | 2 servers; 3 clients, 2 nicks, 2 commands after the first NICKs; reads of 3 characters; 4 changes of modes | `NickTables`: one client per nick, a sound history; `NicksAgree`: nobody is introduced twice, collisions end alike unless news was crossed; `LinkTransparent`: each end parses what the other sent; `OperTables`, `UmodesAgree`; liveness: `Settles` (KILLs do not answer KILLs for ever), `LinkUp` |
| `three_servers` | 3 servers; in a line with 3 clients, 1 nick or 1 client, 2 nicks, 4 commands; a ring of routes, 3 connections, 1 loss or SQUIT | `OneOwner`: at most one client keeps the nick, whatever crosses; `Chased`: KILLs that meet nick changes end the client everywhere or nowhere; `TreeAgrees`: when nothing is under way the links form a tree that all servers agree on; liveness: `TreeCalms` |
| `ban_nick`, `net_ts`, `nick_twice`, `sendq`, `klines` | see the cfg files | violated, see below |

Why the bounds are enough. Two local clients give a sender and a victim of the
same server; the remote one gives the other side of every rule that asks for
`MyClient`. One channel suffices for authority (no rule relates two channels)
and two for invitations (with the limit at 1 the second invitation evicts the
first). Two parameters are the least with which a command can change its own
sender's status and go on. Limits of 1 make every list full at once, and a third
client is the one that a re-used structure could be taken for. Of the target slots
there are two, of which a young client has one, so that an old slot, a re-used
structure and a third person can meet. Three servers in
a line are the least with a relay, in a ring the least cycle. For nicks, two
equal and one different user and two values of the clock give every outcome of
`ruling`. The clock of the throttle reaches beyond a z-line and its repetition.
Reads of three characters can end before, in and after the line that changes
the form of the stream. The proofs lift the bounds for most of the safety
properties (section 4).

`CHECK_DEADLOCK FALSE` is set in all runs but `ban_nick`: commands, splits, requests or the clock are bounded there, so that a run may
simply be over.

Fairness. Nothing is assumed of clients, networks, links or the clock of others.
`FairSpec` asks for weak fairness of receiving a message (`receive`, `Receive`):
the event loop polls every socket and reads whatever is there, so a message at
the head of a link is handled. `TreeFairness` is the same for `ServerTree`,
written out: either again and again nothing can be delivered, or again and again
something is. `LinkFairness`: `io_loop` reads a connection with data and flushes
the others in each round. `ResolverFairness`: `io_loop` calls
`timeout_query_list` again and again (`nextdnscheck`), so an outstanding query
times out. `RecvFairness`: each round of `io_loop` looks at the clock, walks
`recvq_clients` and reads whoever has data; each of these has to wait while the
loop is in a handler, so strong fairness is what the loop gives, and weak
fairness of the handler itself (`InLoop`).

### Disagreements with what the source says

* `net_ts`: the comment "whichever TS is smaller wins." (`src/channel.c:4731`).
  A's channel (ts 1) is left by its last member while B's client creates the
  channel (ts 2) and the messages cross. B lowers its timestamp to 1 for A's
  SJOIN; A has freed its copy, finds the channel new and takes 2. Every message
  is handled and the two servers keep different timestamps.
* `ban_nick`: the comment "before we change their nick, make sure they're not
  banned on any channels" (`src/m_nick.c:504`). A client that entered past the
  ban test (invitation, SAJOIN) has a cache marked current that says "not
  banned", and `can_send` believes it until some list changes.
* `nick_twice`: the comment "We cannot have TWO users with same nick--purge this
  NICK from the system with a KILL" (`src/m_nick.c:271`). The server that keeps
  its own client ignores the newcomer without a KILL and relies on the other
  server to decide alike. When the newcomer changes its nick meanwhile, the
  other server never sees that collision: `a1` and `b1`, two connections of one
  user, both keep the nick, each unknown to the other's server.
* `sendq`: the comment "Send to *local* ops only." (`src/send.c:1273`).
  `sbuf_put` (`src/sbuf.c:346`) appends to the last buffer of a queue whenever
  its count is at most 1, without asking whether it is shared. A message to a
  channel has been put into an operator's queue only, when the next receiver, a
  server, turns out to be over its limit (the operators' notice is sent by
  `send_message`, `src/send.c:195`); the notice is appended to the buffer that the
  other members are then given.
* `klines`: the comments "This allows K-Lines to be saved across restarts and
  rehashes." and "all active K-Lines are dumped into a new file"
  (`src/klines.c:32`, `:35`). A replayed K-line has the time it has left as its
  duration (`src/klines.c:372`), and the compaction that follows
  (`src/klines.c:582`, `src/userban.c:1671`) drops it when that is below
  KLINE_MIN_STORE_TIME: the next restart ends it before its time.

### Exceptions the properties state

Some properties hold only with exceptions, each of which the code makes and the runs
reach; a property without it would be violated.

* `BansHold`: who registers while a shun matches is not asked for other bans, as the
  first ban found decides; and a connection that has been accepted but not registered
  when an akill on its address arrives gets through, because `m_akill` looks at
  registered users only (`s_serv.c:3434`) and `register_user` skips bans on addresses.
* `ClonesRight`: a NICK from the wrong direction that names this server lowers the local
  count of its address and site by one it never raised (`clones.c:304`); each lets one
  more client past the local limit while the entry lives.
* `TargetsBounded`: two people who had the same structure one after the other share a
  slot.
* `HooksRight`: a call whose own hook was deleted goes on from a freed link.
* `RecvqRight`: what a server sends while its receive queue is not empty is parsed
  before what is in the queue; and lines over 512 bytes are cut.
* `MergeLaws`: a copy with timestamp 0 that meets two copies of different timestamps
  keeps the modes of both when it meets the newer one first (the two others would have
  dropped the newer one's modes); the timestamp is 0 in any order.

On three servers a three-way collision, and on any network a crossing, can also
leave a client known on one server and not on another, which is why `NicksAgree`
is checked on two servers and for histories without crossing, and `OneOwner` (a
weaker promise) on three. `MembersRight` has no converse for histories with a
KICK: one that crosses a PART and a new JOIN leaves a member on one server who is
gone at home, which the long comment in `m_kick` ("The channel is desynced. That
can STILL happen with TS") accepts.

### Other observations

Met while reading; the models follow the code in them, or leave them out as said.

* Configuration: `del_queries` is not called when a connect block is freed
  (`res.c:409`); `merge_opers` does not give back the class of an oper block it
  prunes (`s_conf.c:2109`); `acpt` stays set after a failed handshake, and two
  links that share a connect block reset it for each other, which `ConfPointers`
  excepts (`shared`).
* Throttle: a forced throttle on a z-lined record is forgotten when the z-line
  ends.
* K-lines: SIGHUP with a bad configuration drops all K-lines and returns before
  the replay; REHASH TKLINES clears memory but not the journal;
  `klinestore_init(1)` with a closed journal replays into lists that are not
  empty; `glinestore_init` is never called; `m_gline` relays seconds where receivers parse minutes.
* Channels: a malformed SJOIN leaves an empty channel (`channel.c:4687`), and
  `banserial` may wrap (`channel.c:445`); neither is modelled. LIST's help swaps
  T> and T< (`channel.c:3917`).
* Counters: `do_server_estab` decrements `Count.unknown` for outgoing links too,
  SVSMODE does not touch `Count.oper`, `m_nick` counts a user with both o and O
  twice; `send_lusers` recounts now and then.
* Links: the two ends may disagree on which of two links is the younger; the
  accepting end never compresses (`m_server.c:377`); `zip_output` tests a pointer
  where its target is meant (`zlink.c:208`), so that data is held until a block
  is nearly full; `m_svinfo`'s clock check is skipped on encrypted links.
* Connections: `engine_del_fd` moves the last slot, which a batch of events may
  already have been read for (`s_bsd.c:1658`); a failed `safe_SSL_accept` calls
  `close_connection` without `exit_client`.
* Shuns: m_shun compares the pointer `parv[1]` with 0 where its number is meant
  (`m_shun.c:77`), so that a shun of 0 seconds is set, and over at once.

## 4. What is proved

All theorems hold for every value of the constants that satisfies the named
assumptions of the modules, and none uses a bound on the number of clients,
channels, servers, nicks, masks, requests or steps. The assumptions say that
constants have their kinds (limits are naturals, positive where the code divides
or compares so; local users are not remote ones; `None`, the null pointer, is no
client and no record), that connections are finitely many (MAXCONNECTIONS), and,
for the throttle and the timeouts, relations between the numbers that the code's
defaults satisfy: a z-line is longer than the trigger time, records outlive two
trigger times (`ThrottleAssumption`), and the connect timeout ends before an
unregistered connection does (`SignOnAssumption`). The network is a tree, of any
shape (`NetAssumption`): over a link lies one of its two ends' way to a server, and
every way leads, hop after hop, to its server. TLC evaluates them in every run.

| Theorems | State | Property of run |
|---|---|---|
| `ChannelProofs`: `TablesAlwaysSound`, `InvitationsAlwaysSound` (with their parts `TypeCorrect`, `MembershipAlwaysConsistent`, `NoEmptyNorFreedChannel`, `InvitesAlwaysConsistent`, `InvitesAlwaysBounded`, `InvitationsConsumed`, `NeverGhosts`), `RankAlwaysRespected`, `OpsAccountedFor` | `ChannelTables`, `Invitations`, `RankRespected`, `OpProvenance` | `channel`, `tables` |
| `BanCacheProofs`: `TypeCorrect`, `CacheAlwaysSound` | `CacheSound` | `server` |
| `BanCacheProofs`: `BansAlwaysHold`, `JournalAlwaysFaithful` | `BansHold`, `JournalFaithful` | `server` |
| `LinkProofs`: `LinkAlwaysTransparent` | `LinkTransparent` | `pair` |
| `LinkProofs`: `MembersAlwaysRight`, `CopiesAlwaysSound` | `MembersRight`, part of `Converges` | `net_members`, `live` |
| `LinkProofs`: `MergeLawsHold` (with `WellFormed`, `MergeOrderIrrelevant`), `BurstsAgree` | `MergeLaws`, `BurstAgrees` | `server` |
| `NickNetProofs`: `NickTablesSound` (with `NickTypeCorrect`, `NicksUnique`, `HistorySound`) | `NickTables` | `pair` |
| `NickNetProofs`: `OperTablesAlwaysRight`, `UmodesAlwaysAgree` | `OperTables`, `UmodesAgree` | `pair` |
| `ServerProofs`: `SignOnAlwaysRight`, `SignOnTimely`, `ClonesAlwaysRight`, `ThrottleAlwaysHolds`, `ConfAlwaysRight` | `SignOnRight`, `Timely`, `ClonesRight`, `ThrottleHolds`, `ConfRight` | `server` |
| `TableProofs`: `WhowasAlwaysRight`, `RingImplementsHistory`, `WatchAlwaysRight`, `DccAlwaysMirrors`, `HooksAlwaysRight`, `TargetsAlwaysBounded`, `FloodsAlwaysStopped` | `WhowasRight`, `ImplementsHistory`, `WatchRight`, `DccMirror`, `HooksRight`, `TargetsBounded`, `FludRight` | `tables`, `channel` |
| `LiveProofs`: `LookupAlwaysRight`, `LinesAlwaysRight` | `LookupRight`, `RecvqRight` | `live` |
| `LiveProofs`: `SendqAlwaysRight` | `SendqRight` | `server` |

`ListLemmas` has what they share about lists of any length: what `RemoveFirst`,
`RemoveAt`, `Keep` (a walk that unlinks several entries) and pushing do to the
order, the members and the number of occurrences, the sum `Total`, and what
`FlattenSeq` is at either end of a list of lists (`FlatAppend`, `FlatHead`). Induction
over a length is done by hand there (`Least`, `InductUpTo`: a counterexample has
a least one).

**Channel.** The inductive invariant is

    IInv == MSync /\ ISync /\ Rest /\ CmdOK /\ ChannelIffMembers /\ Tables

`MSync` (both sides of a membership, both counters, finiteness of the sets they
count) and `ISync` (both sides of an invitation, no repetition, the bound) are
kept by the list operations, each with a lemma: `AddUser`, `RemoveUser`,
`DelInvite`, `DelAllInvites`, `AddInvite`. They need each other's side of the
state only at one point, the freeing of a channel, which is why they are stated
apart. `CmdOK` says that a running handler's channel and client are real ones,
and that the channel of a running SJOIN exists, without which its first nick
could be added to a freed channel. `Tables` ties the tables together: members and
invited clients are online, invitations are for existing channels and for clients
of this server, and not for members. The last is not inductive without "only
local clients are invited", because remote joins do not consume invitations.
`RankOK` adds for the two action properties that the level m_mode fixed is that
of the sender's rank at the start, and that a half operator who kicks still is
one, as it cannot be among its own targets. `EnterStep`, `LeaveStep` and `QuietStep` treat the three kinds of
handlers; one lemma per handler and `StepIInv` put them together.

**BanCache.** `CacheSound` speaks of the identity a member has now; a member may
change it and change back, so the invariant must say that a current answer is
right for the identity it was computed for (`CacheExact`), and that no answer
carries a serial from the future (`SerialsBehind`), so that a renewed serial ages
all of them.

**BurstMerge.** `MergeCommutes` and `MergeAssociates` show that the merge of equal
timestamps is commutative and associative on well-formed modes; the rule for +j
is recognised as a maximum in a linear order (set before unset, "0" first, then
more joins, then less time), which is where well-formedness is needed. With a
timestamp of 0 among three, the three are merged in any order if the others are equal
or 0 too, and only the timestamp is the same otherwise.

**NetChannel** (`NetInv`). `MembersRight` speaks of the moment when nothing is under
way; the invariant says, for every client and every link on the way to its server,
what the messages under way will make of the copies. `After` is whether the client
is a member below once the messages to there are handled (the last one about it
decides), and `Sees` says that this is what the server above has, unless a KICK is
on its way up. A link that is down has nothing on it and nobody behind it on the
channel. So each action has one thing to show: that what a server tells its other
links is exactly the change it made to its members (`RelayOK`), that this change is
what the message it handled said of clients on the sender's side, or a KICK
(`MsgOK`), and that the answer to a RESYNCH or to a first join adds nothing but
members (`AnswerOK`). From there on `HandledInv` (a message) and `GivenInv` (a
command) do the work for all of them, with one case per position of the link:
above the server, below it, the link the message came from, or elsewhere. PART,
SQUIT and a client's SJOIN come from the client's side only (`NetMsgs`), and the
nicks of a burst from other sides are ignored; a KICK may come from anywhere, and is why there are two statements: a KICK that meets a new JOIN leaves
a member behind, so without `kicked` the copies agree, with it they only include
what the server above has. The step from neighbours to all servers uses that every
way ends at the client's server.

**LinkStream** (`LinkInv`). `LinkTransparent` compares what was parsed with what was
sent; the invariant must account for every character between the two. What an end
ever sends is known in advance (`Line`, the i-th line, by what the connect blocks
want), and so is its p-th character with its codings (`Code`): encrypted from the
13th on, after DKEY DONE, and compressed after SVINFO ZIP (`ZBase`). What is held
back, on the wire, read and not looked at, left in `nbuf`, and gathered of a line
are then consecutive pieces of one stream, each with the codings of its stage
(`Coded`), and the counters of an end are its place in them (`Writes`, `Read`).
`Ready` says that the reader is in the form of the next character: this is where
decrypting or decompressing the rest of the buffer at the right line is needed,
and what a read that ends in the middle of the change would break. `Knows` ties
state and flags to the numbers of lines parsed and sent, so that each line finds
its handler in a state that accepts it: neither end is ever `gone`. There is one
lemma per handler of the negotiation (`ParseFirst`, `AnswersStart` to
`AnswersExit`, `ParseServing`), one per form a buffer may take (`Inflated`,
`TurnKey`, `TurnZip`, `NextBuffer`, `Arrived`) and one per action (`StepRead`,
`StepContinue`, `StepSay`, `StepFlush`, `LinkReadsOn`). The only assumption is that
the sizes of buffers and reads are positive.

**NickNet.** `NickUnique` and `HistSound` need each other's context: a nick is
unique only if a newcomer's owners exit first and a client that has not connected
has no entry; an entry of the history stays good only if clients in it are
registered and registered clients have nicks. The invariant states this per table
(`GoodTab`, `GoodHist`, `GoodFresh`) and adds that a NICK on a link is of a client
that has connected. Nothing is assumed of the network's shape, nor of what else
is on the links.

**Umodes** (`UmodeInv`: `UmodeTypes`, `Listing`, `Blocks`, `UmodeCounts`, `UmodeSeen`).
`oper_list` has each operator once, so `without_oper`, which takes one entry out,
leaves none; the counters are tallies of the user table until `past.drifted`, and
while they are no SVSMODE under way changes any letter but `r`. Agreement at rest
becomes a statement about every moment: the messages under way about a user lead,
one `After` the other, from what the server behind has to what the other has
(`Course`). That much is true of whether the user is there always, and of nick and
modes unless a change by services crossed one by the user, when messages go one
way only (`Silent`). `r` is only had for nicks services have registered, and so is
every `r` still under way.

**SignOn** (`SignInv`: `SignTypeOK`, `CountsRight`, `FlagsRight`, `ClocksRight`).
The counters are compared with cardinalities of finite sets; `Timely` needs to
know how old each event can be when the next `check_pings` is due: nothing is
heard while a lookup lasts, so that it is given up before the connection is too
old, and a PING is sent after a whole ping's silence.

**Clones** (`ClonesInv`). Each entry's counters are the numbers of its clients
(`Counted`), an entry exists exactly if it counts someone or has a limit, and an
address whose limits nobody eased has at most `LocalLimit` local clients of those
that are not exempt, and one more for each introduction that named this server: the
local counter is the number of local clients less `wrong`.

**Throttle** (`ThrottleInv`). The promise is about the history of connections, the
code keeps one record per host; the invariant says of each host what its record
knows of that history: no record (everything relevant is past), a z-line (the
refusals that still hold end with it), or a count (those let in since it began are
counted, and those let in within the last `TrigTime` are at most `TrigCount - 1`
more).

**ConfRehash** (`ConfInv`). Why no class is freed under a pointer is counted: `refs`
is at least the connections, connect, allow and oper blocks of the class
(`ClassesOK`; at least, because a freed oper block keeps its reference), so that a
marked class without references has none of them. What a step adds to `refs` is
compared with what it does to the four sets (`Moves`). The allow and oper blocks
are counted likewise; a connect block is there because a block that one link has
notes some link in `acpt` (`ClaimsOK`), though not always its own: one that is
turned away leaves its name.

**Klines** (`KlinesInv`: `ListOK`, `FileOK`, `JournalOK`, `ShunEnds`, `BannedGone`).
What a replay makes of the file is a statement about all its lines, and no
induction over the file is needed at a step if it is said line by line: a line
*stands* (`StandsAt`) if it sets a mask, its time is not over and no later line
lifts it. Between two lines that set a mask the first is lifted or over
(`OneAtATime`, of every file, also one whose journal is closed, because a restart
reads it); the lines that stand are the stored K-lines, with the same end
(`AgreeOn`, of an open journal), so that time ends both at once. `ReplayMask`, by
one induction over the lines, says that a replay yields a K-line on a mask just if
a line stands; `Dumped`, `PlusWritten` and `MinusWritten` say what a compaction and
an entry do. `BannedGone` needs the journal: SIGHUP drops the K-lines and replays
them without a sweep, and nobody it matches is online because each was in force
before. Bans on addresses are about connections as well: one that is there when such a
ban comes is swept, or in `spared` if it was an akill, and none is accepted later; a
pair stays in `spared` through registration. Assumed of the constants: finitely many masks, natural times and bounds.

**Whowas** (`WhowasInv`). The age of an entry is its distance from the ring's
position; chains are newest first by age, an entry that has been filled is in the
chain of its nick and, if its client is on line, in that client's list, once.
The refinement mapping reads the ring from the position backwards; each step of
`Whowas` is a step of `NickHistory` or none.

**Watch, DccAllow, Message, Hooks.** `WatchInv`: nicks have one owner, the tables
mirror each other, and the last thing a client was told of a nick it watches is
true. `DccInv`: links come in pairs, once. `TargetsInv`: every target addressed
within the time has a slot at least as recent as the message, whoever had the
structure then; the bound is the number of slots, as of the people who had one structure only
the last counts. `FludInv`: the two lists mirror, and the counter of a sender
is at least the number of its CTCPs that got through. `HooksInv` adds to
`HooksRight` for each running call what it has called and still owes, in terms
of positions of the list as it now is; a call that went astray owes nothing, and
leaves the lists and the calls around it alone.

**Resolver** (`LookInv`). Ids and clients occur once in the request list, the
waiting clients are those in it, and a pointer into the cache is to an entry with
the client's own address that is still there.

**RecvQueue** (`RecvInv`). What was sent by a connection is parsed, queued and
unread, in this order (of a server that was overtaken, nothing is said of the order);
the list has at most one live link per client, before all
of its dead ones (a structure may be re-used while a dead link to it waits to be
unlinked); the clients with a live link are those marked so; the loop is at a
client that exists and, in the walk, at its live link.

**SendQueue** (`SendInv`). To `SendqRight` it adds that no queue uses a buffer
twice (so that a count of queues is a count of users, and appending to the last
buffer of a queue changes only its end), that a use of a buffer has something left
in it (so that an empty queue has no users, and `sbuf_delete` of everything ends
with an empty list), and, for a message to many, that those it has still to reach
are different links, none of which uses the buffer it will be put. `Kept` is what
every way of sending does: it leaves a right memory, the same shared buffers, and
no queue with a new use of one; that is why the notices that a dying link causes
between two receivers do no harm to the counts. `sbuf_delete` and `sendto_ops` are
loops; `TurnOK` and `Kept` hold after each turn. The data of a buffer that was
appended to while it was being shared is what `mem.mixed` excepts; the counts, the
limit and the other queues are right nevertheless.

### Only model-checked

* Liveness (`Settles`, `DNSEnds`, `LinesServed`, `LinkUp`, `TreeCalms`): beyond the
  prover.
* Agreement of servers on more than the members of a channel once all messages are
  handled (`Converges`, `NicksAgree`, `OneOwner`, `Chased`, `TreeAgrees`). The
  invariant of `NetChannel` is about one client and one link at a time; operators,
  modes and timestamps depend on each other and on the whole history of bursts, and
  a collision of nicks involves two clients and their servers, so an invariant would
  have to describe every mix of messages that can be on the links.

## 5. Not modelled, and what is next

Proofs: agreement of servers on operators, modes, timestamps and nicks once all
messages are handled, from an invariant about the messages under way as the ones
of `Umodes` and `NetChannel` are.

Not modelled: `check_joinrate` (+j) and topics; Q-lines and the configuration's
Z-lines; silence lists and DCC filters; the parser of the configuration. Left
out for good: parsing and formatting, wildcard matching and regular expressions
(a mask is the set of what it matches), cryptography, the system calls of the
socket engines, reports, and the vendored PCRE and zlib, which are a large part
of the repository's lines. `PROJECT.json` lists every part with its status.
