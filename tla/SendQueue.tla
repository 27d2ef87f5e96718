----------------------------- MODULE SendQueue ------------------------------
(***************************************************************************)
(* Send queues (src/src/sbuf.c, src/src/send.c).  A queue is a list of     *)
(* users, each the rest of a buffer; a message to many is one buffer that  *)
(* all their queues use.  Sending may find a link over its limit or its    *)
(* socket broken: the link is then dead, and operators are told, which     *)
(* sends while a message to many is being sent.                            *)
(*                                                                         *)
(* Data is a sequence of units.  There is one server link (a server that   *)
(* dies has no other to tell); compression and encryption, which bypass    *)
(* the sharing, are left out.                                              *)
(***************************************************************************)
EXTENDS Common

CONSTANTS
  Users, Server,      \* local users, the server link
  OperList,           \* oper_list: the users that are operators, one after the other
  SmallBuf, LargeBuf, \* SBUF_SMALL_BUFFER, SBUF_LARGE_BUFFER
  MaxSendQ,           \* maxsendq of the connections' class
  UserSlack,          \* what is added to a queue between two writes, 4 kilobytes
  ServerSlack,        \* for a user and 8 for a server
  Messages,           \* messages to one link
  MaxBufs             \* bound: buffers in use when something is sent

Peers == Users \cup {Server}

ASSUME SendAssumption ==
  /\ OperList \in Seq(Users) /\ Server \notin Users /\ IsFiniteSet(Users)
  /\ {SmallBuf, LargeBuf, MaxSendQ, MaxBufs} \subseteq Nat \ {0} /\ SmallBuf < LargeBuf
  /\ UserSlack \in Nat /\ ServerSlack \in Nat
  /\ \A m \in Messages : m \in Seq(STRING) /\ m # <<>> /\ Len(m) <= LargeBuf

VARIABLES
  mem,     \* what sending changes: bufs, the buffers in use; shares, those marked shared;
           \* queue[c], the users of c's queue; dead, the links marked FLAGS_DEADSOCKET; want[c], the data
           \* c was sent that is not written yet (history); mixed, the links that
           \* were put a shared buffer after something was appended to it (history)
  cast,    \* the message to many being sent: its data (empty if there is none), its
           \* buffers for local users and for servers, who is left
  lastsq,  \* lastsq[c]: the length of c's queue after the last write
  split    \* currently_processing_netsplit

sendVars == <<mem, cast, lastsq, split>>

----------------------------------------------------------------------------
(* Buffers.                                                                *)

InUse(q) == DOMAIN q.bufs

\* The memory q with another buffer b, another queue of c, other data that c wants.
set_buf(q, b, x)    == [q EXCEPT !.bufs = [q.bufs EXCEPT ![b] = x]]
set_queue(q, c, us) == [q EXCEPT !.queue = [q.queue EXCEPT ![c] = us]]
set_want(q, c, w)   == [q EXCEPT !.want = [q.want EXCEPT ![c] = w]]

\* sbuf_alloc: any buffer of the pool that is large enough.
sbuf_alloc(q) == CHOOSE b \in 1..(Cardinality(InUse(q)) + 1) : b \notin InUse(q)
bufsize(len) == IF len >= SmallBuf THEN LargeBuf ELSE SmallBuf
with_buf(q, data, refs) ==
  [q EXCEPT !.bufs = [b \in InUse(q) \cup {sbuf_alloc(q)} |->
                        IF b = sbuf_alloc(q)
                        THEN [data |-> data, size |-> bufsize(Len(data)), refs |-> refs]
                        ELSE q.bufs[b]]]

\* sbuf_free of b.
sbuf_free(q, b) == [q EXCEPT !.bufs = [a \in InUse(q) \ {b} |-> q.bufs[a]]]

Rest(q, u) == SubSeq(q.bufs[u.buf].data, u.start + 1, Len(q.bufs[u.buf].data))

\* What is in c's queue.
Content(q, c) == FlattenSeq([i \in DOMAIN q.queue[c] |-> Rest(q, q.queue[c][i])])

\* Mutant: a buffer that is shared is appended to.
appendable_always(q, c) == q.queue[c] # <<>>

\* sbuf_put: whether the last buffer of c's queue is appended to.
appendable(q, c) ==
  /\ q.queue[c] # <<>>
  /\ q.bufs[Last(q.queue[c]).buf].refs <= 1

Room(q, c) == LET b == q.bufs[Last(q.queue[c]).buf] IN b.size - Len(b.data)

\* sbuf_put: data is copied to the end of buffer b.
grow(q, b, data) == set_buf(q, b, [q.bufs[b] EXCEPT !.data = q.bufs[b].data \o data])

\* A user of buffer b at the end of c's queue.
with_user(q, c, b) == set_queue(q, c, Append(q.queue[c], [buf |-> b, start |-> 0]))

\* sbuf_put: what does not fit goes to a new buffer.
fill(q, c, data) ==
  LET n == IF ~ appendable(q, c) THEN 0
           ELSE IF Room(q, c) < Len(data) THEN Room(q, c) ELSE Len(data)
      r == IF n = 0 THEN q ELSE grow(q, Last(q.queue[c]).buf, SubSeq(data, 1, n))
  IN IF n = Len(data) THEN r
     ELSE with_user(with_buf(r, SubSeq(data, n + 1, Len(data)), 1), c, sbuf_alloc(r))

\* c is sent data.
wants(q, c, data) == set_want(q, c, q.want[c] \o data)

sbuf_put(q, c, data) == wants(fill(q, c, data), c, data)

\* sbuf_put_share: one more user of buffer b.
one_more(q, b) == set_buf(q, b, [q.bufs[b] EXCEPT !.refs = q.bufs[b].refs + 1])

\* sbuf_put_share of buffer b, which began with `data'.
sbuf_put_share(q, c, b, data) ==
  LET r == wants(with_user(one_more(q, b), c, b), c, data)
  IN IF q.bufs[b].data = data THEN r ELSE [r EXCEPT !.mixed = r.mixed \cup {c}]

\* sbuf_delete: one user less of buffer b, which is freed if it was the last.
one_less(q, b) ==
  IF q.bufs[b].refs = 1 /\ b \notin q.shares THEN sbuf_free(q, b)
  ELSE set_buf(q, b, [q.bufs[b] EXCEPT !.refs = q.bufs[b].refs - 1])

\* sbuf_delete: the first k units are off the queue of c.
unwanted(q, c, k) == set_want(q, c, SubSeq(q.want[c], k + 1, Len(q.want[c])))

\* sbuf_delete: all that is left of the first buffer, or the first k units of it.
drop_head(q, c) ==
  LET u == Head(q.queue[c])
  IN one_less(set_queue(unwanted(q, c, Len(Rest(q, u))), c, Tail(q.queue[c])), u.buf)
cut_head(q, c, k) ==
  LET u == Head(q.queue[c])
  IN set_queue(unwanted(q, c, k), c,
               <<[buf |-> u.buf, start |-> u.start + k]>> \o Tail(q.queue[c]))

\* A turn of its loop, with n units still to delete.
delete_chunk(d, c) ==
  LET chunk == Len(Rest(d.q, Head(d.q.queue[c])))
  IN IF d.n = 0 THEN d
     ELSE IF chunk > d.n THEN [q |-> cut_head(d.q, c, d.n), n |-> 0]
     ELSE [q |-> drop_head(d.q, c), n |-> d.n - chunk]

\* sbuf_delete of the first n units.
sbuf_delete(q, c, n) ==
  LET loop[i \in 0 .. Len(q.queue[c])] ==
        IF i = 0 THEN [q |-> q, n |-> n] ELSE delete_chunk(loop[i - 1], c)
  IN loop[Len(q.queue[c])].q

----------------------------------------------------------------------------
(* Sending.                                                                *)

Length(q, c) == Len(Content(q, c))

\* SBufClear.
SBufClear(q, c) == set_want(sbuf_delete(q, c, Length(q, c)), c, <<>>)

\* FLAGS_DEADSOCKET.
marked_dead(q, c) == [SBufClear(q, c) EXCEPT !.dead = q.dead \cup {c}]

\* send_message for a link that is no server and is sent its own copy.
send_one(q, c, data) ==
  IF c \in q.dead THEN q
  ELSE IF Length(q, c) > MaxSendQ
  THEN marked_dead(q, c)
  ELSE sbuf_put(q, c, data)

\* sendto_ops, sendto_gnotice: a notice to each operator in turn.
sendto_ops(q) ==
  LET told[i \in 0 .. Len(OperList)] ==
        IF i = 0 THEN q ELSE send_one(told[i - 1], OperList[i], <<"note">>)
  IN told[Len(OperList)]

\* dead_link: routing notices are sent when the link is a server.
dead_link(q, c) ==
  IF c = Server THEN sendto_ops(marked_dead(q, c)) ELSE marked_dead(q, c)

\* send_message's limit: operators are told of a server first.
over_limit(q, c) == dead_link(IF c = Server THEN sendto_ops(q) ELSE q, c)

\* send_message, with the state `put' that putting the message gives.
send_message(q, c, put) ==
  IF c \in q.dead THEN q
  ELSE IF Length(q, c) > MaxSendQ THEN over_limit(q, c)
  ELSE put

\* send_queued: some of the queue is written, or an error ends the link.
Written(q, c) ==
  IF c \in q.dead THEN {q}
  ELSE {sbuf_delete(q, c, n) : n \in 1..Length(q, c)} \cup {dead_link(q, c)}

NoCast == [data |-> <<>>, left |-> <<>>, local |-> 0, remote |-> 0]

Unshared == cast.data = <<>>

MaySend == Unshared /\ Cardinality(InUse(mem)) < MaxBufs

\* send_queued from the event loop.
send_queued(c) ==
  /\ Unshared /\ c \notin mem.dead /\ Length(mem, c) > 0
  /\ mem' \in Written(mem, c)
  /\ lastsq' = [lastsq EXCEPT ![c] = Length(mem', c)]
  /\ UNCHANGED <<cast, split>>

\* sendto_one; if a write is due, it is the next step.
sendto_one(c, data) ==
  /\ MaySend /\ c \notin mem.dead
  /\ mem' = send_message(mem, c, sbuf_put(mem, c, data))
  /\ UNCHANGED <<cast, lastsq, split>>

\* sendto_channel_butone, sendto_channelflags_butone: sbuf_begin_share of the
\* message for local users and of that for servers.  While a net split is handled
\* (exit_server) messages to many are the QUITs that local users are sent.
begin_share(q, data) ==
  [with_buf(q, data, 0) EXCEPT !.shares = q.shares \cup {sbuf_alloc(q)}]

sbuf_begin_share(to, data) ==
  LET q == IF Range(to) \cap Users # {} THEN begin_share(mem, data) ELSE mem
      r == IF Server \in Range(to) THEN begin_share(q, data) ELSE q
  IN /\ MaySend /\ mem' = r
     /\ cast' = [data |-> data, left |-> to, local |-> sbuf_alloc(mem), remote |-> sbuf_alloc(q)]
     /\ split' \in BOOLEAN /\ (split' => Server \notin Range(to))
     /\ UNCHANGED lastsq

\* send_message calls send_queued when the queue q gives c has grown enough since
\* the last write, and always during a split.
due(q, c) ==
  /\ c \notin q.dead
  /\ split \/ Length(q, c) > lastsq[c] + (IF c = Server THEN ServerSlack ELSE UserSlack)

\* The next one is sent the shared buffer, with a write if one is due and the
\* socket is not blocked.
send_share ==
  /\ ~ Unshared /\ cast.left # <<>>
  /\ LET c == Head(cast.left)
         b == IF c = Server THEN cast.remote ELSE cast.local
         q == send_message(mem, c, sbuf_put_share(mem, c, b, cast.data))
     IN \/ mem' = q /\ UNCHANGED lastsq
        \/ /\ due(q, c) /\ mem' \in Written(q, c)
           /\ lastsq' = [lastsq EXCEPT ![c] = Length(mem', c)]
  /\ cast' = [cast EXCEPT !.left = Tail(cast.left)]
  /\ UNCHANGED split

\* sbuf_end_share.
sbuf_end_share ==
  /\ ~ Unshared /\ cast.left = <<>> /\ cast' = NoCast
  /\ mem' = [mem EXCEPT !.shares = {},
                        !.bufs = [b \in {a \in InUse(mem) : a \in mem.shares => mem.bufs[a].refs > 0}
                                    |-> mem.bufs[b]]]
  /\ split' = FALSE /\ UNCHANGED lastsq

\* close_connection of a link; another takes its place.
reconnect(c) ==
  /\ Unshared /\ c \in mem.dead
  /\ mem' = [SBufClear(mem, c) EXCEPT !.dead = mem.dead \ {c}, !.mixed = mem.mixed \ {c}]
  /\ lastsq' = [lastsq EXCEPT ![c] = 0]
  /\ UNCHANGED <<cast, split>>

----------------------------------------------------------------------------
SendInit ==
  /\ mem = [bufs |-> <<>>, shares |-> {}, queue |-> [c \in Peers |-> <<>>], dead |-> {},
            want |-> [c \in Peers |-> <<>>], mixed |-> {}]
  /\ cast = NoCast /\ lastsq = [c \in Peers |-> 0] /\ split = FALSE

\* Those a message to many goes to, in the order of the channel's list.
Audiences == UNION {SetToSeqs(S) : S \in {T \in SUBSET Peers : Cardinality(T) >= 2}}

SendNext ==
  \/ \E c \in Peers : send_queued(c) \/ reconnect(c)
  \/ \E c \in Peers, data \in Messages : sendto_one(c, data)
  \/ \E to \in Audiences : sbuf_begin_share(to, <<"all">>)
  \/ send_share
  \/ sbuf_end_share

SendSpec == SendInit /\ [][SendNext]_sendVars

----------------------------------------------------------------------------
\* The type invariant.
SendTypeOK ==
  /\ mem.dead \subseteq Peers /\ mem.mixed \subseteq Peers
  /\ \A b \in InUse(mem) : /\ mem.bufs[b].refs \in Nat
                           /\ Len(mem.bufs[b].data) <= mem.bufs[b].size
  /\ \A c \in Peers : \A i \in DOMAIN mem.queue[c] : mem.queue[c][i].buf \in InUse(mem)

\* A buffer's count (sbuf_put_share, sbuf_delete) is the number of queues that use
\* it, in whatever order they drop it: none is freed under a queue, and none stays
\* when the last has gone.
BufRefs ==
  /\ SendTypeOK
  /\ \A b \in InUse(mem) :
       /\ mem.bufs[b].refs = Cardinality({c \in Peers : \E i \in DOMAIN mem.queue[c] :
                                                         mem.queue[c][i].buf = b})
       /\ mem.bufs[b].refs > 0 \/ (~ Unshared /\ b \in mem.shares)

\* A link's queue is what was sent to it and is not written yet, in that order,
\* whatever others do with the buffers it uses; but for a link that was put a shared
\* buffer after a notice had been appended to it.  It is at most one message over the
\* limit (send_message), and a dead link's is empty (dead_link).
QueueRight ==
  /\ \A c \in Peers \ mem.mixed : Content(mem, c) = mem.want[c]
  /\ \A c \in Peers : Length(mem, c) <= MaxSendQ + LargeBuf
  /\ \A c \in mem.dead : mem.queue[c] = <<>>

\* Both: the buffers live as long as they are used, and queues hold the right data.
SendqRight == BufRefs /\ QueueRight

\* What send.c says of sendto_ops: "Send to *local* ops only."
OpsOnly == \A c \in Users \ Range(OperList) : "note" \notin Range(Content(mem, c))
=============================================================================
