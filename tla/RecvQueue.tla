----------------------------- MODULE RecvQueue ------------------------------
(***************************************************************************)
(* How lines of clients come to be parsed: read_packet and do_client_queue *)
(* of s_bsd.c, sbuf_getmsg of sbuf.c, client_dopacket of packet.c, the     *)
(* price of a line in parse.c, and do_recvqs and io_loop of ircd.c.  A     *)
(* client that is ahead of its time has the rest of its lines left in its  *)
(* receive queue and is put on the list recvq_clients, which the event     *)
(* loop walks again and again.  A line may end its client's connection or  *)
(* another's, while the list is walked; client structures are used again.  *)
(*                                                                         *)
(* Data comes in pieces [n, eol], numbered by the sender; a piece with eol *)
(* ends a line.  Limits are in pieces.  Connections whose DNS or ident     *)
(* lookup is not over are not read (module SignOn).  Connections are those *)
(* that were accepted: a line may make one a server, which from then on is *)
(* read without a queue, although its queue may still hold data.           *)
(***************************************************************************)
EXTENDS Common

CONSTANTS
  MaxLine,     \* how long a line without an end may grow: 510 bytes
  BufSize,     \* BUFSIZE, what of a line fits into cptr->buffer: 512 bytes
  Block,       \* sizeof(readbuf), the most that is taken from a queue: 8192 bytes
  FloodLimit,  \* CLIENT_FLOOD
  RecvqLimit,  \* MAX_CLIENT_RECVQ
  Ahead,       \* how far a client may be ahead of the time: 10 seconds
  Cost,        \* the price of a line: 2 seconds
  MaxHanded     \* bound: connections and pieces of data

ASSUME RecvQueueAssumption ==
  /\ {MaxLine, BufSize, Block, Ahead, Cost} \subseteq Nat \ {0}
  /\ MaxLine <= Block
  /\ {FloodLimit, RecvqLimit, MaxHanded} \subseteq Nat

VARIABLES
  peer,        \* peer[c]: the connection that has structure c, or None
  rlist,       \* recvq_clients: [cptr, dead], newest first
  loop,        \* where the event loop is: [at, cptr, pos]
  handed        \* connections and pieces so far

recvVars == <<peer, rlist, loop, handed>>

\* unread is what the kernel has, lag is since - timeofday, which never
\* counts when negative.  History: sent numbers the pieces, got is the last that
\* was parsed or thrown away, whole tells whether everything was parsed in the
\* order it was sent, and every line from its first piece on and to its last if
\* it fits into the buffer, and late whether data was parsed before older data.
NewPeer == [kind |-> "unknown", unread |-> <<>>, recvq |-> <<>>, nonl |-> FALSE,
            have |-> FALSE, lag |-> 0, sent |-> 0, got |-> 0, whole |-> TRUE, late |-> FALSE]

Pieces   == [n : Nat, eol : BOOLEAN]
\* nego is a server whose link is about to be encrypted.
Kinds    == {"unknown", "person", "oper", "nego", "server"}
Persons  == {"person", "oper"}
Links    == {"nego", "server"}
PeerRecs == [kind : Kinds, unread : Seq(Pieces), recvq : Seq(Pieces),
             nonl : BOOLEAN, have : BOOLEAN, lag : Nat, sent : Nat, got : Nat,
             whole : BOOLEAN, late : BOOLEAN]

ASSUME RecvNull == None \notin PeerRecs

Idle    == [at |-> "idle", cptr |-> None, pos |-> 0]
Walk(i) == [at |-> "walk", cptr |-> None, pos |-> i]
\* do_client_queue for c, called from read_packet (i = 0) or for the link at i.
Queue(c, i) == [at |-> "queue", cptr |-> c, pos |-> i]
\* dopacket for the server c, with data of its queue or with data just read.
Packet(c, i) == [at |-> "packet", cptr |-> c, pos |-> i]
Direct(c)    == [at |-> "direct", cptr |-> c, pos |-> 0]

\* The length of the first line, or 0 if there is no end of line.
FirstLine(q) == IF \E i \in DOMAIN q : q[i].eol
                THEN CHOOSE i \in DOMAIN q : q[i].eol /\ \A j \in 1..(i - 1) : ~ q[j].eol
                ELSE 0
\* sbuf_getmsg finds the end of a line only as far as its caller's buffer goes.
HasLine(q) == FirstLine(q) \in 1..Block
Pending(p) == p.recvq # <<>> /\ ~ p.nonl

----------------------------------------------------------------------------
\* Mutant: the link of a client that goes is not marked.
tag_none(l, c, have) == l

\* exit_client: the first link of c is marked, do_recvqs will delete it.
tag(l, c, have) ==
  IF have /\ \E i \in DOMAIN l : l[i].cptr = c
  THEN LET i == CHOOSE i \in DOMAIN l : l[i].cptr = c /\ \A j \in 1..(i - 1) : l[j].cptr # c
       IN [l EXCEPT ![i].dead = TRUE]
  ELSE l

exit_recv(c) == /\ peer' = [peer EXCEPT ![c] = None]
                /\ rlist' = tag(rlist, c, peer[c].have)

\* accept_connection, with the lookups over.
accept(c) ==
  /\ loop = Idle /\ peer[c] = None /\ handed < MaxHanded
  /\ peer' = [peer EXCEPT ![c] = NewPeer]
  /\ handed' = handed + 1
  /\ UNCHANGED <<rlist, loop>>

\* The other end sends a piece, or closes.
transmit(c, eol) ==
  /\ loop = Idle /\ peer[c] # None /\ handed < MaxHanded
  /\ peer' = [peer EXCEPT ![c].unread = Append(@, [n |-> peer[c].sent + 1, eol |-> eol]),
                          ![c].sent = @ + 1]
  /\ handed' = handed + 1
  /\ UNCHANGED <<rlist, loop>>
hang_up(c) ==
  /\ loop = Idle /\ peer[c] # None /\ peer[c].unread = <<>>
  /\ exit_recv(c)
  /\ UNCHANGED <<loop, handed>>

\* recv, unless the queue is long: k pieces.
may_read(p) == ~ (p.kind \in Persons /\ Len(p.recvq) > RecvqLimit)
recv(p, k) == [p EXCEPT !.recvq = @ \o SubSeq(p.unread, 1, k), !.nonl = FALSE,
                        !.unread = SubSeq(@, k + 1, Len(@))]
\* Mutant: the end of a line that was missing is not looked for again.
received_nonl(p, k) == IF may_read(p) THEN [recv(p, k) EXCEPT !.nonl = p.nonl] ELSE p
received(p, k) == IF may_read(p) THEN recv(p, k) ELSE p

\* read_packet: the queue grows too long, or its turn comes.
read_packet(c, k) ==
  /\ loop = Idle /\ peer[c] # None /\ peer[c].kind \notin Links
  /\ k \in 1..Len(peer[c].unread)
  /\ LET p == received(peer[c], k)
     IN IF p.kind = "person" /\ Len(p.recvq) > FloodLimit
        THEN exit_recv(c) /\ UNCHANGED loop
        ELSE /\ peer' = [peer EXCEPT ![c] = p] /\ loop' = Queue(c, 0)
             /\ UNCHANGED rlist
  /\ UNCHANGED handed

\* The same for a server: dopacket gets what was read at once, whatever waits in
\* the queue.  Lines of a server have no price, those of a negotiation have.
straight(p, k, price) ==
  [p EXCEPT !.unread = SubSeq(@, k + 1, Len(@)), !.nonl = FALSE, !.got = p.unread[k].n,
            !.lag = @ + price, !.late = @ \/ p.recvq # <<>>,
            !.whole = @ /\ \A i \in 1..k : p.unread[i].n = p.got + i]
read_server(c, k, price) ==
  /\ loop = Idle /\ peer[c] # None /\ peer[c].kind \in Links
  /\ k \in 1..Len(peer[c].unread)
  /\ peer[c].kind = "server" => price = 0
  /\ peer' = [peer EXCEPT ![c] = straight(peer[c], k, price)]
  /\ loop' = Direct(c)
  /\ UNCHANGED <<rlist, handed>>

----------------------------------------------------------------------------
(* do_client_queue, one turn of its loop after the other.                  *)

Serves(p) == Pending(p) /\ (p.lag < Ahead \/ p.kind = "nego")
InQueue   == loop.at = "queue"
ALine(p)  == Serves(p) /\ p.kind \notin Links /\ HasLine(p.recvq)

\* What client_dopacket has of a line in cptr->buffer, which strncpy does not
\* end when it is full: parse then goes on into the memory behind it.
fits(k) == IF k <= BufSize THEN k ELSE BufSize

\* The line that sbuf_getmsg takes, and the price that parse puts on it: none
\* for an unknown command or a client with FORCEFLOOD.
getmsg(p, price) ==
  LET k    == FirstLine(p.recvq)
      line == SubSeq(p.recvq, 1, k)
  IN [p EXCEPT !.recvq = SubSeq(@, k + 1, Len(@)), !.got = line[k].n, !.lag = @ + price,
               !.whole = @ /\ \A i \in 1..fits(k) : /\ line[i].n = p.got + i
                                                    /\ line[i].eol <=> i = k]

\* client_dopacket and parse, whatever they make of the line.  It may register
\* its client as a person or a server or make it an operator, ...
parse_line(price, kind) ==
  LET c == loop.cptr
  IN /\ InQueue /\ ALine(peer[c])
     /\ kind \in (IF peer[c].kind = "unknown" THEN Kinds ELSE Persons)
     /\ peer' = [peer EXCEPT ![c] = [getmsg(peer[c], price) EXCEPT !.kind = kind]]
     /\ UNCHANGED <<rlist, loop, handed>>

\* ... end another connection, ...
parse_exit(price, d) ==
  LET c == loop.cptr
  IN /\ InQueue /\ ALine(peer[c])
     /\ d # c /\ peer[d] # None
     /\ peer' = [peer EXCEPT ![c] = getmsg(peer[c], price), ![d] = None]
     /\ rlist' = tag(rlist, d, peer[d].have)
     /\ UNCHANGED <<loop, handed>>

\* ... or its own, FLUSH_BUFFER: do_recvqs deletes the link.
flush_buffer(c) ==
  /\ peer' = [peer EXCEPT ![c] = None]
  /\ LET l == tag(rlist, c, peer[c].have)
     IN IF loop.pos = 0 THEN rlist' = l /\ loop' = Idle
        ELSE rlist' = RemoveAt(l, loop.pos) /\ loop' = Walk(loop.pos)
  /\ UNCHANGED handed
parse_quit == InQueue /\ ALine(peer[loop.cptr]) /\ flush_buffer(loop.cptr)

\* Of a server one block is taken, as much as the buffer holds, ...
getblock(p, price) ==
  LET k == IF Len(p.recvq) <= Block THEN Len(p.recvq) ELSE Block
  IN [p EXCEPT !.recvq = SubSeq(@, k + 1, Len(@)), !.got = p.recvq[k].n, !.lag = @ + price,
               !.whole = @ /\ \A i \in 1..k : p.recvq[i].n = p.got + i]
sbuf_get(price) ==
  LET c == loop.cptr
  IN /\ InQueue /\ Serves(peer[c]) /\ peer[c].kind \in Links
     /\ peer[c].kind = "server" => price = 0
     /\ peer' = [peer EXCEPT ![c] = getblock(peer[c], price)]
     /\ loop' = Packet(c, loop.pos)
     /\ UNCHANGED <<rlist, handed>>

\* The end of do_client_queue for c, now p; and what do_recvqs does after it.
queue_done(c, p) ==
  LET enlist == ~ p.have /\ Pending(p)
  IN IF loop.pos = 0
     THEN /\ peer' = [peer EXCEPT ![c] = [p EXCEPT !.have = @ \/ enlist]]
          /\ rlist' = IF enlist THEN <<[cptr |-> c, dead |-> FALSE]>> \o rlist ELSE rlist
          /\ loop' = Idle
     ELSE IF Pending(p)
     THEN peer' = [peer EXCEPT ![c] = p] /\ loop' = Walk(loop.pos + 1) /\ UNCHANGED rlist
     ELSE /\ peer' = [peer EXCEPT ![c] = [p EXCEPT !.have = FALSE]]
          /\ rlist' = RemoveAt(rlist, loop.pos) /\ loop' = Walk(loop.pos)

\* ... and dopacket parses its lines: they may end the negotiation, other
\* connections or the server's own; after the block the queue has had its turn.
InPacket == loop.at \in {"packet", "direct"}
packet_dkey ==
  LET c == loop.cptr
  IN /\ InPacket /\ peer[c].kind = "nego"
     /\ peer' = [peer EXCEPT ![c].kind = "server"]
     /\ UNCHANGED <<rlist, loop, handed>>
packet_exit(d) ==
  /\ InPacket /\ d # loop.cptr /\ peer[d] # None
  /\ exit_recv(d)
  /\ UNCHANGED <<loop, handed>>
packet_quit == InPacket /\ flush_buffer(loop.cptr)
packet_end ==
  /\ InPacket
  /\ IF loop.at = "packet" THEN queue_done(loop.cptr, peer[loop.cptr])
     ELSE loop' = Idle /\ UNCHANGED <<peer, rlist>>
  /\ UNCHANGED handed

\* No line is left, or not even a line's end: the client has to send more, or
\* has sent so much that it is thrown away; what follows is then a line.
do_client_queue ==
  LET c == loop.cptr
      p == peer[c]
  IN /\ InQueue /\ ~ ALine(p) /\ ~ (Serves(p) /\ p.kind \in Links)
     /\ queue_done(c, IF ~ Serves(p) THEN p
                      ELSE IF Len(p.recvq) < MaxLine THEN [p EXCEPT !.nonl = TRUE]
                      ELSE [p EXCEPT !.recvq = <<>>, !.got = Last(p.recvq).n])
     /\ UNCHANGED handed

----------------------------------------------------------------------------
(* do_recvqs, one link after the other, and the time.                      *)

do_recvqs == /\ loop = Idle /\ rlist # <<>> /\ loop' = Walk(1)
             /\ UNCHANGED <<peer, rlist, handed>>

recvqs_link ==
  LET i == loop.pos
      c == rlist[i].cptr
  IN /\ loop.at = "walk"
     /\ IF i > Len(rlist) THEN loop' = Idle /\ UNCHANGED <<peer, rlist>>
        ELSE IF rlist[i].dead THEN rlist' = RemoveAt(rlist, i) /\ UNCHANGED <<peer, loop>>
        ELSE IF Pending(peer[c]) THEN loop' = Queue(c, i) /\ UNCHANGED <<peer, rlist>>
        ELSE /\ rlist' = RemoveAt(rlist, i) /\ UNCHANGED loop
             /\ peer' = [peer EXCEPT ![c].have = FALSE]
     /\ UNCHANGED handed

\* io_loop looks at the clock.
second ==
  /\ loop = Idle /\ \E c \in Clients : peer[c] # None /\ peer[c].lag > 0
  /\ peer' = [c \in Clients |-> IF peer[c] = None THEN None
                                ELSE [peer[c] EXCEPT !.lag = IF @ > 0 THEN @ - 1 ELSE 0]]
  /\ UNCHANGED <<rlist, loop, handed>>

----------------------------------------------------------------------------
RecvInit == /\ peer = [c \in Clients |-> None] /\ rlist = <<>> /\ loop = Idle /\ handed = 0

InLoop == \/ \E price \in {0, Cost} : \/ \E kind \in Kinds : parse_line(price, kind)
                                      \/ \E d \in Clients : parse_exit(price, d)
                                      \/ sbuf_get(price)
          \/ parse_quit \/ do_client_queue \/ recvqs_link
          \/ packet_dkey \/ packet_quit \/ packet_end \/ \E d \in Clients : packet_exit(d)

Reads(c) == \E k \in 1..MaxHanded : \/ read_packet(c, k)
                                    \/ \E price \in {0, Cost} : read_server(c, k, price)

RecvNext == \/ InLoop \/ do_recvqs \/ second
            \/ \E c \in Clients : \/ accept(c) \/ hang_up(c) \/ Reads(c)
                                  \/ \E eol \in BOOLEAN : transmit(c, eol)

\* Each round of io_loop looks at the clock, walks the list and reads whoever has
\* data: none of these is put off for ever, though each has to wait for its turn.
RecvFairness == /\ WF_recvVars(InLoop) /\ SF_recvVars(second)
                /\ SF_recvVars(do_recvqs) /\ \A c \in Clients : SF_recvVars(Reads(c))

RecvSpec == RecvInit /\ [][RecvNext]_recvVars /\ RecvFairness

----------------------------------------------------------------------------
(* Properties.                                                             *)

\* Exactly the clients that are marked so have a link that is not marked
\* dead, one each: do_recvqs never touches a client that is gone, whoever
\* exits while it walks, nor one that got the structure of a client that is
\* gone.
RecvqList ==
  \A c \in Clients :
    Cardinality({i \in DOMAIN rlist : rlist[i].cptr = c /\ ~ rlist[i].dead})
      = IF peer[c] # None /\ peer[c].have THEN 1 ELSE 0

\* Whatever waits in a receive queue with the end of its line will be looked
\* at: its client is on the list, unless the loop is at it; and however data is
\* split, lines are parsed in the order they were sent, each from its first
\* piece and, if it fits into cptr->buffer, to its last.  The exception: a
\* server whose queue was not empty when data came for it (late), because it
\* was ahead of its time or had more than a block in the queue; read_packet
\* hands the new data on first.
RecvqRight ==
  /\ RecvqList
  /\ \A c \in Clients : peer[c] # None =>
       /\ peer[c].whole \/ peer[c].late
       /\ loop.cptr # c /\ FirstLine(peer[c].recvq) # 0 => peer[c].have /\ ~ peer[c].nonl

\* No line waits for ever: it is parsed, or its connection ends.
LineWaits(c) == peer[c] # None /\ FirstLine(peer[c].recvq \o peer[c].unread) # 0
LinesServed == \A c \in Clients : []<>(~ LineWaits(c))
=============================================================================
