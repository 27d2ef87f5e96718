----------------------------- MODULE LinkStream -----------------------------
(***************************************************************************)
(* The stream between two servers, which changes its form as it goes:      *)
(* m_server_estab, m_dkey and do_server_estab of m_server.c agree on       *)
(* encryption and start compression, send_message and send_queued of       *)
(* send.c write, zip_output and zip_input of zlink.c compress, and         *)
(* dopacket of packet.c reads.  A line that changes the form of what       *)
(* follows can end anywhere in what one read returns.                      *)
(*                                                                         *)
(* A line is two characters, its body and its end.  A character that was   *)
(* compressed has its place in the compressed stream, one that was         *)
(* encrypted its place in the key stream; each end counts what it has      *)
(* decompressed and decrypted.  Compressing keeps the number of            *)
(* characters.  PASS, CAPAB and SERVER are one line.                       *)
(***************************************************************************)
EXTENDS Integers, SequencesExt

CONSTANTS
  ZipMax,      \* ZIP_MAX_BLOCK, in characters
  ZipInBuf,    \* zipInBufSize
  MaxData,     \* bound: lines of each end after the link is established
  MaxRead      \* bound: characters one read returns

ASSUME LinkStreamAssumption == {ZipMax, ZipInBuf, MaxData, MaxRead} \subseteq Nat \ {0}

VARIABLES
  want,        \* want[e]: the flags of e's connect block, CONN_DKEY and CONN_ZIP
  end          \* end[e]: what the server at end e knows of the link

linkVars == <<want, end>>

\* "con" is the end that connected, "acc" the one that accepted.
Sides     == {"con", "acc"}
Other(e) == IF e = "con" THEN "acc" ELSE "con"
LineRoom == 2    \* 512, the longest line

\* flags: dkey and dozip (capabilities), dh (sessions of a key exchange), keyed (rc4_in
\* and rc4_out are set up); got: dkey_flags.
\* w, writing.  mode: "rc4" (RC4OUT) and "zip" (ZIPOUT); kout, zout: places in the key
\* stream and in the compressed stream; zbuf: what zip_out holds back; wire: what is
\* written and not read by the other end.
\* r, reading.  mode: RC4IN and ZIPIN; rest: what dopacket has still to look at; nbuf:
\* compressed data that there was no room to decompress; count: the line that is not
\* complete yet.  sent, parsed: lines so far.
NewEnd == [st |-> "closed", flags |-> {}, got |-> {},
           w |-> [mode |-> {}, kout |-> 0, zout |-> 0, zbuf |-> <<>>, wire |-> <<>>, sent |-> <<>>],
           r |-> [mode |-> {}, kin |-> 0, zin |-> 0, rest |-> <<>>, nbuf |-> <<>>,
                  count |-> <<>>, parsed |-> <<>>]]

----------------------------------------------------------------------------
(* Writing.                                                                *)

Chars(line) == <<[line |-> line, part |-> "body", zip |-> 0, key |-> 0],
                 [line |-> line, part |-> "eol", zip |-> 0, key |-> 0]>>

\* rc4_process_stream_to_buf, then sbuf_put.
deliver(w, chars) ==
  IF "rc4" \in w.mode
  THEN [w EXCEPT !.kout = w.kout + Len(chars),
                 !.wire = w.wire \o [i \in 1..Len(chars) |-> [chars[i] EXCEPT !.key = w.kout + i]]]
  ELSE [w EXCEPT !.wire = w.wire \o chars]

\* zip_output, when it gives up what it holds.
deflated(w) ==
  deliver([w EXCEPT !.zbuf = <<>>, !.zout = w.zout + Len(w.zbuf)],
          [i \in 1..Len(w.zbuf) |-> [w.zbuf[i] EXCEPT !.zip = w.zout + i]])

\* zip_output without forceflush: its largedata is a pointer that is never
\* NULL, so that data is held back until the block is almost full.
zip_output(w, chars) ==
  LET h == [w EXCEPT !.zbuf = w.zbuf \o chars]
  IN IF Len(h.zbuf) < ZipMax - LineRoom THEN h ELSE deflated(h)

written(w, line) ==
  LET t == [w EXCEPT !.sent = Append(w.sent, line)]
  IN IF "zip" \in w.mode THEN zip_output(t, Chars(line)) ELSE deliver(t, Chars(line))

send_message(s, line) == [s EXCEPT !.w = written(@, line)]

----------------------------------------------------------------------------
(* The lines that matter.                                                  *)

\* The end s in another state, with more flags, and with another form of what it
\* writes or reads.
to_state(s, st) == [s EXCEPT !.st = st]
to_flags(s, fs) == [s EXCEPT !.flags = fs]
out_mode(w, m)  == [w EXCEPT !.mode = w.mode \cup {m}]
in_mode(r, m)   == [r EXCEPT !.mode = r.mode \cup {m}]

\* do_server_estab: of the burst, the PING that ends it.
zip_starts(s) == [send_message(s, "SVINFO ZIP") EXCEPT !.w = out_mode(@, "zip")]
do_server_estab(s) ==
  send_message(to_state(IF "dozip" \in s.flags THEN zip_starts(s) ELSE s, "server"), "PING")

Quits(s) == to_state(s, "gone")

\* The line with PASS, CAPAB and SERVER, by the flags of a connect block.
Greeting(conn) == IF "dkey" \in conn THEN "SERVER DKEY" ELSE "SERVER"
dokey(conn)    == conn \cap {"dkey"}

\* m_server_estab, when the other end's CAPAB had DKEY or had not.
greeted(s, conn) == IF s.st = "unknown" THEN send_message(s, Greeting(conn)) ELSE s
server_estab(s, conn, theirs) ==
  LET b == send_message(to_flags(greeted(s, conn), s.flags \cup dokey(conn)), "SVINFO")
  IN IF theirs = "DKEY" /\ "dkey" \in s.flags \cup dokey(conn)
     THEN send_message(to_state(b, "nego"), "DKEY START")
     ELSE do_server_estab(b)

dkey_start(s) ==
  IF "dh" \in s.flags THEN Quits(s)
  ELSE send_message(send_message(to_flags(s, s.flags \cup {"dh"}), "DKEY PUB I"), "DKEY PUB O")

rc4_starts(s) == [send_message(s, "DKEY DONE") EXCEPT !.w = out_mode(@, "rc4")]
dkey_pub(s, which) ==
  LET t == [s EXCEPT !.got = s.got \cup {which}]
  IN IF "dh" \notin s.flags THEN Quits(s)
     ELSE IF t.got # {"I", "O"} THEN t
     ELSE to_flags(rc4_starts(t), (s.flags \ {"dh"}) \cup {"keyed"})

dkey_done(s) ==
  IF "dh" \in s.flags \/ "keyed" \notin s.flags THEN Quits(s)
  ELSE send_message([s EXCEPT !.r = in_mode(@, "rc4")], "DKEY EXIT")

dkey_exit(s) == IF "rc4" \in s.r.mode /\ "rc4" \in s.w.mode THEN do_server_estab(s) ELSE Quits(s)

DkeyLines == {"DKEY START", "DKEY PUB I", "DKEY PUB O", "DKEY DONE", "DKEY EXIT"}

\* parse, with the return values of the handlers that dopacket acts on.
parse_at(s, conn, line) ==
  CASE line \in DkeyLines /\ s.st # "nego" -> Quits(s)
    [] line = "DKEY START" /\ s.st = "nego" -> dkey_start(s)
    [] line = "DKEY PUB I" /\ s.st = "nego" -> dkey_pub(s, "I")
    [] line = "DKEY PUB O" /\ s.st = "nego" -> dkey_pub(s, "O")
    [] line = "DKEY DONE"  /\ s.st = "nego" -> dkey_done(s)
    [] line = "DKEY EXIT"  /\ s.st = "nego" -> dkey_exit(s)
    [] line = "SERVER"      -> server_estab(s, conn, "plain")
    [] line = "SERVER DKEY" -> server_estab(s, conn, "DKEY")
    [] line = "SVINFO ZIP" /\ s.st = "server" -> [s EXCEPT !.r = in_mode(@, "zip")]
    [] OTHER -> s

----------------------------------------------------------------------------
(* Reading.                                                                *)

\* A character that is not what was sent, after the wrong treatment.
Garbled == [line |-> "garbled", part |-> "eol", zip |-> 0, key |-> 0]

\* rc4_process_stream on the rest.
decrypt(r) ==
  [r EXCEPT !.rest = [i \in 1..Len(r.rest) |-> IF r.rest[i].key = r.kin + i
                                               THEN [r.rest[i] EXCEPT !.key = 0] ELSE Garbled],
            !.kin = r.kin + Len(r.rest)]

\* zip_input on compressed data; what is not the next of the stream is an error.
ZipRoom(zipped) == IF Len(zipped) < ZipInBuf THEN Len(zipped) ELSE ZipInBuf
inflated(r, zipped) ==
  [r EXCEPT !.rest = [i \in 1..ZipRoom(zipped) |-> [zipped[i] EXCEPT !.zip = 0]],
            !.nbuf = SubSeq(zipped, ZipRoom(zipped) + 1, Len(zipped)),
            !.zin  = r.zin + ZipRoom(zipped)]
inflate(s, zipped) ==
  IF \E i \in 1..ZipRoom(zipped) : zipped[i].zip # s.r.zin + i \/ zipped[i].key # 0
  THEN Quits(s) ELSE [s EXCEPT !.r = inflated(@, zipped)]

\* Mutant: the rest of the buffer is not decrypted when encryption begins.
next_buffer_plain(s, was) ==
  IF "zip" \in s.r.mode \ was THEN inflate(s, s.r.rest) ELSE s

\* What parse returned, RC4_NEXT_BUFFER or ZIP_NEXT_BUFFER, if the mode was `was'.
next_buffer(s, was) ==
  IF "rc4" \in s.r.mode \ was THEN [s EXCEPT !.r = decrypt(@)]
  ELSE IF "zip" \in s.r.mode \ was THEN inflate(s, s.r.rest)
  ELSE s

\* dopacket up to its loop, when `chars' have been read.
arrived(s, chars) ==
  LET t == [s.r EXCEPT !.rest = chars]
      d == [s EXCEPT !.r = IF "rc4" \in s.r.mode THEN decrypt(t) ELSE t]
  IN IF "zip" \in s.r.mode THEN inflate(d, d.r.rest) ELSE d

\* Its loop: characters up to the end of a line ...
UpToEol(rest) ==
  IF \E i \in 1..Len(rest) : rest[i].part = "eol"
  THEN CHOOSE i \in 1..Len(rest) : rest[i].part = "eol" /\ \A j \in 1..(i - 1) : rest[j].part # "eol"
  ELSE Len(rest)
gather(r) == [r EXCEPT !.rest = SubSeq(r.rest, UpToEol(r.rest) + 1, Len(r.rest)),
                       !.count = r.count \o SubSeq(r.rest, 1, UpToEol(r.rest))]

\* ... which is parsed.
LineOf(count) == IF count = Chars(Last(count).line) THEN Last(count).line ELSE "garbled"
counted(r) == [r EXCEPT !.count = <<>>, !.parsed = Append(r.parsed, LineOf(r.count))]
parsed_line(s, conn, r) ==
  next_buffer(parse_at([s EXCEPT !.r = counted(r)], conn, LineOf(r.count)), r.mode)

----------------------------------------------------------------------------
(* Actions.                                                                *)

\* Only end e changes.
At(e, s) == end' = [end EXCEPT ![e] = s] /\ UNCHANGED want

\* The server at e is in its event loop and may write to the link or read.
Waits(e) == /\ end[e].st \notin {"closed", "connecting", "gone"}
            /\ end[e].r.rest = <<>> /\ end[e].r.nbuf = <<>>

\* connect_server, and accept_connection at the other end.
connect_server ==
  /\ end["con"].st = "closed"
  /\ end' = [e \in Sides |-> to_state(end[e], IF e = "con" THEN "connecting" ELSE "unknown")]
  /\ UNCHANGED want

dozip(conn) == IF "zip" \in conn THEN {"dozip"} ELSE {}
completed_connection ==
  /\ end["con"].st = "connecting"
  /\ At("con", send_message(to_flags(to_state(end["con"], "handshake"),
                                     dokey(want["con"]) \cup dozip(want["con"])),
                            Greeting(want["con"])))

\* The first k characters of what s has written are read.
taken(w, k) == [w EXCEPT !.wire = SubSeq(w.wire, k + 1, Len(w.wire))]

\* read_packet for a server.
read_server(e, k) ==
  LET wire == end[Other(e)].w.wire
  IN /\ Waits(e) /\ k \in 1..Len(wire) /\ k <= MaxRead
     /\ end' = [f \in Sides |-> IF f = e THEN arrived(end[e], SubSeq(wire, 1, k))
                                ELSE [end[f] EXCEPT !.w = taken(@, k)]]
     /\ UNCHANGED want

\* A turn of dopacket's loop.
dopacket(e) ==
  /\ end[e].st # "gone" /\ end[e].r.rest # <<>>
  /\ \E r \in {gather(end[e].r)} :
       At(e, IF Last(r.count).part = "eol" THEN parsed_line(end[e], want[e], r)
             ELSE [end[e] EXCEPT !.r = r])

\* The data left in nbuf.
zcontinue(e) ==
  /\ end[e].st # "gone" /\ end[e].r.rest = <<>> /\ end[e].r.nbuf # <<>>
  /\ At(e, inflate(end[e], end[e].r.nbuf))

\* Any line to a server that is established.
say(e) ==
  /\ Waits(e) /\ end[e].st = "server"
  /\ Len(SelectSeq(end[e].w.sent, LAMBDA l : l = "data")) < MaxData
  /\ At(e, send_message(end[e], "data"))

\* Mutant: forceflush is not passed on.
send_queued_unforced(e) ==
  /\ Waits(e) /\ "zip" \in end[e].w.mode /\ end[e].w.zbuf # <<>>
  /\ At(e, [end[e] EXCEPT !.w = zip_output(@, <<>>)])

\* flush_connections and send_queued: when nothing is queued, what zip_output
\* holds back is forced out.
send_queued(e) ==
  /\ Waits(e) /\ "zip" \in end[e].w.mode /\ end[e].w.zbuf # <<>>
  /\ At(e, [end[e] EXCEPT !.w = deflated(@)])

----------------------------------------------------------------------------
\* CONN_ZIP of the end that accepts only sets CAPAB_ZIP, never CAPAB_DOZIP.
LinkInit == /\ want \in [Sides -> SUBSET {"dkey", "zip"}] /\ "zip" \notin want["acc"]
            /\ end = [e \in Sides |-> NewEnd]

LinkReads(e) == \E k \in 1..MaxRead : read_server(e, k)

LinkNext == \/ connect_server \/ completed_connection
            \/ \E e \in Sides : LinkReads(e) \/ dopacket(e) \/ zcontinue(e) \/ say(e) \/ send_queued(e)

\* io_loop reads a connection with data and flushes the others in each round.
LinkFairness == /\ WF_linkVars(completed_connection)
                /\ \A e \in Sides : /\ WF_linkVars(LinkReads(e)) /\ WF_linkVars(send_queued(e))
                                    /\ WF_linkVars(dopacket(e) \/ zcontinue(e))

LinkSpec == LinkInit /\ [][LinkNext]_linkVars /\ LinkFairness

----------------------------------------------------------------------------
(* Properties.                                                             *)

\* However the stream is split into reads, each end parses exactly the lines
\* that the other sent, in their order, encrypted and compressed or not; no
\* step of the negotiation finds the link in a state in which it must drop it,
\* and what zip_output holds back fits its buffer.
LinkTransparent ==
  \A e \in Sides :
    /\ end[e].st # "gone"
    /\ IsPrefix(end[e].r.parsed, end[Other(e)].w.sent)
    /\ Len(end[e].w.zbuf) <= ZipMax

\* A link that was opened ends its negotiation with two servers that agree on encryption, and all
\* that is sent arrives.
LinkUp ==
  <>[](\A e \in Sides : end[e].st # "closed" =>
         /\ end[e].st = "server" /\ end[e].r.parsed = end[Other(e)].w.sent
         /\ "rc4" \in end[e].w.mode <=> (\A f \in Sides : "dkey" \in want[f])
         /\ "zip" \in end[e].w.mode <=> "zip" \in end[Other(e)].r.mode)
=============================================================================
