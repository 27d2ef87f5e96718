------------------------------ MODULE Throttle ------------------------------
(***************************************************************************)
(* The connection throttle (src/src/throttle.c): one record per address    *)
(* counts its connections.  A record whose count reaches TrigCount within  *)
(* TrigTime is "z-lined" for a time that grows with every offence; a       *)
(* connection in that time starts it again.  Remote signons are counted    *)
(* with the time they carry, which may lie in the past.  A client that is  *)
(* turned down for a ban or a clone limit is throttled by force.           *)
(***************************************************************************)
EXTENDS Common, Sequences

CONSTANTS
  Addrs,
  Busy,          \* bound: those that connections come from
  TrigCount, TrigTime, RecordTime,   \* throttle_tcount, _ttime, _rtime
  ZlineTime,                         \* lengths of the stages 0, 1, ...
  MaxNow,                            \* bound: the clock
  MaxConns                           \* bound: remote signons counted in a record

ASSUME ThrottleAssumption ==
  /\ TrigCount \in Nat \ {0, 1} /\ Busy \subseteq Addrs
  /\ TrigTime \in Nat /\ RecordTime \in Nat /\ 2 * TrigTime < RecordTime
  /\ ZlineTime \in Seq(Nat \ {0}) /\ ZlineTime # <<>>
  /\ \A i \in DOMAIN ZlineTime : TrigTime < ZlineTime[i]

VARIABLES
  NOW,
  throttle_enable,
  throttles,    \* host |-> its record, or None
  attempts      \* history: host |-> the last connections: time, answer, and
                \* how long the host is to be kept out from then on

throttleVars == <<NOW, throttle_enable, throttles, attempts>>

ThrottleRecs == [stage : Nat \cup {-1}, zline_start : Nat, conns : Nat \cup {-1},
                 first : Nat, last : Nat]

ASSUME ThrottleNull == None \notin ThrottleRecs

----------------------------------------------------------------------------
new_throttle(t) ==
  [stage |-> -1, zline_start |-> 0, conns |-> 0, first |-> t, last |-> t]

throttle_get_zline_time(stage) ==
  IF stage = -1 THEN 0
  ELSE ZlineTime[IF stage < Len(ZlineTime) THEN stage + 1 ELSE Len(ZlineTime)]

zlined(tp, t) == /\ tp # None /\ tp.zline_start # 0
                 /\ t - tp.zline_start < throttle_get_zline_time(tp.stage)

\* The record to count with: made, or fresh after a z-line that is over.
renewed(tp, t) ==
  IF tp = None THEN new_throttle(t)
  ELSE IF tp.zline_start # 0
       THEN [tp EXCEPT !.conns = 0, !.first = t, !.zline_start = 0]
  ELSE tp

counted_conn(tp, t) ==
  [tp EXCEPT !.conns = IF @ >= 0 THEN @ + 1 ELSE @, !.last = t]

\* Mutant: the period of a z-line is not started again.
throttle_check_lenient(tp, here, t) ==
  IF zlined(tp, t) THEN [ok |-> FALSE, tp |-> tp]
  ELSE LET c == counted_conn(renewed(tp, t), t)
       IN IF t - c.first > TrigTime
          THEN [ok |-> TRUE, tp |-> [c EXCEPT !.conns = 1, !.first = t]]
          ELSE [ok |-> c.conns \in 0..TrigCount - 1,
                tp |-> IF here /\ c.conns >= TrigCount
                       THEN [c EXCEPT !.stage = @ + 1, !.zline_start = t] ELSE c]

\* The answer and the record it leaves; `here' for a connection to this
\* server, whose answer is used (a remote signon's is ignored).
throttle_check(tp, here, t) ==
  IF zlined(tp, t)
  THEN [ok |-> FALSE, tp |-> IF here THEN [tp EXCEPT !.zline_start = t] ELSE tp]
  ELSE LET c == counted_conn(renewed(tp, t), t)
       IN IF t - c.first > TrigTime
          THEN [ok |-> TRUE, tp |-> [c EXCEPT !.conns = 1, !.first = t]]
          ELSE [ok |-> c.conns \in 0..TrigCount - 1,
                tp |-> IF here /\ c.conns >= TrigCount
                       THEN [c EXCEPT !.stage = @ + 1, !.zline_start = t] ELSE c]

forced(tp, t) == [(IF tp = None THEN new_throttle(t) ELSE tp)
                    EXCEPT !.conns = -1, !.first = t, !.last = t]

\* throttle_timer: what expires now.
expired(tp) ==
  /\ tp # None
  /\ IF tp.zline_start # 0
     THEN NOW - tp.zline_start >= throttle_get_zline_time(tp.stage) + RecordTime
     ELSE NOW - tp.last >= RecordTime

----------------------------------------------------------------------------
(* The history of a host, as long as the properties look back; refusals    *)
(* that tell the same are kept once.                                       *)
LogLength == 2 * TrigCount

noted(h, ok, wait) ==
  LET entry == [time |-> NOW, ok |-> ok, wait |-> wait]
      log   == IF ~ ok /\ entry \in Range(attempts[h]) THEN attempts[h]
               ELSE Append(attempts[h], entry)
  IN [attempts EXCEPT ![h] = IF Len(log) > LogLength THEN Tail(log) ELSE log]

\* A connection to a listener (accept_connection).
accept_connection(h) ==
  LET r == throttle_check(throttles[h], TRUE, NOW)
  IN /\ IF throttle_enable
        THEN /\ throttles' = [throttles EXCEPT ![h] = r.tp]
             /\ attempts' = noted(h, r.ok, IF r.tp.zline_start # 0
                                           THEN throttle_get_zline_time(r.tp.stage) ELSE 0)
        ELSE UNCHANGED <<throttles, attempts>>
     /\ UNCHANGED <<NOW, throttle_enable>>

\* A USER from another server, signed on at t; old ones are not counted and
\* a time in the future is corrected.
remote_signon(h, t) ==
  /\ throttle_enable /\ NOW - t <= TrigTime
  /\ throttles[h] # None => throttles[h].conns < MaxConns
  /\ throttles' = [throttles EXCEPT
       ![h] = throttle_check(throttles[h], FALSE, IF t > NOW THEN NOW ELSE t).tp]
  /\ UNCHANGED <<NOW, throttle_enable, attempts>>

\* A client is turned down for a ban or a clone limit (s_bsd.c, s_user.c).
throttle_force(h) ==
  /\ throttles' = [throttles EXCEPT ![h] = forced(throttles[h], NOW)]
  /\ attempts' = IF throttles[h] # None /\ throttles[h].zline_start # 0 THEN attempts
                 ELSE noted(h, FALSE, TrigTime + 1)
  /\ UNCHANGED <<NOW, throttle_enable>>

\* An operator, a server or a client of an exempt class came from there.
throttle_remove(h) ==
  /\ throttles' = [throttles EXCEPT ![h] = None]
  /\ attempts' = [attempts EXCEPT ![h] = IF throttles[h] = None THEN @ ELSE <<>>]
  /\ UNCHANGED <<NOW, throttle_enable>>

\* Every 39 seconds (io_loop), here at any time.
throttle_timer ==
  /\ throttle_enable /\ \E h \in Addrs : expired(throttles[h])
  /\ throttles' = [h \in Addrs |-> IF expired(throttles[h]) THEN None ELSE throttles[h]]
  /\ UNCHANGED <<NOW, throttle_enable, attempts>>

\* REHASH THROTTLES: throttle_timer(0).
throttle_rehash ==
  /\ throttle_enable
  /\ throttles' = [h \in Addrs |-> None]
  /\ attempts' = [h \in Addrs |-> <<>>]
  /\ UNCHANGED <<NOW, throttle_enable>>

\* SET THROTTLE ENABLE.
m_set_throttle ==
  /\ throttle_enable' = ~ throttle_enable
  /\ attempts' = [h \in Addrs |-> <<>>]
  /\ UNCHANGED <<NOW, throttles>>

Tick == /\ NOW < MaxNow
        /\ NOW' = NOW + 1
        /\ UNCHANGED <<throttle_enable, throttles, attempts>>

ThrottleInit ==
  /\ NOW = 1 /\ throttle_enable = TRUE
  /\ throttles = [h \in Addrs |-> None]
  /\ attempts = [h \in Addrs |-> <<>>]

ThrottleNext ==
  \/ \E h \in Busy : \/ accept_connection(h)
                     \/ \E t \in 1..NOW + 1 : remote_signon(h, t)
                     \/ throttle_force(h) \/ throttle_remove(h)
  \/ throttle_timer \/ throttle_rehash \/ m_set_throttle \/ Tick

----------------------------------------------------------------------------
\* A host that was sent away stays out: after a throttled connection no other
\* is let in before the z-line of its stage has run its whole length again
\* ("Further connections in this period will reset your throttle",
\* throttle.c), and after a forced one not within TrigTime, whatever remote
\* signons, expiries and forced throttles fall in between.
StaysOut ==
  \A h \in Addrs : \A i, j \in DOMAIN attempts[h] :
    i < j /\ ~ attempts[h][i].ok /\ attempts[h][j].ok
      => attempts[h][j].time - attempts[h][i].time >= attempts[h][i].wait

\* The count restarts every TrigTime, so a burst may straddle two counts, but
\* not three: any 2 * TrigCount - 1 connections that were let in are spread
\* over more than TrigTime.
NoBurst ==
  \A h \in Addrs : \A i, j \in DOMAIN attempts[h] :
    /\ i < j
    /\ Cardinality({k \in i..j : attempts[h][k].ok}) >= 2 * TrigCount - 1
    => attempts[h][j].time - attempts[h][i].time > TrigTime

\* What throttle_check promises of the connections it lets in and sends away.
ThrottleHolds == StaysOut /\ NoBurst
============================================================================
