------------------------------- MODULE Klines -------------------------------
(***************************************************************************)
(* K-lines and their journal (src/src/klines.c).  K-lines that last long   *)
(* enough are written to the file .klines as they are set and removed; the *)
(* file is replayed when the server starts and on SIGHUP, and replaced by  *)
(* a dump of the K-lines in memory (compacted) after that and after every  *)
(* KLINE_STORE_COMPACT_THRESH entries.  The server may crash between any   *)
(* two steps and in the middle of a write, and the file operations of a    *)
(* compaction may fail.                                                    *)
(***************************************************************************)
EXTENDS UserBan

CONSTANTS
  ConfMasks,     \* the sets of kill blocks a configuration file may have
  MinStore,      \* KLINE_MIN_STORE_TIME
  Threshold,     \* KLINE_STORE_COMPACT_THRESH
  MaxLines,      \* bound: entries in the file
  Failures,      \* file operations that can fail: "open", "create", "rename",
                 \* "reopen"
  BadConf        \* TRUE if a rehash may meet a configuration with errors

ASSUME KlinesAssumption ==
  /\ ConfMasks \subseteq SUBSET BanMasks /\ ConfMasks # {}
  /\ MinStore \in Nat /\ Threshold \in Nat /\ MaxLines \in Nat
  /\ Failures \subseteq {"open", "create", "rename", "reopen"} /\ BadConf \in BOOLEAN

VARIABLES
  klinesFile,    \* the lines of .klines, or Torn
  journal,       \* whether the journal is open
  journalcount,
  doubtful       \* history: masks whose K-lines left the memory behind the
                 \* journal's back, or came back into it

klinesVars == <<klinesFile, journal, journalcount, doubtful>>

Torn == [type |-> "torn", mask |-> None, until |-> 0]
Plus(b)  == [type |-> "+", mask |-> b.mask, until |-> IF b.length = 0 THEN 0 ELSE b.start + b.length]
Minus(b) == [type |-> "-", mask |-> b.mask, until |-> 0]
LineRecs == [type : {"+", "-"}, mask : BanMasks, until : Nat] \cup {Torn}

----------------------------------------------------------------------------
(* Reading and writing.                                                    *)

\* ks_read of one line: an entry that is over is skipped, another one is
\* added, with the time it has left.
ks_read(bans, l) ==
  IF l.type = "+"
  THEN IF l.until # 0 /\ l.until <= timeofday THEN bans
       ELSE add_hostbased_userban(bans, Ban(l.mask, "kline", IF l.until = 0 THEN 0 ELSE l.until - timeofday))
  ELSE LET i == find_userban_exact(bans, l.mask, {"kline"})
       IN IF i = 0 THEN bans ELSE RemoveAt(bans, i)

\* The replay stops at the first line that is not whole.
whole(file) == CHOOSE n \in 0 .. Len(file) :
                 /\ \A i \in 1 .. n : file[i] # Torn
                 /\ n < Len(file) => file[n + 1] = Torn

replay(bans, file) ==
  LET read[n \in 0 .. whole(file)] ==
        IF n = 0 THEN bans ELSE ks_read(read[n - 1], file[n])
  IN read[whole(file)]

\* ks_dumplist: K-lines above the threshold for storage.
storable(b) == b.kind = "kline" /\ (b.length = 0 \/ b.length >= MinStore)

Storable(bans) == Keep(bans, {b \in Range(bans) : storable(b)})

ks_dumpklines(bans) == [i \in DOMAIN Storable(bans) |-> Plus(Storable(bans)[i])]

\* klinestore_compact, with the lists then bans and the journal [file, open].
klinestore_compact(bans, j, outcome) ==
  CASE outcome = "ok"     -> [file |-> ks_dumpklines(bans), open |-> TRUE]
    [] outcome \in {"open", "create"} -> j
    [] outcome = "rename" -> [file |-> j.file, open |-> FALSE]
    [] outcome = "reopen" -> [file |-> ks_dumpklines(bans), open |-> FALSE]

Outcomes == {"ok"} \cup Failures

\* Mutant: the entry is written after the compaction has been made.
klinestore_write_late(bans, line, outcome) ==
  LET j == IF journalcount + 1 > Threshold
           THEN klinestore_compact(userbans, [file |-> klinesFile, open |-> journal], outcome)
           ELSE [file |-> IF journal THEN Append(klinesFile, line) ELSE klinesFile, open |-> journal]
  IN /\ klinesFile' = j.file /\ journal' = j.open
     /\ journalcount' = IF journalcount + 1 > Threshold THEN 0 ELSE journalcount + 1

\* klinestore_add and klinestore_remove.
klinestore_write(bans, line, outcome) ==
  LET w == [file |-> IF journal THEN Append(klinesFile, line) ELSE klinesFile, open |-> journal]
      j == IF journalcount + 1 > Threshold THEN klinestore_compact(bans, w, outcome) ELSE w
  IN /\ klinesFile' = j.file /\ journal' = j.open
     /\ journalcount' = IF journalcount + 1 > Threshold THEN 0 ELSE journalcount + 1

\* klinestore_init: the file is replayed into bans, replaced and reopened.
klinestore_init(bans, file, count, outcome) ==
  IF outcome = "open"
  THEN /\ userbans' = bans /\ klinesFile' = file /\ journal' = FALSE
       /\ journalcount' = count
  ELSE LET after == replay(bans, file)
           j     == klinestore_compact(after, [file |-> file, open |-> FALSE], outcome)
       IN /\ userbans' = after
          /\ klinesFile' = j.file /\ journal' = j.open /\ journalcount' = 0

----------------------------------------------------------------------------
(* Commands.                                                               *)

\* m_kline of an operator the mask does not match.
m_kline(m, length, outcome) ==
  LET b == Ban(m, "kline", length)
      bans == add_hostbased_userban(userbans, b)
  IN /\ Len(userbans) < MaxBans /\ Len(klinesFile) < MaxLines
     /\ find_userban_exact(userbans, m, {"kline", "conf"}) = 0
     /\ userbans' = bans
     /\ IF storable(b)
        THEN klinestore_write(bans, Plus(b), outcome)
        ELSE UNCHANGED <<klinesFile, journal, journalcount>>
     /\ userban_sweep(m) /\ exits
     /\ UNCHANGED <<timeofday, doubtful>>

m_unkline(m, outcome) ==
  LET i == find_userban_exact(userbans, m, {"kline", "conf"})
  IN /\ i # 0 /\ userbans[i].kind # "conf" /\ Len(klinesFile) < MaxLines
     /\ userbans' = RemoveAt(userbans, i)
     /\ klinestore_write(RemoveAt(userbans, i), Minus(userbans[i]), outcome)
     /\ UNCHANGED <<timeofday, doubtful, accepted, registered, shunned, spared>>

\* REHASH TKLINES clears the lists, not the journal.
rehash_tklines ==
  LET gone == {b \in Range(userbans) : b.kind = "kline" /\ b.length # 0}
  IN /\ gone # {}
     /\ userbans' = Keep(userbans, Range(userbans) \ gone)
     /\ doubtful' = doubtful \cup {b.mask : b \in gone}
     /\ UNCHANGED <<timeofday, accepted, registered, shunned, spared, klinesFile, journal, journalcount>>

\* The kill blocks of the new configuration, each swept as it is read.
Loaded(bans, masks) ==
  SetToSeq({Ban(m, "conf", 0) : m \in masks}) \o Keep(bans, {b \in Range(bans) : b.kind # "conf"})

SweptBy(masks) == UNION {hits[m] : m \in masks}

\* What SIGHUP drops before the configuration is read.
dropped(sighup, b) == sighup /\ b.kind \in {"akill", "kline"}

\* rehash, by an operator or by SIGHUP, which also drops akills and K-lines.
\* Errors in the configuration end it before the journal is looked at; a
\* journal that is not open is replayed in any case.
rehash_bans(sighup, masks, bad, outcome) ==
  LET kept == Keep(userbans, {b \in Range(userbans) : ~ dropped(sighup, b)})
      bans == Loaded(kept, masks)
      fromFile == {l.mask : l \in Range(klinesFile) \ {Torn}}
  IN /\ bad => BadConf
     /\ Len(userbans) <= MaxBans
     /\ IF bad \/ (~ sighup /\ journal)
        THEN userbans' = bans /\ UNCHANGED <<klinesFile, journal, journalcount>>
        ELSE klinestore_init(bans, klinesFile, journalcount, outcome)
     /\ doubtful' = doubtful \cup
          (IF bad THEN IF sighup THEN BanMasks ELSE {}
           ELSE IF ~ journal THEN fromFile
           ELSE {})
     /\ registered' = registered \ SweptBy(masks)
     /\ accepted' = accepted \ SweptBy(masks \cap IpMasks)
     /\ exits
     /\ UNCHANGED timeofday

\* The server stops or crashes, perhaps in the middle of a write, and is
\* started again.
restart(torn, masks, outcome) ==
  LET file == IF torn /\ journal THEN Append(klinesFile, Torn) ELSE klinesFile
  IN /\ klinestore_init(Loaded(<<>>, masks), file, 0, outcome)
     /\ accepted' = {} /\ registered' = {} /\ shunned' = {} /\ spared' = {}
     /\ UNCHANGED <<timeofday, doubtful>>

KlinesInit == /\ UserBanInit
              /\ klinesFile = <<>> /\ journal = TRUE /\ journalcount = 0
              /\ doubtful = {}

KlineStep ==
  \/ \E outcome \in Outcomes :
       \/ \E m \in BanMasks : \/ \E length \in BanTimes : m_kline(m, length, outcome)
                              \/ m_unkline(m, outcome)
       \/ \E masks \in ConfMasks : \/ \E sighup, bad \in BOOLEAN : rehash_bans(sighup, masks, bad, outcome)
                                   \/ \E torn \in BOOLEAN : restart(torn, masks, outcome)
  \/ rehash_tklines

KlinesNext == (UserBanNext /\ UNCHANGED klinesVars) \/ KlineStep

KlinesSpec == KlinesInit /\ [][KlinesNext]_<<banningVars, klinesVars>>

----------------------------------------------------------------------------
InForce(bans) == {b.mask : b \in {k \in Range(bans) : k.kind = "kline" /\ ~ over(k)}}

\* What a restart would make of the file.
Stored == InForce(replay(<<>>, klinesFile))

\* The journal agrees with the lists at every moment, so a crash neither
\* loses a K-line above the threshold nor brings back one that was removed:
\* what a replay would make of the file is what is in force, whatever was
\* added, removed, compacted or torn, and even after a compaction failed.
\* (Masks that REHASH TKLINES cleared, or that an aborted SIGHUP dropped, are
\* left out: the code does not tell the journal.)  And a mask has one K-line, so
\* that UNKLINE lifts it.
JournalFaithful ==
  /\ journal => Stored \ doubtful = InForce(Storable(userbans)) \ doubtful
  /\ \A i, j \in DOMAIN userbans :
       /\ userbans[i].kind = "kline" /\ userbans[j].kind = "kline"
       /\ userbans[i].mask = userbans[j].mask /\ userbans[i].mask \notin doubtful
       => i = j

\* Those a ban on m is to keep out: users, and connections too if it is on an
\* address; less those who were let through one.
Reached(m) == {c \in registered \cup (IF m \in IpMasks THEN accepted ELSE {}) :
                 <<c, m>> \notin spared}

\* Nobody is there whom a ban matches, whichever came first and whatever
\* rehash or replay brought the ban, with two exceptions that the code makes:
\* who registers while a shun matches him, which ends the search for bans,
\* and a connection that has not registered when an akill on its address
\* arrives, which neither m_akill nor register_user looks at.
BannedGone ==
  \A b \in Range(userbans) :
    ~ over(b) /\ b.kind # "shun" /\ b.mask \notin doubtful
    => hits[b.mask] \cap Reached(b.mask) = {}

\* Both: bans keep out whom they match, and shuns end.
BansHold == ShunEnds /\ BannedGone

\* "all active K-Lines are dumped into a new file, which then replaces the
\* active journal" (klines.c): a K-line that the journal has and that is still
\* in force after a step is still in the journal, so that restarts, however
\* many, do not end it before its time.
KlinesKept ==
  [][Stored \cap InForce(userbans)' \subseteq Stored']_<<banningVars, klinesVars>>
============================================================================
