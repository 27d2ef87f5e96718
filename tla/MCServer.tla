------------------------------ MODULE MCServer ------------------------------
(***************************************************************************)
(* What one server keeps that is not about its clients' nicks: cached ban  *)
(* answers, merged modes, configuration blocks, send queues, connection    *)
(* records, clone counts, user bans and connections that sign on.  They    *)
(* share no state, so one run explores them side by side: a behaviour is   *)
(* one of `part', the others stay as they begin.  The network's bans and   *)
(* the K-lines with their journal are two parts, each with the clients     *)
(* that come and go.                                                       *)
(***************************************************************************)
EXTENDS BanCache, BurstMerge, ConfRehash, SendQueue, Clones, Klines, SignOn

CONSTANTS c1, c2, c3, n1, n2, h1, h2, b1, dflt, k1, m1, m2, o1, u1, s1, t1

VARIABLE part

\* BanCache: two nicks on two hosts, a mask for a nick, one for a host and
\* one for everybody.
MCMasks     == {{<<n1, h1>>, <<n1, h2>>}, {<<n1, h1>>, <<n2, h1>>}, Nicks \X Hosts}
MCFullMasks == {{<<n1, h1>>, <<n1, h2>>}}

\* BurstMerge: the parameters are merged independently, so the copies start
\* with either a join rate or a limit and a key.
MCStartModes == {m \in Modes :
  IF m.rate THEN m.limit = 0 /\ m.key = 0 /\ m.flags = {} /\ m.num + m.time <= 3
  ELSE m.limit = m.key % 2 /\ (m.flags = {} <=> m.key # 2)}

\* ConfRehash: five configuration files, one with a connect block whose class
\* it does not define.
MCMaxLinks == [k \in ClassNames |-> IF k = dflt THEN 9 ELSE 1]
File(ks, b, as, o) == [classes  |-> ks,
                       connects |-> [x \in Connects |-> b],
                       allows   |-> as,
                       opers    |-> [x \in Opers |-> o]]
MCFiles == {File({dflt}, None, {}, None),
            File({dflt}, dflt, {<<m1, dflt>>}, dflt),
            File({dflt, k1}, k1, {<<m1, k1>>}, k1),
            File({dflt, k1}, None, {<<m1, dflt>>}, k1),
            File({dflt}, k1, {}, None)}

\* SendQueue: one message in two writes.
MCMessages == {<<"one", "more">>}
MCOperList == <<o1>>

\* Throttle and Clones: z-lines that grow, addresses of one site, limits that
\* are raised and taken back.
MCZlineTime == <<3, 4>>
MCSiteOf    == [a \in Addrs |-> t1]
MCSettable  == {<<h1, "hard", 0>>, <<h1, "hard", 1>>, <<h1, "soft", 0>>, <<h1, "soft", 2>>,
                <<h1, "local", 0>>, <<h1, "local", 2>>}

\* Klines: a mask for everybody and one for an address.
MCHits      == [m \in BanMasks |-> IF m = m1 THEN Visitors ELSE {c1}]
MCConfMasks == {{}, {m2}}

----------------------------------------------------------------------------
\* The parts with several initial states have only one of them elsewhere.
ServerInit ==
  /\ part \in {"bans", "burst", "conf", "send", "throttle", "clones", "userban", "klines", "signon"}
  /\ ConfInit /\ SendInit /\ ThrottleInit /\ ClonesInit /\ SignInit /\ KlinesInit
  /\ BanInit /\ (part # "bans" => id = [c \in Members |-> <<n1, h1>>])
  /\ IF part = "burst" THEN BurstInit
     ELSE copy = [s \in Servers |-> [ts |-> 1, mode |-> CHOOSE m \in StartModes : TRUE]]

KlineNext == \/ part = "userban" /\ UserBanNext /\ UNCHANGED klinesVars
             \/ part = "klines" /\ VisitorOrTime /\ UNCHANGED klinesVars
             \/ part = "klines" /\ KlineStep

ServerNext ==
  /\ UNCHANGED part
  /\ IF part = "bans" THEN BanNext ELSE UNCHANGED banVars
  /\ IF part = "burst" THEN BurstNext ELSE UNCHANGED copy
  /\ IF part = "conf" THEN ConfNext ELSE UNCHANGED confVars
  /\ IF part = "send" THEN SendNext ELSE UNCHANGED sendVars
  /\ IF part = "throttle" THEN ThrottleNext /\ UNCHANGED clonesVars
     ELSE IF part = "clones" THEN ClonesNext ELSE UNCHANGED <<throttleVars, clonesVars>>
  /\ IF part = "userban" \/ part = "klines" THEN KlineNext ELSE UNCHANGED <<banningVars, klinesVars>>
  /\ IF part = "signon" THEN SignNext ELSE UNCHANGED signVars

serverVars == <<part, banVars, copy, confVars, sendVars, throttleVars,
                clonesVars, banningVars, klinesVars, signVars>>

ServerSpec == ServerInit /\ [][ServerNext]_serverVars
============================================================================
