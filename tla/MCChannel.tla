----------------------------- MODULE MCChannel -----------------------------
(***************************************************************************)
(* Channels, and the messages to them and to clients.  The two share no    *)
(* state: a behaviour is one of `part', the other stays as it begins.      *)
(* Messages need two clients of this server, two of others and a service:  *)
(* enough to address one person more than the slots hold.                  *)
(***************************************************************************)
EXTENDS Channel, Message

CONSTANTS a, b, r, x, c1, c2, c3, c4, u1, k1

VARIABLE part

MCStatusLetters == {"o", "h", "m", "O", "l"}
MCLists         == {<<c2, c3>>, <<k1, c2>>, <<c4>>, <<c2>>, <<u1>>}

MCInit == part \in {"channel", "message"} /\ Init /\ MessageInit

MCNext ==
  /\ UNCHANGED part
  /\ IF part = "channel" THEN Next ELSE UNCHANGED vars
  /\ IF part = "message" THEN MessageNext ELSE UNCHANGED messageVars

MCSpec == MCInit /\ [][MCNext]_<<part, vars, messageVars>>
=============================================================================
