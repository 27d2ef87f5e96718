------------------------------- MODULE MCSend -------------------------------
(* SendQueue.tla for TLC: an operator, a user and a server link, messages   *)
(* of one and of two writes.                                                *)
EXTENDS SendQueue

CONSTANTS o1, u1, s1

MCMessages == {<<"one", "more">>}
MCOperList == <<o1>>
=============================================================================
