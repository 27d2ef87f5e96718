------------------------------ MODULE MCKlines ------------------------------
(* Klines.tla for TLC: K-lines and restarts, two masks for one client.      *)
EXTENDS Klines

CONSTANTS c1, m1, m2

MCHits == [m \in BanMasks |-> {c1}]
=============================================================================
