----------------------------- MODULE MCBanCache -----------------------------
(* BanCache.tla for TLC: two nicks on two hosts, a mask for a nick, one for *)
(* a host and one for everybody.                                            *)
EXTENDS BanCache

CONSTANTS n1, n2, h1, h2, a

MCMasks == {{<<n1, h1>>, <<n1, h2>>}, {<<n1, h1>>, <<n2, h1>>}, Nicks \X Hosts}
MCFullMasks == {{<<n1, h1>>, <<n1, h2>>}}
=============================================================================
