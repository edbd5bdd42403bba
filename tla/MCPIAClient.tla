---------------------------- MODULE MCPIAClient ----------------------------
(* Instances of PIAClient for TLC: two tunnels share the client, and there   *)
(* are more tokens than the cache and the two callers can remember.          *)
EXTENDS PIAClient

CONSTANTS c1, c2, t1, t2, t3, t4

TwoCallers  == {c1, c2}
ThreeTokens == {t1, t2, t3}
FourTokens  == {t1, t2, t3, t4}
=============================================================================
