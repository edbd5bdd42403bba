--------------------------- MODULE MCStatusLocks ---------------------------
(* Two tunnels are enough for one to wait on the other's request.            *)
EXTENDS StatusLocks
CONSTANTS north, south
TwoTunnels == {north, south}
=============================================================================
