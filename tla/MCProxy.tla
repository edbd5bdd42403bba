------------------------------ MODULE MCProxy ------------------------------
(* One client and two sessions for one proxy.                                *)
EXTENDS Proxy
CONSTANTS k1, s1, s2
OneClient   == {k1}
TwoSessions == {s1, s2}
=============================================================================
