------------------------------ MODULE MCTunnel ------------------------------
(* Instances of Tunnel for TLC: one dialer, two device identities, and a     *)
(* Retry-After that is absent, below and above the five-minute floor.        *)
EXTENDS Tunnel

CONSTANTS d1, s1, s2

OneDialer     == {d1}
TwoSessions   == {s1, s2}
ShortAndLong  == {0, 30, 600}
AnyAnswer     == Answers
=============================================================================
