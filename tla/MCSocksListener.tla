-------------------------- MODULE MCSocksListener --------------------------
(* Two goroutines start and stop one listener at most three times; two       *)
(* clients connect.                                                          *)
EXTENDS SocksListener
CONSTANTS main, wifi, s1, s2, s3, k1, k2
TwoControllers == {main, wifi}
ThreeSockets   == {s1, s2, s3}
TwoClients     == {k1, k2}
=============================================================================
