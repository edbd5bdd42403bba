-------------------------- MODULE MCUdpAssociation --------------------------
(* Two clients behind one association, and two targets.                      *)
EXTENDS UdpAssociation
CONSTANTS phone, laptop, dns, game
TwoSenders == {phone, laptop}
TwoTargets == {dns, game}
=============================================================================
