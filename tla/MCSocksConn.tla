---------------------------- MODULE MCSocksConn ----------------------------
(* One connection; a user name, a password and a wrong string.               *)
EXTENDS SocksConn
CONSTANTS alice, secret, wrong
AllStrings == {alice, secret, wrong, Empty}
=============================================================================
