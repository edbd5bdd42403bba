--------------------------- MODULE MCConversions ---------------------------
(* The three conversions, one input at a time: a message of up to eight      *)
(* bytes out of five values, any list of up to four entries, any header of   *)
(* an 8-bit Duration with ten units in a second.                             *)
EXTENDS SocksCodec, CityList, RetryAfter
CONSTANTS known, retired
OneByte    == <<4>>
TwoRegions == {known, retired}
OneKnown   == {known}
Defaults   == <<known, retired, known>>
ThreePorts == {1, 11, 12}

vars == <<stream, header, listVars>>

Init == CodecInit /\ CityListInit /\ RetryInit

Message == /\ entries = <<>> /\ next = 1 /\ header = Nothing
           /\ Arrive /\ UNCHANGED <<listVars, header>>
List    == /\ stream = <<>> /\ header = Nothing
           /\ CityListNext /\ UNCHANGED <<stream, header>>
Limit   == /\ stream = <<>> /\ entries = <<>> /\ next = 1
           /\ AnotherHeader /\ UNCHANGED <<stream, listVars>>

Next == Message \/ List \/ Limit

Spec == Init /\ [][Next]_vars
=============================================================================
