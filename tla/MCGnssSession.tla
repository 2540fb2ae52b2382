--------------------------- MODULE MCGnssSession ---------------------------
(* Three satellites, blocklists with a wildcard, locations of two fields.     *)
EXTENDS GnssSession

MCSatellites == {<<"GPS", 3>>, <<"GPS", 5>>, <<"GLONASS", 5>>}
MCSources    == {<<"GPS", 0>>, <<"GPS", 3>>}
MCMock       == [f \in Fields |-> "v0"]
=============================================================================
