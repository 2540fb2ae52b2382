--------------------------- MODULE MCGnssReporter ---------------------------
(* A measurement object beside an antenna-info object, as one location      *)
(* service uses them.                                                       *)
EXTENDS GnssReporter, TLC
CONSTANTS m1, a1

OneOfEach == (m1 :> "Measurement") @@ (a1 :> "AntennaInfo")
=============================================================================
