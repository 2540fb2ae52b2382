----------------------------- MODULE MCGnssAidl -----------------------------
(* Two binder threads and one client callback.                              *)
EXTENDS GnssAidl
=============================================================================
