----------------------------- MODULE MCNetSetup -----------------------------
(* One boot, with every choice of wifi, radio and iptables.                 *)
EXTENDS NetSetup
=============================================================================
