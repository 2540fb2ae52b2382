---------------------------- MODULE MCDhcpSystem ----------------------------
(* A server with one access point interface, and the endpoints on it.       *)
EXTENDS DhcpSystem, TLC
CONSTANTS c1, ma, mb

MCIfAddr == 1 :> 17
MCSpan   == 1 :> 8

\* One client of this repository beside a stranger with transaction ids of its own.
OneClient == c1 :> 1
OneMac    == c1 :> ma
Stranger  == {[iface |-> 1, type |-> "REQUEST", xid |-> 7, mac |-> mb, ip |-> 18]}

\* No stranger.
Nobody == {}
=============================================================================
