---------------------------- MODULE MCDhcpServer ----------------------------
(* A server with one wide interface, one where a single address is left     *)
(* beside its own, and one excluded on the command line.                    *)
EXTENDS DhcpServer, TLC

MCIfAddr == (1 :> 17) @@ (2 :> 9) @@ (3 :> 33)
MCSpan   == (1 :> 8) @@ (2 :> 4) @@ (3 :> 4)
=============================================================================
