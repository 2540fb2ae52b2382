---------------------------- MODULE MCDhcpClient ----------------------------
(* One client against servers that may answer anything at any time.         *)
EXTENDS DhcpClient
=============================================================================
