---------------------------- MODULE MCTCPServers ----------------------------
(* Three clients with messages of three bytes, in both modes.                *)
EXTENDS TCPServers
=============================================================================
