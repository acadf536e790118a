---------------------------- MODULE MCP2pClient ----------------------------
(* Instances of P2pClient for TLC. *)
EXTENDS P2pClient

CONSTANTS f1, f2
=============================================================================
