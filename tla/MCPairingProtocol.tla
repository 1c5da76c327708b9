-------------------------- MODULE MCPairingProtocol --------------------------
(***************************************************************************)
(* PairingProtocol as it stands: its only parameters are two limits, and   *)
(* the cfg makes the limit on deferred messages the most that a peer can   *)
(* have to defer.                                                          *)
(***************************************************************************)
EXTENDS PairingProtocol
=============================================================================
