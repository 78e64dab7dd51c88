-------------------------- MODULE MCValueEndpoint --------------------------
(***************************************************************************)
(* ValueEndpoint for TLC: one request and one WebSocket callback of a PV   *)
(* are enough.                                                             *)
(***************************************************************************)
EXTENDS ValueEndpoint

=============================================================================
