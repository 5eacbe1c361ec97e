---------------------------- MODULE MCGatewayLock ---------------------------
(* GatewayLock with the constants of MCGatewayLock.cfg. *)
EXTENDS GatewayLock
=============================================================================
