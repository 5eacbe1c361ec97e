--------------------------- MODULE MCHeartbeatWake --------------------------
(* HeartbeatWake with the constants of MCHeartbeatWake.cfg. *)
EXTENDS HeartbeatWake
=============================================================================
