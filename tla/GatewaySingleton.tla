-------------------------- MODULE GatewaySingleton --------------------------
(***************************************************************************)
(* What docs/gateway/gateway-lock.md promises: only one gateway instance   *)
(* runs per base port on a host.  A gateway runs while its services        *)
(* (channels, cron, heartbeats) do; one gateway may take over only after    *)
(* the services of the one before it have stopped.                          *)
(***************************************************************************)
CONSTANT Procs
VARIABLE running  \* processes whose gateway services run

Init == running = {}

Serve(p) == running = {} /\ running' = {p}

Cease(p) == running = {p} /\ running' = {}

Next == \E p \in Procs : Serve(p) \/ Cease(p)

Spec == Init /\ [][Next]_running
=============================================================================
