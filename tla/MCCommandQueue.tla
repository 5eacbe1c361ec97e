--------------------------- MODULE MCCommandQueue ---------------------------
(* Model-checking instance of CommandQueue: model values for lanes, entries  *)
(* and waiters come from the configuration.                                  *)
EXTENDS CommandQueue
=============================================================================
