--------------------------- MODULE MCAgentRunLanes --------------------------
(* Model-checking instance of AgentRunLanes: two runs in one session, whose *)
(* global commands go to the main lane or, for cron jobs, the nested lane.  *)
EXTENDS AgentRunLanes, TLC

CONSTANTS r1, r2

MCRuns == {r1, r2}
MCEntries == MCRuns \X {"job", "session", "global"}
MCSessions == {"session:a"}
MCLanes == MCSessions \cup {"main", "cron", "nested"}
MCLaneParams == {"main", "cron"}
=============================================================================
