---------------------------- MODULE AgentRunLanes ---------------------------
(***************************************************************************)
(* How agent runs use the command queue: runEmbeddedPiAgent and             *)
(* compactEmbeddedPiSession (src/agents/pi-embedded-runner), manual cron    *)
(* runs (src/cron/service/ops.ts) and the restart sequence of the gateway   *)
(* run loop (src/cli/gateway-cli/run-loop.ts).                              *)
(*                                                                          *)
(* A run is a chain of commands.  Its "session" command serializes the      *)
(* session; when that starts it synchronously enqueues the run's "global"   *)
(* command, in which the agent works, and waits for it.  A manual cron run  *)
(* wraps both in a "job" command of the cron lane.  So a command holds its  *)
(* lane's slot while it waits for a slot of another lane.                   *)
(*                                                                          *)
(* The commands and lanes are those of CommandQueue; its steps are taken as *)
(* they are, with what the callers add.                                     *)
(***************************************************************************)
EXTENDS CommandQueue

CONSTANTS Runs,      \* agent runs (and queued compactions)
          Sessions,  \* session lanes, "session:<key>"
          LaneParams \* values of a run's params.lane

Stages == {"job", "session", "global"}

ASSUME RunEntries == Entries = Runs \X Stages
ASSUME RunLanes ==
  /\ LaneParams \subseteq {"main", "cron", "nested", "subagent"}
  /\ Sessions \cap {"main", "cron", "nested", "subagent"} = {}
  /\ Lanes = Sessions \cup LaneParams \cup {"main", "cron", "nested"}

VARIABLES laneParam, \* the lane each run asks for
          aborted    \* runs whose abort signal is set

runVars == <<laneParam, aborted>>

Job(r) == <<r, "job">>
Session(r) == <<r, "session">>
Global(r) == <<r, "global">>

IsJob(r) == laneParam[r] = "cron"

-----------------------------------------------------------------------------

Mut_SameLane(lane) == lane

(* resolveGlobalLane: a run inside a cron job must not need a cron slot. *)
ResolveGlobalLane(lane) == IF lane = "cron" THEN "nested" ELSE lane

RunInit ==
  /\ laneParam \in [Runs -> LaneParams]
  /\ \E sessionOf \in [Runs -> Sessions] :
       laneOf = [e \in Entries |->
                   CASE e[2] = "job" -> "cron"
                     [] e[2] = "session" -> sessionOf[e[1]]
                     [] e[2] = "global" -> ResolveGlobalLane(laneParam[e[1]])]
  /\ aborted = {}
  /\ Init

(* enqueueCommandInLane, accepted or refused. *)
Submit(e) == (Enqueue(e) \/ EnqueueRefused(e)) /\ UNCHANGED runVars

(* runEmbeddedPiAgent, compactEmbeddedPiSession: throwIfAborted, then the   *)
(* session command.                                                         *)
StartRun(r) ==
  /\ Idle
  /\ ~IsJob(r)
  /\ r \notin aborted
  /\ Submit(Session(r))

(* enqueueRun: a manual cron run. *)
StartJob(r) ==
  /\ Idle
  /\ IsJob(r)
  /\ Submit(Job(r))

(* The job, in a later turn, starts its agent run. *)
JobStartsRun(r) ==
  /\ Idle
  /\ status[Job(r)] = "running"
  /\ r \notin aborted
  /\ Submit(Session(r))

(* The session command's task: throwIfAborted, then the global command. *)
SessionTask(r) ==
  /\ OnTop(Task(Session(r)))
  /\ \/ /\ r \in aborted /\ status[Global(r)] = "new"
        /\ TaskThrows(Session(r)) /\ UNCHANGED runVars
     \/ /\ r \notin aborted /\ status[Global(r)] = "new"
        /\ Submit(Global(r))
     \/ /\ status[Global(r)] # "new"
        /\ TaskAwaits(Session(r)) /\ UNCHANGED runVars

(* The other tasks are async functions: nothing of theirs runs before the   *)
(* first await that concerns the queue.                                     *)
AsyncTask(e) ==
  /\ e[2] # "session"
  /\ TaskAwaits(e)
  /\ UNCHANGED runVars

(* The agent's work ends. *)
GlobalSettles(r) ==
  /\ \E outcome \in {"resolved", "rejected"} : TaskSettles(Global(r), outcome)
  /\ UNCHANGED runVars

Mut_SessionSettlesEarly(r) ==
  /\ status[Global(r)] # "new"
  /\ TaskSettles(Session(r), "resolved")
  /\ UNCHANGED runVars

(* The session command returned the global command's promise. *)
SessionSettles(r) ==
  /\ status[Global(r)] \in Settled
  /\ TaskSettles(Session(r),
       IF status[Global(r)] = "resolved" THEN "resolved" ELSE "rejected")
  /\ UNCHANGED runVars

(* The job ends: after its run, or without having started one, or by its    *)
(* timeout, which aborts the run and does not wait for it.                  *)
JobSettles(r) ==
  /\ status[Session(r)] \in Settled \cup {"new"}
  /\ TaskSettles(Job(r), "resolved")
  /\ UNCHANGED runVars

JobTimesOut(r) ==
  /\ status[Session(r)] \in {"queued", "running"}
  /\ TaskSettles(Job(r), "resolved")
  /\ aborted' = aborted \cup {r}
  /\ UNCHANGED laneParam

(* abortEmbeddedPiRun and callers' abort signals. *)
Abort(r) ==
  /\ Idle
  /\ aborted' = aborted \cup {r}
  /\ UNCHANGED <<vars, laneParam>>

(* Queue mode "interrupt" and session cleanup: clear the session's lane and *)
(* abort the run that is active in it.                                      *)
Interrupt(s) ==
  /\ Idle
  /\ IF queue[s] = <<>> THEN UNCHANGED vars ELSE ClearCommandLane(s)
  /\ aborted' = aborted \cup
       {r \in Runs : laneOf[Session(r)] = s /\ status[Global(r)] = "running"}
  /\ UNCHANGED laneParam

(* applyGatewayLaneConcurrency: session and nested lanes keep their limit. *)
ApplyLaneConcurrency(l, n) ==
  /\ l \notin Sessions \cup {"nested"}
  /\ SetCommandLaneConcurrency(l, n)
  /\ UNCHANGED runVars

(* request("restart"): refuse new commands and drain. *)
RequestRestart ==
  /\ ~gatewayDraining
  /\ MarkGatewayDraining
  /\ UNCHANGED runVars

(* The drain ended or timed out, in which case runs at work are aborted;    *)
(* the server was closed and the run loop starts its next iteration.        *)
FinishRestart ==
  /\ gatewayDraining
  /\ ResetAllLanes
  /\ aborted' = aborted \cup {r \in Runs : status[Global(r)] = "running"}
  /\ UNCHANGED laneParam

-----------------------------------------------------------------------------

QueueStep ==
  /\ \/ \E l \in Lanes :
          DrainLane(l) \/ PumpStart(l) \/ PumpExit(l) \/ ResetDrainsLane(l)
     \/ ResetEnds
  /\ UNCHANGED runVars

RunStep ==
  \/ QueueStep
  \/ \E r \in Runs : SessionTask(r)
  \/ \E e \in Entries : AsyncTask(e)

RunSettles(r) == GlobalSettles(r) \/ SessionSettles(r)

RunNext ==
  \/ RunStep
  \/ \E r \in Runs : \/ StartRun(r) \/ StartJob(r) \/ JobStartsRun(r)
                     \/ RunSettles(r) \/ JobSettles(r) \/ JobTimesOut(r)
                     \/ Abort(r)
  \/ \E s \in Sessions : Interrupt(s)
  \/ \E l \in Lanes, n \in 1..MaxLimit : ApplyLaneConcurrency(l, n)
  \/ RequestRestart
  \/ FinishRestart

RunSpec == RunInit /\ [][RunNext]_<<vars, runVars>>

(* As in CommandQueue: the stack runs, promise reactions are served, agents *)
(* and jobs make progress.  No timeout, abort or restart is assumed.        *)
RunFairness ==
  /\ WF_<<vars, runVars>>(RunStep)
  /\ \A r \in Runs : /\ SF_<<vars, runVars>>(GlobalSettles(r))
                     /\ SF_<<vars, runVars>>(SessionSettles(r))
                     /\ SF_<<vars, runVars>>(JobSettles(r))

FairRunSpec == RunSpec /\ RunFairness

-----------------------------------------------------------------------------

(* Two runs work in one session at once only if one of them entered the     *)
(* session lane before a restart.                                           *)
SessionExclusive ==
  \A r1, r2 \in Runs :
    /\ r1 # r2
    /\ laneOf[Session(r1)] = laneOf[Session(r2)]
    /\ status[Global(r1)] = "running" /\ status[Global(r2)] = "running"
    => \E r \in {r1, r2} :
         taskGeneration[Session(r)] < generation[laneOf[Session(r)]]

(* Jobs, runs and agents never wait for each other's slots in a circle:     *)
(* between turns, if a command is pending then some command can settle on   *)
(* its own, an agent at work, a session command whose global command has    *)
(* settled, or a job whose run has not started or has settled.              *)
SomeRunGoesOn ==
  Idle /\ (\E e \in Entries : status[e] \in {"queued", "running"}) =>
    \E r \in Runs :
      \/ status[Global(r)] = "running"
      \/ status[Session(r)] = "running" /\ status[Global(r)] \in Settled
      \/ status[Job(r)] = "running" /\ status[Session(r)] \in Settled \cup {"new"}

(* The cron job, session and global commands of runs never end up waiting   *)
(* for each other's slots: again and again, nothing accepted is pending.    *)
RunsQuiesce ==
  []<>(\A e \in Entries : status[e] \notin {"queued", "running"})

=============================================================================
