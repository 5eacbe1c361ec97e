---------------------------- MODULE CommandQueue ----------------------------
(***************************************************************************)
(* The in-process command queue, src/process/command-queue.ts: lanes of    *)
(* queued commands, each with its own concurrency limit, a gateway-wide    *)
(* draining flag for restarts, and callers that wait for active commands.  *)
(*                                                                         *)
(* The program is single threaded, so the interesting interleavings are    *)
(* re-entrant calls: pump() calls a command's task synchronously, and the  *)
(* task, before its first await, may call back into the queue.  The model  *)
(* therefore keeps the call stack.  A step with an empty stack is a new    *)
(* turn of the event loop; other steps run the frame on top of the stack.  *)
(*                                                                         *)
(* Abstractions.  A queue entry's identity stands for its task id (both    *)
(* are fresh for every start).  A lane that getLaneState has not created   *)
(* yet is a lane in its initial state.  Wait times, warnings and logging   *)
(* are left out.  An entry's promise is settled by the step that completes *)
(* its task; the code settles it after pump() returns, which no other code *)
(* can tell apart because promise reactions need an empty stack.           *)
(***************************************************************************)
EXTENDS Naturals, Sequences, FiniteSets, Functions

CONSTANTS Lanes,          \* lane names
          Entries,        \* commands a caller may enqueue, each at most once
          Waiters,        \* calls of waitForActiveTasks
          MaxLimit,       \* bound: largest concurrency ever configured
          MaxGeneration   \* bound: number of in-process restarts

ASSUME LanesAssumption == IsFiniteSet(Lanes)
ASSUME EntriesAssumption == IsFiniteSet(Entries)
ASSUME BoundsAssumption == MaxLimit \in Nat \ {0} /\ MaxGeneration \in Nat

VARIABLES queue,           \* LaneState.queue
          activeTaskIds,   \* LaneState.activeTaskIds
          maxConcurrent,   \* LaneState.maxConcurrent
          draining,        \* LaneState.draining
          generation,      \* LaneState.generation
          gatewayDraining, \* the global flag that refuses new commands
          status,          \* what has become of each entry's promise and task
          laneOf,          \* the lane an entry was put in
          taskGeneration,  \* the lane's generation when the entry's task started
          waiterState,     \* the promise of each waitForActiveTasks call
          waitFor,         \* ActiveTaskWaiter.activeTaskIds
          stack            \* the JavaScript call stack, top first

laneVars == <<queue, activeTaskIds, maxConcurrent, draining, generation>>
entryVars == <<status, laneOf, taskGeneration>>
waiterVars == <<waiterState, waitFor>>
vars == <<queue, activeTaskIds, maxConcurrent, draining, generation,
          gatewayDraining, status, laneOf, taskGeneration,
          waiterState, waitFor, stack>>

-----------------------------------------------------------------------------
(* Types *)

Settled == {"resolved", "rejected", "cleared", "refused"}
Status == {"new", "queued", "running"} \cup Settled
WaiterStatus == {"idle", "waiting", "drained", "notDrained"}

LaneFrame == [op : {"drain", "pump"}, lane : Lanes]
TaskFrame == [op : {"task"}, entry : Entries]
ResetFrame == [op : {"reset"}, lanes : SUBSET Lanes]
Frame == LaneFrame \cup TaskFrame \cup ResetFrame

Drain(l) == [op |-> "drain", lane |-> l]
Pump(l) == [op |-> "pump", lane |-> l]
Task(e) == [op |-> "task", entry |-> e]
Reset(ls) == [op |-> "reset", lanes |-> ls]

(* Every variable has the type the code gives it. *)
TypeOK ==
  /\ queue \in [Lanes -> Seq(Entries)]
  /\ activeTaskIds \in [Lanes -> SUBSET Entries]
  /\ maxConcurrent \in [Lanes -> 1..MaxLimit]
  /\ draining \in [Lanes -> BOOLEAN]
  /\ generation \in [Lanes -> 0..MaxGeneration]
  /\ gatewayDraining \in BOOLEAN
  /\ status \in [Entries -> Status]
  /\ laneOf \in [Entries -> Lanes]
  /\ taskGeneration \in [Entries -> 0..MaxGeneration]
  /\ waiterState \in [Waiters -> WaiterStatus]
  /\ waitFor \in [Waiters -> SUBSET Entries]
  /\ stack \in Seq(Frame)

Init ==
  /\ queue = [l \in Lanes |-> <<>>]
  /\ activeTaskIds = [l \in Lanes |-> {}]
  /\ maxConcurrent = [l \in Lanes |-> 1]
  /\ draining = [l \in Lanes |-> FALSE]
  /\ generation = [l \in Lanes |-> 0]
  /\ gatewayDraining = FALSE
  /\ status = [e \in Entries |-> "new"]
  /\ laneOf \in [Entries -> Lanes]
  /\ taskGeneration = [e \in Entries |-> 0]
  /\ waiterState = [w \in Waiters |-> "idle"]
  /\ waitFor = [w \in Waiters |-> {}]
  /\ stack = <<>>

-----------------------------------------------------------------------------
(* Helpers *)

InQueue(l) == Range(queue[l])
FramesOnStack == Range(stack)

(* An event-loop turn may start; a callback may run (a turn, or the         *)
(* synchronous prefix of a task).                                           *)
Idle == stack = <<>>
OnTop(f) == ~Idle /\ Head(stack) = f
CanCall == IF Idle THEN TRUE ELSE Head(stack).op = "task"

Call(f) == stack' = <<f>> \o stack
Goto(f) == stack' = <<f>> \o Tail(stack)
Return == stack' = Tail(stack)

AllActive(active) == UNION {active[l] : l \in Lanes}

Mut_NotifyNobody(active) == UNCHANGED waiterState
Mut_NotifyOnFirst(active) ==
  waiterState' = [w \in Waiters |->
    IF waiterState[w] = "waiting" /\ ~(waitFor[w] \subseteq AllActive(active))
      THEN "drained" ELSE waiterState[w]]

(* notifyActiveTaskWaiters: resolve every waiter none of whose ids is active. *)
NotifyActiveTaskWaiters(active) ==
  waiterState' = [w \in Waiters |->
    IF waiterState[w] = "waiting" /\ waitFor[w] \cap AllActive(active) = {}
      THEN "drained" ELSE waiterState[w]]

(* The condition of pump()'s loop. *)
Runnable(l) ==
  /\ queue[l] # <<>>
  /\ Cardinality(activeTaskIds[l]) < maxConcurrent[l]

-----------------------------------------------------------------------------
(* Operations callers invoke *)

(* enqueueCommandInLane: push the entry, then drainLane. *)
Enqueue(e) ==
  /\ CanCall
  /\ ~gatewayDraining
  /\ status[e] = "new"
  /\ queue' = [queue EXCEPT ![laneOf[e]] = Append(@, e)]
  /\ status' = [status EXCEPT ![e] = "queued"]
  /\ Call(Drain(laneOf[e]))
  /\ UNCHANGED <<activeTaskIds, maxConcurrent, draining, generation,
                 gatewayDraining, laneOf, taskGeneration, waiterVars>>

(* enqueueCommandInLane while the gateway drains: GatewayDrainingError. *)
EnqueueRefused(e) ==
  /\ CanCall
  /\ gatewayDraining
  /\ status[e] = "new"
  /\ status' = [status EXCEPT ![e] = "refused"]
  /\ UNCHANGED <<laneVars, gatewayDraining, laneOf, taskGeneration,
                 waiterVars, stack>>

(* clearCommandLane: reject everything still queued in the lane. *)
ClearCommandLane(l) ==
  /\ CanCall
  /\ queue[l] # <<>>
  /\ status' = [e \in Entries |->
                  IF e \in InQueue(l) THEN "cleared" ELSE status[e]]
  /\ queue' = [queue EXCEPT ![l] = <<>>]
  /\ UNCHANGED <<activeTaskIds, maxConcurrent, draining, generation,
                 gatewayDraining, laneOf, taskGeneration, waiterVars, stack>>

(* Math.max(1, maxConcurrent) *)
AtLeastOne(n) == IF n < 1 THEN 1 ELSE n

(* setCommandLaneConcurrency, then drainLane. *)
SetCommandLaneConcurrency(l, n) ==
  /\ Idle
  /\ maxConcurrent' = [maxConcurrent EXCEPT ![l] = AtLeastOne(n)]
  /\ Call(Drain(l))
  /\ UNCHANGED <<queue, activeTaskIds, draining, generation, gatewayDraining,
                 entryVars, waiterVars>>

(* markGatewayDraining *)
MarkGatewayDraining ==
  /\ Idle
  /\ gatewayDraining' = TRUE
  /\ UNCHANGED <<laneVars, entryVars, waiterVars, stack>>

Mut_SameGeneration(l) == generation[l]
Mut_NoLanesToDrain == {}

(* resetAllLanes: the new generation of a lane, and the lanes it drains. *)
NextGeneration(l) == generation[l] + 1
LanesToDrain == {l \in Lanes : queue[l] # <<>>}

(* resetAllLanes, its first loop; the second is the reset frame. *)
ResetAllLanes ==
  /\ Idle
  /\ \A l \in Lanes : generation[l] < MaxGeneration
  /\ gatewayDraining' = FALSE
  /\ generation' = [l \in Lanes |-> NextGeneration(l)]
  /\ activeTaskIds' = [l \in Lanes |-> {}]
  /\ draining' = [l \in Lanes |-> FALSE]
  /\ Call(Reset(LanesToDrain))
  /\ UNCHANGED <<queue, maxConcurrent, entryVars, waiterVars>>

(* waitForActiveTasks: what is active now is what is waited for.  A timeout *)
(* of zero gives up at once.                                                *)
WaitForActiveTasks(w, timeoutMs) ==
  LET activeAtStart == AllActive(activeTaskIds) IN
  /\ Idle
  /\ waiterState[w] = "idle"
  /\ waitFor' = [waitFor EXCEPT ![w] = activeAtStart]
  /\ waiterState' = [waiterState EXCEPT ![w] =
       IF activeAtStart = {} THEN "drained"
       ELSE IF timeoutMs = 0 THEN "notDrained" ELSE "waiting"]
  /\ UNCHANGED <<laneVars, gatewayDraining, entryVars, stack>>

(* The timeout of a waitForActiveTasks call. *)
WaiterTimeout(w) ==
  /\ Idle
  /\ waiterState[w] = "waiting"
  /\ waiterState' = [waiterState EXCEPT ![w] = "notDrained"]
  /\ UNCHANGED <<laneVars, gatewayDraining, entryVars, waitFor, stack>>

-----------------------------------------------------------------------------
(* Frames of the call stack *)

(* drainLane: nothing to do when a pump of the lane is already running. *)
DrainLane(l) ==
  /\ OnTop(Drain(l))
  /\ IF draining[l]
       THEN Return /\ UNCHANGED draining
       ELSE Goto(Pump(l)) /\ draining' = [draining EXCEPT ![l] = TRUE]
  /\ UNCHANGED <<queue, activeTaskIds, maxConcurrent, generation,
                 gatewayDraining, entryVars, waiterVars>>

(* One iteration of pump(): start the entry at the head of the queue and run *)
(* its task's synchronous prefix.                                            *)
PumpStart(l) ==
  LET e == Head(queue[l]) IN
  /\ OnTop(Pump(l))
  /\ Runnable(l)
  /\ queue' = [queue EXCEPT ![l] = Tail(@)]
  /\ activeTaskIds' = [activeTaskIds EXCEPT ![l] = @ \cup {e}]
  /\ status' = [status EXCEPT ![e] = "running"]
  /\ taskGeneration' = [taskGeneration EXCEPT ![e] = generation[l]]
  /\ Call(Task(e))
  /\ UNCHANGED <<maxConcurrent, draining, generation, gatewayDraining, laneOf,
                 waiterVars>>

Mut_PumpKeepsFlag(l) ==
  /\ OnTop(Pump(l))
  /\ ~Runnable(l)
  /\ Return
  /\ UNCHANGED <<laneVars, gatewayDraining, entryVars, waiterVars>>

(* pump() leaves its loop; its finally clears the draining flag. *)
PumpExit(l) ==
  /\ OnTop(Pump(l))
  /\ ~Runnable(l)
  /\ draining' = [draining EXCEPT ![l] = FALSE]
  /\ Return
  /\ UNCHANGED <<queue, activeTaskIds, maxConcurrent, generation,
                 gatewayDraining, entryVars, waiterVars>>

(* What follows the task: completeTask, notify and pump, all skipped when   *)
(* the lane was reset since the task started.                               *)
CompleteTask(e, outcome, callers) ==
  LET l == laneOf[e] IN
  /\ status' = [status EXCEPT ![e] = outcome]
  /\ IF taskGeneration[e] = generation[l]
       THEN /\ activeTaskIds' = [activeTaskIds EXCEPT ![l] = @ \ {e}]
            /\ NotifyActiveTaskWaiters(activeTaskIds')
            /\ stack' = <<Pump(l)>> \o callers
       ELSE /\ stack' = callers
            /\ UNCHANGED <<activeTaskIds, waiterState>>
  /\ UNCHANGED <<queue, maxConcurrent, draining, generation, gatewayDraining,
                 laneOf, taskGeneration, waitFor>>

(* The task's first await: control goes back to the pump that started it. *)
TaskAwaits(e) ==
  /\ OnTop(Task(e))
  /\ Return
  /\ UNCHANGED <<laneVars, gatewayDraining, entryVars, waiterVars>>

(* The task throws before its first await. *)
TaskThrows(e) ==
  /\ OnTop(Task(e))
  /\ CompleteTask(e, "rejected", Tail(stack))

(* The task's promise settles, in a turn of its own. *)
TaskSettles(e, outcome) ==
  /\ Idle
  /\ status[e] = "running"
  /\ CompleteTask(e, outcome, stack)

(* resetAllLanes, one iteration of its second loop. *)
ResetDrainsLane(l) ==
  /\ ~Idle /\ Head(stack).op = "reset"
  /\ l \in Head(stack).lanes
  /\ stack' = <<Drain(l)>> \o (<<Reset(Head(stack).lanes \ {l})>> \o Tail(stack))
  /\ UNCHANGED <<laneVars, gatewayDraining, entryVars, waiterVars>>

(* resetAllLanes, its end: notifyActiveTaskWaiters. *)
ResetEnds ==
  /\ OnTop(Reset({}))
  /\ NotifyActiveTaskWaiters(activeTaskIds)
  /\ Return
  /\ UNCHANGED <<laneVars, gatewayDraining, entryVars, waitFor>>

-----------------------------------------------------------------------------

RunStack ==
  \/ \E l \in Lanes :
       DrainLane(l) \/ PumpStart(l) \/ PumpExit(l) \/ ResetDrainsLane(l)
  \/ \E e \in Entries : TaskAwaits(e) \/ TaskThrows(e)
  \/ ResetEnds

Settle(e) == \E outcome \in {"resolved", "rejected"} : TaskSettles(e, outcome)

Operation ==
  \/ \E e \in Entries : Enqueue(e) \/ EnqueueRefused(e)
  \/ \E l \in Lanes : ClearCommandLane(l)
  \/ \E l \in Lanes, n \in 0..MaxLimit : SetCommandLaneConcurrency(l, n)
  \/ MarkGatewayDraining
  \/ ResetAllLanes
  \/ \E w \in Waiters, timeoutMs \in {0, 1} : WaitForActiveTasks(w, timeoutMs)

Next ==
  \/ Operation
  \/ RunStack
  \/ \E e \in Entries : Settle(e)
  \/ \E w \in Waiters : WaiterTimeout(w)

Spec == Init /\ [][Next]_vars

(* Code on the stack runs to completion, and promise reactions are served in *)
(* turn, so one that is due again and again is served.  That a task's        *)
(* promise settles at all is the callers' obligation.  Timeouts are not      *)
(* assumed to fire.                                                          *)
Fairness ==
  /\ WF_vars(RunStack)
  /\ \A e \in Entries : SF_vars(Settle(e))

FairSpec == Spec /\ Fairness

-----------------------------------------------------------------------------
(* Safety *)

(* An entry's promise is pending exactly as long as the entry is in its own *)
(* lane's queue, once, or its task is running: no command is lost or run    *)
(* twice by a nested pump, a clear or a restart.                            *)
QueuesHoldPending ==
  /\ \A l \in Lanes :
       /\ \A i, j \in DOMAIN queue[l] : queue[l][i] = queue[l][j] => i = j
       /\ \A e \in InQueue(l) : status[e] = "queued" /\ laneOf[e] = l
  /\ \A e \in Entries : status[e] = "queued" => e \in InQueue(laneOf[e])

(* A lane's active set is its running tasks of the current generation: a    *)
(* stale id would hold a slot for ever, a missing one would free it early.  *)
ActiveAreRunning ==
  \A l \in Lanes :
    activeTaskIds[l] = {e \in Entries : /\ laneOf[e] = l
                                        /\ status[e] = "running"
                                        /\ taskGeneration[e] = generation[l]}

(* The state of the lanes is consistent: types, queues and active sets.     *)
LanesConsistent == TypeOK /\ QueuesHoldPending /\ ActiveAreRunning

(* Between turns no lane has both a free slot and a queued command: nothing *)
(* is left waiting for a later enqueue that may never come.                 *)
WorkConserving == Idle => \A l \in Lanes : ~Runnable(l)

(* A call of waitForActiveTasks is pending only while a task it waits for   *)
(* is active (or resetAllLanes has not finished); one that reported         *)
(* "drained" outlived all its tasks, but for those a restart abandoned.     *)
WaitersAccurate ==
  \A w \in Waiters :
    /\ waiterState[w] = "waiting" =>
         \/ waitFor[w] \cap AllActive(activeTaskIds) # {}
         \/ \E f \in FramesOnStack : f.op = "reset"
    /\ waiterState[w] = "drained" =>
         \A e \in waitFor[w] :
           status[e] = "running" => taskGeneration[e] < generation[laneOf[e]]

-----------------------------------------------------------------------------
(* Liveness *)

(* Every accepted command ends: it is run to its end or cleared, across     *)
(* concurrency changes and restarts.                                        *)
EveryCommandSettles ==
  \A e \in Entries : status[e] \in {"queued", "running"} ~> status[e] \in Settled

(* Every waitForActiveTasks call returns, even if its timeout never fires. *)
EveryWaiterReturns ==
  \A w \in Waiters : waiterState[w] = "waiting" ~> waiterState[w] # "waiting"

=============================================================================
