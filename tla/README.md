# A TLA+ verification of the gateway's core

The repository is OpenClaw, a personal-assistant gateway: one long-running
Node.js process receives chat messages from many channels, gives them to agent
runs, and sends the answers back. Almost everything that can go subtly wrong
happens in the in-process queues and registries between those steps, in the files
that survive a crash, in timers that race answers, and in the restarts the process
performs on itself. This project models that core: which message, command, job or
approval is where, who may touch it, and what an `await`, a reconnect, a restart or
a crash in between does to it.

Paths below are relative to the repository root.

- [The system](#the-system)
- [Modules](#modules)
- [Runs](#runs)
- [Fairness](#fairness)
- [Proofs](#proofs)
- [Disagreements and known behaviours](#disagreements-and-known-behaviours)
- [Not modelled](#not-modelled)
- [Plan](#plan)

## The system

| Component | Source | State | Operations | Hard because |
|---|---|---|---|---|
| Command queue | `src/process/command-queue.ts` | per lane: queue, active task ids, limit, draining flag, generation; global draining flag; waiters | enqueue, clear, set limit, mark draining, reset all lanes, wait for active tasks, pump | a task's synchronous prefix re-enters the queue while `pump` is on the stack; tasks of an old generation finish late |
| Agent run lanes | `src/agents/pi-embedded-runner/{lanes,run,compact.queued}.ts`, `src/gateway/server-lanes.ts` | none of its own | a run is a session command that enqueues a global command and waits for it; a manual cron job wraps both | a slot of one lane is held while waiting for another; refusals and aborts in the middle |
| Gateway run loop | `src/cli/gateway-cli/{run,run-loop}.ts`, `src/gateway/server-close.ts`, `src/infra/restart.ts` | shutting-down flag, lock, server | acquire, start, fail to start, drain, close, release, start again, exit | restart in the same process while old work still runs; a signal during a start |
| Followup queue | `src/auto-reply/reply/queue/*.ts`, `src/utils/queue-helpers.ts` | per session key: items, drop counters, draining flag, settings; recent message ids | enqueue with dedupe and overflow, drain loop (one by one, collected, summary), clear | the drain reads, awaits a run, then mutates; clear replaces the object under a running drain |
| Reply run registry | `src/auto-reply/reply/reply-run-registry.ts` | active reply operations by session | begin, rebind, abort, complete, wait for idle | waiters and rebinding |
| Outbound delivery queue | `src/infra/outbound/{deliver,delivery-queue-storage,delivery-queue-recovery}.ts` | `<id>.json`, `<id>.delivered`, `failed/` on disk; claims in memory | enqueue, ack in two phases, fail (read, then write), move to failed, recover at startup, drain on reconnect | crash between any two file operations; three kinds of senders over the same files; a time budget |
| Heartbeat wake | `src/infra/heartbeat-wake.ts` | handler and generation, pending wakes, timer, running flag | request, timer, batch, retry, register, dispose | timers racing batches; a new lifecycle while a batch of the old one is suspended |
| Heartbeat runner | `src/infra/heartbeat-runner.ts` | per-agent schedule | run once, reschedule | calls back into the wake queue |
| Cron service | `src/cron/service/*.ts` | job store with run markers, timer, lock chain | add, update, remove, run, tick, catch up | markers across crashes; lock chain; reload between read and persist |
| Exec approvals | `src/gateway/exec-approval-manager.ts`, `src/gateway/server-methods/{exec-approval,approval-shared}.ts` | pending approvals with timers | request, resolve, expire, wait for a decision, consume once | timeout against answer, grace deletion, decision while the request is being delivered |
| Node registry | `src/gateway/node-registry.ts` | node sessions by id and by connection, pending invokes | register, unregister, invoke, result | reconnect before the old close is handled; late results |
| Node invoke | `src/gateway/server-methods/nodes.ts`, `src/gateway/node-invoke-system-run-approval.ts` | none of its own | wake the node, wait, check and use the approval, send | what was checked may have changed while the node was awaited |
| Gateway lock | `src/infra/gateway-lock.ts` | lock file, TCP port | acquire, judge stale, remove, release | two processes, stale owners, removal by path |
| Session write lock | `src/agents/session-write-lock.ts` | lock files, held locks, watchdog | acquire, release, reclaim | stale owners, reentrancy |
| Session store | `src/config/sessions/store*.ts` | JSON store, cache, lock queue | update under lock | read-modify-write |
| ACP control plane, task registry, subagents, process supervisor | `src/acp/control-plane`, `src/tasks`, `src/agents/subagent-*.ts`, `src/process/supervisor` | registries of long-running work | lifecycle transitions | callbacks out of order |

How they interact. An inbound message either starts a reply run or, if the
session is busy, enters the **followup queue**, whose drain starts followup runs.
Every run passes through the **command queue** twice (session lane, then global
lane), and a manual cron job three times. The **run loop** closes and reopens the
command queue around an in-process restart. Answers leave through the **outbound
delivery queue**. The **heartbeat wake** queue is how other parts ask for a
heartbeat run, and it retries while the command queue's main lane is busy. The
**reply run registry** says whether a session is busy, and is how a run is aborted or
awaited. The **cron service** starts jobs by its timer, which run outside the command
queue, and by hand, which run in its cron lane. A command on a node goes through
**node invoke**, which composes the **node registry** with the **exec approvals**. All
of it lives in one process per port, which the **gateway lock** and the port see to.

What makes each part correct:

- command queue: no queued command is left beside a free slot; no lane is marked
  as draining without a pump; late completions change nothing;
  every command settles and every waiter returns;
- agent run lanes: one run per session within a lifecycle; no circular wait;
- followup queue: an accepted message is run, or dropped by policy, and never
  vanishes; it is not queued twice; the cap is kept; no queue is left to nobody;
- delivery queue: a persisted message is not lost; recoveries exclude each other;
  what was acknowledged is not sent again; leftovers are retried;
- heartbeat wake: a pending wake has a timer; no reason is lost; stale disposers
  do nothing; a retry timer is a minimum delay;
- gateway lock and run loop: the services of at most one gateway run; no lock file is
  left by an orderly end; leftovers do not block a start; every shutdown ends;
- reply run registry: the maps by key and by id agree with the operations; an operation
  that ends late leaves its successor alone; an abort stops the backend whenever it
  attaches; waiters hear the end;
- node registry and approvals: a connected node is listed; a request has one answer,
  and ok means executed; a decision stands and everybody hears the same one; a one-time
  approval is used once; nothing runs as approved that was not allowed;
- cron service: a job does not run twice at once; the scheduler stays alive; a run marker
  belongs to a run; a one-shot that ran is done; due slots are not skipped silently.

`PROJECT.json` lists the components with their status, and under `hazards` the
places in the code that these properties are aimed at.

## Modules

The program is single threaded. A step of a model is what runs between two
points at which other code can run: between two `await`s, or, where a call
synchronously calls back into the same component, one frame of the call stack.

**`CommandQueue`** models `command-queue.ts`. The variables are the fields of
`LaneState` and `ActiveTaskWaiter`, the promise status of each entry, and `stack`,
the JavaScript call stack. An operation needs an empty stack (a new turn of the
event loop) or a task on top of it (the task's code before its first `await`);
`drainLane`, `pump` and `resetAllLanes` are frames that run step by step, because
between their iterations the started task's synchronous code runs. `PumpStart` is
one iteration of the `while`, `PumpExit` its `finally`, `TaskAwaits` /
`TaskThrows` the two ways a task's synchronous part ends, `TaskSettles` its
continuation. `ResetAllLanes`, `ResetDrainsLane` and `ResetEnds` are the phases of
`resetAllLanes`. Task ids are entry identities; wait-time warnings are left out.

**`AgentRunLanes`** extends `CommandQueue`. An entry is a pair of a run and a stage
(`job`, `session`, `global`). It uses the queue's own actions and adds what the
callers do: `SessionTask` (abort check, then the global command, from inside the
session command), the settle rules that tie a command to the one it waits for,
cron jobs and their timeout, aborts, `Interrupt` (queue mode interrupt and session
cleanup), lane limits from the configuration, and the restart sequence.

**`FollowupQueue`** models one session key. A queue object is a slot in `Objects`,
`current` is the map entry; an object that was cleared may still be draining, and
that is why there is more than one. `drain` is where the drain loop of an object
is: waiting for the debounce, awaiting a run of the head, of a batch or of the
overflow summary, or awaiting the return of a helper that is already done
(`Returning`). The last matters: the cross-channel check (`drain.ts:102`) and the slice
of the batch (`drain.ts:117`) lie on two sides of such an `await`, and messages arrive
there. `Schedule`, `NextRun`, `SliceBatch`, `Consume`, `StepReturns` and `Finally` are the
parts of `scheduleFollowupDrain`; `Enqueue` is `enqueueFollowupRun` with the recheck in
`runReplyAgent` that follows it. The session is busy (`IsRunActive`) through a reply run,
whose end schedules a drain, a followup run, or an embedded run without a reply operation
(`StartEmbedded`, `EndEmbedded`: cron jobs, the agent command), whose end schedules
nothing. Time is left out: a debounce ends, or a message id leaves the dedupe cache, at any
moment. `owed` is a history variable: what was accepted and not yet run, dropped or cleared.

**`DeliveryQueue`** models the write-ahead queue. A file is the retry count it holds
(`json`), with the `.delivered` markers and `failed/`. `live` is where the sending
call of each message is, `worker` where startup recovery and each reconnect drain
are, `fails` the `failDelivery` calls between their read and their write. A crash
resets everything but the files and what was sent. The backoff is a choice for
entries with a retry count: their window may or may not be over. `delivered`, `aborted`,
`acked` and `deferred` (written back by an expired budget) are history variables.

**`HeartbeatWake`** models `heartbeat-wake.ts`. `batch` holds the suspended timer
callbacks, of which there may be two once a new handler was registered while one
of the old lifecycle was awaiting. Time is abstracted to the delay a timer was set
with: a later `schedule` call with a smaller delay may or may not be sooner, one
with the same or a larger delay never is. The handler's answers are the actions
`Answer`, `Busy` and `Throw`. `owed` and `cooling` are history variables.

**`GatewayLock`** models processes of one host that contend for the lock file and the
port. In a process two flows interleave: `main`, the loop of `runGatewayLoop`, and `req`,
the handler of a stop or restart signal; `acq` is where `acquireGatewayLock` is in
whichever of them called it. The lock file is who made it and whether its payload was
written; a write goes through the handle, so it may hit a file that is no longer at the
path, and every removal is by path. `Judge` is `resolveGatewayOwnerStatus` with the port
probe, `StartFailed` the `catch` of the loop, `CloseServices` and `ClosePort` the two
halves of the close handler, `NothingClosed` a close that throws. `died` records who
ended without cleaning up.

**`GatewaySingleton`** is the abstract specification: the set of gateways whose services
run, of which there is at most one, and a new one only after the old one has ceased.
`GatewayLock` refines it with `running <- services`.

**`ReplyRuns`** models `reply-run-registry.ts`. The variables are the five maps, and for
each operation its id, phase, result, abort signal and backend. `code` is the flow that
created the operation and calls `complete` in its `finally`, long after an abort may have
removed the operation from the maps. Every call is synchronous and one action.

**`NodeRegistry`** models connections, the two maps and the pending invokes, with the
network between: a dropped connection loses what was on its way, and the gateway handles
its close at any later time. **`ExecApprovals`** models the approval records, the
handlers that request and await a decision, and the checks of
`sanitizeSystemRunParamsForForwarding`. Time is before, at or after `expiresAtMs` for each
record, because the code compares with `>` in one place and sets a timer in another.
**`NodeInvoke`** extends both and adds the `node.invoke` handler; approval and send happen
in one step because the code has no `await` between them. A request that claims an approval
is forwarded under its verdict (`InvokeForwards`); one that claims none is forwarded with the
approval flags stripped (`InvokeStripped`), and the node's own policy decides on it. A node
that does not come back is nudged before the caller hears so (`WakeFails`, `NotConnected`).
`forwarded` and `lateClose` are history variables.

**`CronService`** models `src/cron/service`. A section under `locked` is one action;
between sections jobs run. `mem` and `disk` are the store twice, because `persist` may
fail and ticks reload. `Start`, `Plan`, `ApplyCatchup`, `ArmFirst` are the sections of a
start; `Tick`, `StartRun`, `EndRun`, `FinishTick` those of `onTimer`, and `RecheckLater` is
its early return while a tick is under way. A tick runs up to `MaxConcurrentRuns` jobs at
once, the catch-up one. A run may last any number of slots, also longer than `Stuck`.
`Preflight`, `Reserve`, `FinishManual` are the sections of a manual run. `NextRun`, `Normalized`, `Maintained`,
`RecomputeNextRuns` and `ApplyJobResult` are the functions of the same names in `jobs.ts`
and `timer.ts` on the state of a job. Time is counted in slots of the recurring schedule,
so anchors of `every` jobs, the refire gap and the sizes of backoff steps are below its
resolution. `released` (jobs that were disabled, run by hand while disabled, or whose marker
was cleared as stuck) and `putOff` (jobs the catch-up gave a later slot) are history
variables for the exceptions of the properties.

`MC…` modules instantiate constants and symmetry sets, and three of them choose among the
initial states (`OneCrossInit`, `TwoMessagesInit`, `EitherKindInit`). `…Proofs` modules hold
the theorems. Definitions named `Mut_…` are deliberately wrong variants of the
definition that follows them, one for each checked property: replacing the
definition by the variant must make the property fail.

## Runs

| Run | Configuration | Properties |
|---|---|---|
| `command_queue` | `MCCommandQueue.cfg` | `LanesConsistent`, `WorkConserving`, `WaitersAccurate`, `EveryCommandSettles`, `EveryWaiterReturns` |
| `agent_run_lanes` | `MCAgentRunLanes.cfg` | `SessionExclusive`, `SomeRunGoesOn`, `RunsQuiesce` |
| `followup_queue` | `MCFollowupQueue.cfg` | `QueuesWellFormed`, `RemovedOnlyIfHandled`, `CapRespected`, `LeftOnlyByEmbeddedRun`, `EveryMessageHandled` |
| `delivery_queue` | `MCDeliveryQueue.cfg` | `NoLostDelivery`, `ClaimsExact`, `NoReplayAfterAck`, `LeftoversRetried` |
| `heartbeat_wake` | `MCHeartbeatWake.cfg` | `RegistrationsConsistent`, `WakesKept`, `BatchesDoNotOverlap`, `EveryWakeAnswered`, `CooldownKept` |
| `gateway_lock` | `MCGatewayLock.cfg` | `NoLeftoverLock`, `OneGateway` (refinement), `LoneStarterGetsLock`, `ShutdownEnds` |
| `node_invoke` | `MCNodeInvoke.cfg` | `RegistryConsistent`, `ApprovalsConsistent`, `OnceMeansOnce`, `ApprovedOnlyIfAllowed`, `AnsweredOnce`, `InvokesReturn` |
| `reply_runs` | `MCReplyRuns.cfg` | `RegistryConsistent`, `BackendsStop`, `WaitersServed` |
| `cron_service` | `MCCronService.cfg` | `SchedulerHealthy`, `NoConcurrentRun`, `OneShotOnce`, `DueSlotsKept` |

Some invariants are conjunctions of named parts, each with a comment of its own. The type
invariant is one of the parts where there is no proof of it; `TypeOK` of `CommandQueue`,
`DeliveryQueue` and `GatewayLock` is a theorem.

| Invariant | Parts |
|---|---|
| `LanesConsistent` | `TypeOK`, `QueuesHoldPending`, `ActiveAreRunning` |
| `QueuesWellFormed` | `TypeOK`, `NoDuplicateQueued` |
| `RegistrationsConsistent` | `TypeOK`, `RegistrationHeld` |
| `WakesKept` | `NoSleepingWake`, `NoLostWake` |
| `RegistryConsistent` (`NodeRegistry`) | `RegistryTypeOK`, `ConnectedIsListed`, `OkMeansExecuted` |
| `ApprovalsConsistent` | `ApprovalsTypeOK`, `AnswersAgree` |
| `RegistryConsistent` (`ReplyRuns`) | `TypeOK`, `RegistryExact`, `LookupsExact` |
| `BackendsStop` | `OneBackendPerKey`, `AbortStopsBackend` |
| `WaitersServed` | `OldIdsFindTheRun`, `WaitersHearTheEnd` |
| `SchedulerHealthy` | `TypeOK`, `SchedulerAlive`, `MarkersOwned` |

Three runs expect a violation: `followup_in_flight` (`NoSilentLoss`), `followup_routes`
(`BatchesShareRoute`) and `cron_start` (`SlotsOutliveCatchup`); see below.

Bounds, and why they are enough to meet the cases:

- *Command queue*: two lanes, two commands, limits up to 2, one restart, one waiter.
  Two commands let one be started from inside the other's synchronous part, wait
  behind it, or outlive a restart beside it; one restart gives two generations,
  which is all that the code compares. (One lane with three commands passes too.)
- *Agent runs*: two runs in one session, with or without a cron job around them,
  limit 1 in every lane, where circular waits are most likely, one restart. The main
  and the nested lane still give the two runs a slot each at the same time.
- *Followup queue*: three messages, mode `followup` with cap 1 and mode `collect` with cap 2
  in turn, overflow that drops and owes a summary, one clear. One message has a route that
  cannot be compared (`OneCrossInit`), so collect mode works both in batches and one by one.
  One queue object, so a new queue begins only after the drain of a cleared one ended.
  `MaxDropped` bounds how many dropped messages may be owed a summary.
- *Delivery queue*: a leftover and a message sent live, or a single `bestEffort` message sent
  live (`TwoMessagesInit`), the startup recovery and one drain, a retry limit of 2 for the
  code's 5 (below, at and above the limit occur), one crash. The recovery budget may expire.
- *Heartbeat*: two targets, four priorities, delays below and at the coalescing
  delay, two requests, two lifecycles. The two suspended batches of `Slots` are as many
  as two lifecycles can have.
- *Gateway lock*: two processes that start, one of them supervised, and one that died
  before, perhaps leaving a lock file with or without payload; one kill and two signals.
  Two starters are enough for theft, two signals for a restart after a failed restart or
  a stop after a restart.
- *Node invoke*: one node on two connections, which is what a reconnect needs, two
  requests that claim one approval, one of them on a connection with the approver scopes, or
  one request that claims none (`EitherKindInit`).
- *Reply runs*: three operations, so that a successor has a successor, two session keys,
  one of which has two session ids, one waiter.
- *Cron service*: a recurring job and a one-shot that is not yet stored, three slots, two
  runs of a tick at once, markers that count as stuck after one slot, and two events: requests that change jobs, failed writes and crashes together. Two events
  are a manual run and a crash, a failed write and an edit, a disable and an enable.
  `MaxMissed = 1` makes the catch-up defer a job, `MaxAttempts = 1` exhausts retries. At most
  one run by hand is under way at a time. `cron_start` has two recurring jobs.

Symmetry is used only in safety runs, over sets the specification treats
uniformly. `CHECK_DEADLOCK FALSE` appears throughout because bounded numbers of
requests, restarts and crashes run out and a quiescent queue really does stop.

`BatchesDoNotOverlap` and `EveryWakeAnswered` speak of the time before a second
handler is registered: after that a suspended batch of the old lifecycle clears
`running` in its `finally`, and the new lifecycle's batches may overlap. The code's
comment on `setHeartbeatWakeHandler` accepts stale batches, so this is listed as a
hazard and not as a disagreement. `SessionExclusive` likewise names the one exception
the code makes to the rule of `docs/concepts/queue.md` that one run at a time touches
a session: a run that worked through a restart whose drain timed out.

## Fairness

- `CommandQueue`: weak fairness of the code on the stack (it runs to completion) and
  strong fairness of a task's settling: promise reactions are served in turn, so one
  that becomes due again and again, while other turns come in between, is served.
  That a task settles at all is its caller's obligation. Timeouts are not assumed.
- `AgentRunLanes`: the same for the stages of runs and jobs. No abort, timeout or
  restart is assumed.
- `FollowupQueue`: debounce timers fire and the reply run ends (weak); a followup run
  that is tried again and again completes some time (strong). Without the last the
  code retries a failing run for ever, by design. Embedded runs need not end:
  `EveryMessageHandled` is about queues that are being drained or will be when the reply
  run ends.
- `DeliveryQueue`: started recoveries, file operations and sends return, and a started
  gateway starts its recovery (weak). Sends may fail each time.
- `HeartbeatWake`: timers fire and the gateway registers its handler (weak); a wake that
  is handed over again and again is answered some time (strong), that is, the main
  lane is not busy for ever.
- `GatewayLock`: both flows of a living process go on and a file gets older (weak); the
  loop head of `acquireGatewayLock`, reached again and again, meets its deadline (strong),
  since the code compares with the clock on every round. Kills, signals, forced exits and
  failures are not assumed.
- `NodeInvoke`: the timer of a pending invoke fires, and a handler that waits for a node
  goes on when its wait is over or the node is back (weak). Results, decisions and
  reconnects are not assumed.

`ReplyRuns` and `CronService` are checked for safety only: what `ReplyRuns` waits for is
the agent, and `SchedulerAlive`, a part of `SchedulerHealthy`, states the part of the cron service's liveness that does
not depend on the bound on time.

## Proofs

TLAPS proves the following for every value of the constants. The constants'
assumptions are the `ASSUME`s of the modules: finite sets, positive limits, and
disjoint names.

`CommandQueueProofs`

- `TypeCorrect`: `Spec => []TypeOK`.
- `LanesWorkConserving`: `Spec => []WorkConserving`.
- `FlagHasPump`: `Spec => []DrainingHasPump`: a lane marked as draining has a pump on the
  stack, which will lower the mark.

  `WorkConserving` speaks of an empty stack only and is not inductive. The invariant
  is `CoverInv == TypeOK /\ DrainingHasPump /\ RunnableCovered`: a lane with a free
  slot and a queued command has a frame on the stack that will pump it (a `drain`, a
  `pump`, or the `reset` that still has the lane to drain). An enqueue pushes such a
  frame; a pump leaves only when its lane is no longer runnable; a `drain` that finds
  the flag raised may return because `DrainingHasPump` gives it the outer pump. That
  is exactly the argument for the re-entrancy of `drainLane`. Lemmas about pushing on
  and popping from a sequence, seen as the set of its elements, carry it.

- `LanesStayConsistent`: `Spec => []LanesConsistent`. It needs two facts about the stack:
  `TasksOnStackRun` (a task frame is of a command that is running, and there is one frame
  per command) and `GenerationsPast` (no task is of a generation to come, so a restart
  makes every running task late).
- `WaitersStayAccurate`: `Spec => []WaitersAccurate`, from the invariant above and
  `WaitedForStarted`: what a waiter waits for was started, so a command still queued is
  never in its set, and `pump` cannot revive one.

The module extends `AgentRunLanes`, so that the same queue can be spoken of with its
callers; the results above cite no assumption of `AgentRunLanes`.

- `AgentRunsUseQueue`: `RunSpec => Spec`. Agent runs, cron jobs, aborts and restarts change
  the lanes only through the queue's operations: each step of theirs is a step of
  `CommandQueue` or a stutter. Every theorem about the queue therefore holds of them.
- `SessionsAreExclusive`: `RunSpec => []SessionExclusive`.
- `RunsDoNotDeadlock`: `RunSpec => []SomeRunGoesOn`, the absence of circular waits. It is the
  safety content of `RunsQuiesce`, which TLC checks under fairness.

  The invariant `RunInv` adds to the queue's invariants how the three commands of a run
  relate: `LanesApart` (jobs, session commands and global commands never share a lane, which
  is why `resolveGlobalLane` turns `cron` into `nested`), `SessionsSerial` (a session lane has
  one slot, whatever limits are configured), `GlobalsNested` (a global command is pending
  only while its session command runs) and `SessionsPassOn` (a session command that gave up
  the stack has submitted its global command). Two working runs of one session would be two
  running session commands of one lane, of which one slot holds at most one of the current
  generation. Waits go in one direction, from jobs to session commands to global commands:
  a queued command has a running one before it in its lane, by `WorkConserving`
  (`QueuedBehindRunning`); a running job or session command that cannot settle waits for a
  command of the next kind; and running global commands wait for nothing. Session lanes
  are assumed to differ from the global ones, as the prefix `session:` of
  `resolveSessionLane` makes them.

`DeliveryQueueProofs`

- `TypeCorrect`: `Spec => []TypeOK`; a worker's list is nonempty exactly while it runs.
- `ClaimsAreExact`: `Spec => []ClaimsExact`. The strengthening is `StartupOnce`: a
  process that has not started its recovery has an idle startup worker, so starting
  it cannot overwrite a claim. Most steps are covered by one lemma: a step that
  keeps every worker's list and whether it is recovering keeps the claims exact.
- `NothingIsLost`: `Spec => []NoLostDelivery`. The strengthening is `AckJustified`: whoever
  is about to acknowledge an entry that is not `bestEffort` has sent it or its sender
  aborted it. `NoLostDelivery` leaves `bestEffort` entries out: of them it is false, and
  the code does not promise it.
- `NothingIsReplayed`: `Spec => NoReplayAfterAck`: no worker sends an entry that an earlier
  process left behind after it was acknowledged, whatever live sends go on, unless an expired
  budget wrote it back.

  A worker holds a list that may be stale, so what protects an acknowledged entry is that it
  has no file when the worker re-reads it after its claim. The invariant is `AckedGone` (an
  acknowledged leftover that was not deferred has no file and nobody is about to write one
  back), and it needs `FailsOwned` (a `failDelivery` under way belongs to the worker that
  holds the claim, so it cannot overlap another worker's acknowledgement) and
  `LeftoversNotLive`. Both exceptions are needed: a budget that expires calls `failDelivery`
  without a claim, and a live send has none either (see *Delivery queue* below); TLC finds a
  counterexample without each.

`GatewayLockProofs`

- `TypeCorrect`: `Spec => []TypeOK`.
- `LockCleanedUp`: `Spec => []NoLeftoverLock`.
- `ImplementsSingleton`: `Spec => OneGateway`, that is, `GatewayLock` implements
  `GatewaySingleton` for any number of processes, kills and signals.

  The invariant is `IInv == TypeOK /\ FlowsAgree /\ PortOwned /\ FileOwned`. `FlowsAgree`
  says which combinations of the two flows of a process there are (a process that is gone
  has neither; the signal handler acquires the lock only while the loop is not). `PortOwned`
  is why two gateways never serve at once: services run only in the process that has the
  port, and the port is given back after them. The lock file plays no part in it, since it
  can be stolen; it only spares a second starter the failed bind. `FileOwned` says that a
  file belongs to a process that holds the lock, is about to write it, or died. With
  `PortOwned` every step that starts services finds none running, and every step that
  stops them stops the only ones, which is the step simulation.

`FollowupQueueProofs`

- `QueuesStayWellFormed`: `Spec => []QueuesWellFormed`.
- `CapIsRespected`: `Spec => CapRespected`, an action property.
- `NothingJustDisappears`: `Spec => RemovedOnlyIfHandled`, an action property, for every
  setting.
- `OnlyEmbeddedRunsStrand`: `Spec => LeftOnlyByEmbeddedRun`, an action property, for every
  setting. It is what `EveryMessageHandled` rests on before fairness comes in: no order of
  enqueues, failures, clears and ends of reply runs leaves messages that nobody will look at.
- `NothingIsLost`: `NeverDrops => (Spec => []NoSilentLoss)`.

  The first four follow from `IInv`, in which every queue object is well formed by itself:
  the helpers of the queue (`DropOld`, `DropFirst`, `Consume`, the push, the settings) each
  have a lemma saying what they do to one object, `Schedule` and `Finally` one saying that
  they only move drains, and each action is a replacement of one object followed by such a
  rearrangement. `NeverDrops` (overflow refuses new messages, nothing is cleared) is needed
  for the last: without it the property is false (`followup_in_flight`). Its invariant is
  `InFlightFirst`: what the run under way was given is still
  at the head of its queue when it completes, so `shift` and `splice` remove
  what was run; and only the object in the map is used, so the `finally` of a drain never
  deletes the entry of another object.

`HeartbeatWakeProofs`

- `RegistrationsAreConsistent`, `WakesAreKept`, `NoOverlap`, `CooldownIsKept`:
  `Spec => []RegistrationsConsistent`, `Spec => []WakesKept`,
  `Spec => []BatchesDoNotOverlap`, `Spec => CooldownKept`.

  The invariant adds `GenerationCounted` (generations count registrations and disposals,
  which is why they stay within their type), `RegisteredInOrder`, `RunningTells` (before a
  second registration the `running` flag is raised while a batch is suspended, so no timer
  starts another) and `CoolingHasTimer` (a wake in its cooldown has a retry timer, which
  `schedule` keeps).

`ReplyRunsProofs`

- `RegistryIsConsistent`, `AbortedWorkStops`, `WaitersAreServed`:
  `Spec => []RegistryConsistent`, `Spec => []BackendsStop`, `Spec => []WaitersServed`.

  The invariant pairs the maps with the operations: `KeysExact` (a key maps to an operation
  exactly while the operation has not been cleared), `LookupsExact` for session ids,
  `WaitKeysExact` for the ids an operation has had, `OperationsAgree` and `LiveBackends`
  for the operation's own fields. With them, `clearReplyRunState` of an operation that ends
  late finds its key in the hands of the successor and leaves it alone. Session keys are
  assumed to differ from the words that mark the state of a waiter (`KeysAssumption`), since
  a waiter is either a key or such a word.

`NodeInvokeProofs`

- `RegistryIsConsistent`, `ApprovalsAreConsistent`, `OnceOnly`, `OnlyAllowedRuns`, `OneAnswer`:
  `Spec => []RegistryConsistent`, `Spec => []ApprovalsConsistent`, `Spec => []OnceMeansOnce`,
  `Spec => []ApprovedOnlyIfAllowed`, `Spec => AnsweredOnce`, where `Spec` is the composition.

  `PendingUnanswered` (a pending invoke has no answer yet) gives `OneAnswer`. `RecordsAgree`
  ties the record of an approval to the verdict its promise was resolved with, from which
  all that are told a decision are told the same one. `OnceIsUsedUp` (an approval that let
  a request through no longer says `allow-once`) is what makes `OnceMeansOnce` inductive;
  `ForwardedAllowed` and `SentWasForwarded` follow a request from the decision to the node,
  and say that a request without a decision is one that claimed none.

`CronServiceProofs`

- `SchedulerStaysHealthy`, `NoJobRunsTwiceAtOnce`, `OneShotsRunOnce`: `Spec => []SchedulerHealthy`,
  `Spec => []NoConcurrentRun`, `Spec => []OneShotOnce`.
- `DueSlotsStay`: `Spec => DueSlotsKept`, an action property.

  The invariant has three parts. `ControlInv` says which of a tick, a catch-up and a run by
  hand are under way and what they work on. `RunsInv` says that an unreleased job has one
  claim: one run, or a place in one list of jobs to run. `StoresInv` is about the two
  stores: each record is `Sane` (the next run of an enabled job is after its last one, or is
  the time of a one-shot that is not done); while writes succeed memory and disk agree on
  the schedule and a marker belongs to a claim; and `ClaimsGuarded`: a claimed job that is
  present carries a marker in *both* stores, whatever was reloaded, merged or failed to be
  written. That is why a tick, which looks at the disk, and a run by hand, which looks at
  memory, cannot take the same job.

  Nothing is assumed of how long a run lasts. Maintenance clears markers older than
  `STUCK_RUN_MS` whether or not their runs go on; a job to which that happens is `released`
  from then on, like one that was disabled (lemma `StuckFreed`), and for all others every
  store that maintenance writes keeps its markers (`GuardKept`, `GuardLess`).

  Most actions write one new store, which `persist` puts in memory and, unless it fails, on
  disk; the lemmas `WriteStep`, `FewerStep`, `MarkStep` and `EndBatch` say what such a
  step has to show, and lemmas about one record and one store say what `Normalized`,
  `Recomputed`, `Maintained`, `ApplyOutcomes` and `Patched` do. Both exceptions of
  `OneShotOnce` are needed: a one-shot that the catch-up put off keeps its new slot although
  it ran by hand meanwhile, and a job that was disabled has no marker, so it may be run by
  hand, with success, while a tick still runs it.

Every invariant and every action property of the passing runs is stated by a theorem. Only
model-checked: liveness and everything under fairness, which are beyond the prover.
`NoSilentLoss` is proved under `NeverDrops`; without it it is false. `BatchesShareRoute` and
`SlotsOutliveCatchup` are false. Of `EveryMessageHandled` and `RunsQuiesce` the safety part is
proved (`LeftOnlyByEmbeddedRun`, `SomeRunGoesOn`).

## Disagreements and known behaviours

Three runs check what a document or a comment says and find a behaviour of the code that
contradicts it (the quotes are under `findings` in `PROJECT.json`).

- `followup_in_flight`, against `docs/concepts/queue.md` on mode `followup`: an overflow drops
  the head while it is being run; the `shift` after the run then removes the next message,
  which nobody ran.
- `followup_routes`, against the same document on mode `collect`: a message for another
  destination that arrives between the cross-channel check (`drain.ts:102`) and the slice
  (`drain.ts:117`) becomes part of a batch of one route. The window is the return of an
  `async` helper that had nothing to do (`drain.ts:104`), a few microtasks.
- `cron_start`, against the comment at `src/cron/service/timer.ts:1084`: slots that became
  due during the catch-up survive the section the comment stands in, and the next section of
  `start` (`ops.ts:142`) moves them on.

The models contain more behaviours that a reader should know of, for which no run is
kept. Each follows from the actions named.

- *Followup queue, clear.* The drain of a cleared queue object ends and deletes the map
  entry of its successor with the messages in it (`Finally`, with two `Objects`).
- *Followup queue, embedded runs.* A message that arrives while an embedded run without a
  reply operation is active is enqueued without a drain, and the recheck in `runReplyAgent`,
  meant so that the followup queue is not left idle (`agent-runner.ts:255`), finds the
  session still active. The end of that run schedules nothing: the message waits until
  another message or reply run of the session comes (`EndEmbedded`, the exception in
  `LeftOnlyByEmbeddedRun`).
- *Followup queue, summary.* In followup mode the turn that delivers the overflow summary
  also shifts the head of the queue, whose own prompt was not run; with cap 1, dropping
  the running head and shifting its successor leaves no item and a summary owed, and the
  drain then schedules itself without end.
- *Delivery queue, budget.* `deferRemainingEntriesForBudget` fails entries it has not
  claimed; `failDelivery` may write back an entry that a drain acknowledged between its
  read and its write (`FailRead`, `FailWrite`, and `deferred` in `NoReplayAfterAck`).
- *Delivery queue, live path.* The live send does not claim its entry, so a reconnect drain
  that scans meanwhile sends it a second time: delivery is at least once. Moreover the
  `failDelivery` of one of the two may write back the entry that the other acknowledged,
  and a later recovery sends it again (`NoReplayAfterAck` is therefore about leftovers).
- *Delivery queue, bestEffort.* Recovery replays a `bestEffort` entry without `onError`, so a
  failed payload goes unnoticed and the entry is acknowledged (`DeliverReturns`).
- *Heartbeat cooldown.* A request made while the handler is busy leaves a normal timer that
  is sooner than the retry; `schedule` keeps it, so the wake is tried again at once
  (`Cool`). `CooldownKept` is about retry timers that were set.
- *Heartbeat, stopped runner.* A runner that was stopped answers the rest of a batch with
  `skipped`, which ends those wakes although the next runner could have served them.
- *Draining.* While the gateway drains, lanes go on starting queued session commands; the
  command enqueues its global command, which is refused. Such a run is rejected although
  `resetAllLanes` preserves entries that are still queued when it is called.
- *Gateway lock.* `docs/gateway/gateway-lock.md` describes the port as the lock; the code
  has a lock file as well. An owner that does not listen yet counts as dead, so the file
  may be taken from a process that is starting, and a process whose restart failed starts
  again without one. `OneGateway` holds all the same, because of the port.
- *Node registry.* The close of an old connection unlists the node although it is already
  connected again, and rejects its requests (`Unregister`, `lateClose`).
- *Node invoke, no approval.* A `system.run` that claims no approval is forwarded without any
  decision (`node-invoke-system-run-approval.ts:106`); whether it runs is up to the node's
  policy. `ApprovedOnlyIfAllowed` is about what runs *as approved*.
- *Node invoke, nudge.* The caller may be told `NOT_CONNECTED` although the node came back
  while its user was being notified (`NotConnected`).
- *Approvals.* A client whose request found nobody to ask is told `null` even if an approver
  who connected meanwhile has decided (`Delivered`). The fallback for timed-out approvals
  is reachable only in the millisecond of `expiresAtMs` (`Bound`, `TimedOut`).
- *Cron, interrupted one-shots.* The comment at `src/cron/service/ops.ts:120` says that
  one-shots are not retried after an interruption. The catch-up indeed skips them, but
  `recomputeNextRuns` leaves their time in the past as the next run, and the first tick
  runs them (`ArmFirst`, `Tick`).
- *Cron, skipped slots.* Like the last section of `start`, `add` of any job recomputes every
  due slot, and a due job then waits for its next one (the exceptions in `DueSlotsKept`).
- *Cron, failed writes.* A failed write in the second section of a tick leaves the marker on
  disk until it is stuck; a failed write during `start` leaves the service without a timer.
- *Cron, stuck markers.* A marker older than `STUCK_RUN_MS` is cleared whether or not its job
  still runs, and the jobs of a tick carry the marker of its first section on disk. With
  `STUCK_RUN_MS` two hours and a default of one hour for an agent turn, three long turns that
  are due at once can exceed it, and a job with `timeoutSeconds` of 0 or less, which has no
  timeout at all (`timeout-policy.ts:24`), can by itself. Such a job may then be run a second
  time next to itself, a one-shot too (`released`, an exception in `NoConcurrentRun` and
  `OneShotOnce`).
- *Cron, disabling a running job* clears its marker; enabled again, it may run twice at once
  (`released`).

## Not modelled

- `refreshQueuedFollowupSession` rewrites session fields of queued runs in place; it
  moves no message.
- File-system errors other than a missing file, in the delivery queue; the migration
  of old queue files.
- A second startup recovery in the same process after an in-process restart.
- What an agent run does inside its global command, what channels do to send, prompts
  and formatting: they are single steps with a nondeterministic outcome.
- The channel extensions, the mobile and desktop apps, the web UI, the enterprise
  admin backend, configuration, secrets and the plugin SDK: adapters, parsing and
  storage without a protocol between concurrent actors of their own.
- A cron service that a configuration reload builds while the stopped one still runs
  jobs; schedules that cannot be computed; alerts, delivery and the session reaper.
- A second run by hand while one is under way.
- A cron service that a hot reload put in the place of the first
  (`src/gateway/server.impl.ts:774`): the close handler captured the old one
  (`server.impl.ts:799`), so `CloseServices` stands for the services it knows.
- Windows and macOS variants of the owner check of the gateway lock.
- Approval ids chosen by the client, one of which may be in use and is then refused
  (`exec-approval.ts:217`); approvals of plugins, lookup of approvals by prefix, the other commands of
  `node.invoke`, and node pairing.
- The components marked as planned below.

## Plan

Done: `CommandQueue`, `AgentRunLanes`, `FollowupQueue`, `DeliveryQueue`, `HeartbeatWake`,
`GatewayLock` with its abstract specification, `NodeRegistry`, `ExecApprovals` and their
composition `NodeInvoke`, `ReplyRuns`, `CronService`; proofs for all of them.

Next, in this order:

1. `ReplyRuns` in place of `mainActive` in `FollowupQueue`;
2. an abstract specification of the delivery queue, a set of messages that are owed, sent
   or given up, refined by `DeliveryQueue`;
3. a second service in `CronService`;
4. `SessionWriteLock`, `RestartScheduling` composed with the run loop, the subagent announce
   queue, which shares `queue-helpers.ts` with the followup queue, and the actor queue of
   the ACP control plane.
