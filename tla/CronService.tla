----------------------------- MODULE CronService ----------------------------
(***************************************************************************)
(* The cron service, src/cron/service/{ops,timer,jobs,locked,store}.ts:     *)
(* one timer, a store of jobs in memory and on disk, runs by the timer, by  *)
(* the catch-up after a start and by hand.  A section under `locked' is one *)
(* step (the lock is shared by every service on the store path); a job is   *)
(* executed outside it.                                                     *)
(*                                                                          *)
(* One service at a time uses the store: it starts, and starts again after  *)
(* a crash.  (A reload or an in-process restart that builds a service while *)
(* the stopped one still runs jobs is not modelled.)  At most one run by    *)
(* hand is under way at a time.                                             *)
(*                                                                          *)
(* Time is counted in slots of the recurring schedule, which fire at the    *)
(* beginning of a slot, so the next run computed in slot t is t + 1; the    *)
(* refire gap and the stagger are less than a slot or one slot.  Backoff is *)
(* one delay.  Numbers of errors above MaxAttempts are not told apart.      *)
(* Schedules that cannot be computed, alerts, delivery, the task ledger and *)
(* the session reaper are left out.                                         *)
(***************************************************************************)
EXTENDS Naturals, FiniteSets

CONSTANTS Jobs,
          OneShots,       \* jobs with an "at" schedule; the others recur
          CronJobs,       \* recurring jobs with a cron expression, not "every"
          At,             \* the time of a one-shot
          Stored,         \* jobs in the store when the first service starts
          MaxMissed,      \* maxMissedJobsPerRestart
          MaxAttempts,    \* retries of a one-shot
          Backoff,        \* errorBackoffMs
          MaxConcurrentRuns, \* maxConcurrentRuns of a tick
          Stuck,          \* STUCK_RUN_MS; a run may last longer than that
          MaxTime,        \* bound: slots
          MaxEvents       \* bound: requests that change jobs, failed writes of
                          \* the store and crashes, together

ASSUME JobsAssumption ==
  /\ IsFiniteSet(Jobs)
  /\ OneShots \subseteq Jobs /\ CronJobs \subseteq Jobs \ OneShots
  /\ Stored \subseteq Jobs
  /\ At \in [OneShots -> Nat \ {0}]
ASSUME NumbersAssumption ==
  /\ {MaxMissed, MaxAttempts, MaxEvents} \subseteq Nat
  /\ {Backoff, MaxConcurrentRuns, Stuck, MaxTime} \subseteq Nat \ {0}

VARIABLES clock,
          disk,        \* the store on disk
          phase,       \* where the start is
          mem,         \* the store in memory
          timer,       \* whether the timer is armed
          ticking,     \* the running flag
          todo,        \* jobs a start or a tick has marked and will run
          deferred,    \* jobs the catch-up leaves for later
          interrupted, \* one-shots whose marker the start cleared
          reloaded,    \* whether the store was reloaded during the tick
          manual,      \* the run by hand
          runs,        \* executions: under way, or ended and not yet applied
          fresh,       \* ids of jobs not yet added
          released,    \* jobs that were disabled, run by hand while disabled,
                       \* or whose marker was cleared as stuck
          putOff,      \* jobs the catch-up has given a later slot
          requests, failures, crashes

service == <<phase, mem, timer, ticking, todo, deferred, interrupted,
             reloaded, manual>>
history == <<released, putOff>>
vars == <<clock, disk, service, runs, fresh, history, requests, failures, crashes>>

By == {"startup", "tick"}
Absent == [enabled |-> FALSE, lastStatus |-> "absent"]
Outcomes == {"ok", "skipped", "transient", "permanent"}
NoManual == [step |-> "idle"]

JobStates == [enabled : BOOLEAN, deleteAfterRun : BOOLEAN, next : Nat, running : Nat, lastRun : Nat,
              lastStatus : {"none", "ok", "skipped", "error"}, errors : 0..(MaxAttempts + 1)]
Stores == [Jobs -> JobStates \cup {Absent}]

Recurs(j) == j \notin OneShots
Present(store, j) == store[j] # Absent

MayHappen == requests + failures + crashes < MaxEvents

-----------------------------------------------------------------------------
(* jobs.ts: pure functions on the state of one job.  0 is undefined. *)

Mut_AlwaysAt(j, r, now) ==
  IF ~r.enabled THEN 0 ELSE IF Recurs(j) THEN now + 1 ELSE At[j]

(* computeJobNextRunAtMs *)
NextRun(j, r, now) ==
  IF ~r.enabled THEN 0
  ELSE IF Recurs(j) THEN now + 1
  ELSE IF r.lastStatus = "ok" /\ At[j] <= r.lastRun THEN 0 ELSE At[j]

Due(r, now) == r.enabled /\ r.next # 0 /\ r.next <= now

(* normalizeJobTickState *)
Normalized(r) ==
  IF ~r.enabled THEN [r EXCEPT !.next = 0, !.running = 0]
  ELSE IF r.running # 0 /\ clock > r.running + Stuck THEN [r EXCEPT !.running = 0]
  ELSE r

(* The jobs whose marker that clears although they are enabled. *)
StuckIn(store) ==
  {j \in Jobs : /\ Present(store, j) /\ store[j].enabled
                /\ store[j].running # 0 /\ clock > store[j].running + Stuck}

Recomputed(j, r) == [r EXCEPT !.next = NextRun(j, r, clock)]

(* recomputeNextRuns *)
RecomputeNextRuns(store) ==
  [j \in Jobs |->
     IF ~Present(store, j) THEN Absent
     ELSE LET r == Normalized(store[j]) IN
            IF r.enabled /\ r.next <= clock THEN Recomputed(j, r) ELSE r]

Mut_AdvanceExpired(j, r) == r.next <= clock /\ r.running = 0

(* An expired slot whose job has run since. *)
SlotExecuted(j, r) ==
  r.next <= clock /\ r.running = 0 /\ r.lastRun >= r.next

(* recomputeNextRunsForMaintenance *)
Maintained(store, recomputeExpired) ==
  [j \in Jobs |->
     IF ~Present(store, j) THEN Absent
     ELSE LET r == Normalized(store[j]) IN
            IF r.enabled /\ (r.next = 0 \/ (recomputeExpired /\ SlotExecuted(j, r)))
            THEN Recomputed(j, r) ELSE r]

(* applyJobResult, up to the deletion. *)
ApplyJobResult(j, r, run) ==
  LET failed == run.status \in {"transient", "permanent"}
      errs == IF failed THEN (IF r.errors > MaxAttempts THEN r.errors ELSE r.errors + 1) ELSE 0
      s == [r EXCEPT !.running = 0, !.lastRun = run.startedAt, !.errors = errs,
                     !.lastStatus = IF failed THEN "error" ELSE run.status]
      off == [s EXCEPT !.enabled = FALSE, !.next = 0]
      delay == run.endedAt + (IF failed THEN Backoff ELSE 1)
  IN IF Recurs(j) THEN [s EXCEPT !.next = IF s.enabled THEN delay ELSE 0]
     ELSE IF run.status = "transient" /\ errs <= MaxAttempts
          THEN [s EXCEPT !.next = run.endedAt + Backoff]
     ELSE off

(* applyOutcomeToStoredJob: the result of a job that is gone is discarded. *)
ApplyOutcome(store, run) ==
  LET j == run.job IN
  IF ~Present(store, j) THEN store
  ELSE IF store[j].deleteAfterRun /\ run.status = "ok" THEN [store EXCEPT ![j] = Absent]
  ELSE [store EXCEPT ![j] = ApplyJobResult(j, @, run)]

(* The results of one batch are of different jobs, so their order is free. *)
ApplyOutcomes(store, results) ==
  [j \in Jobs |->
     IF \E r \in results : r.job = j
     THEN ApplyOutcome(store, CHOOSE r \in results : r.job = j)[j] ELSE store[j]]

(* The marker a timer tick or a catch-up sets before it runs jobs. *)
Marked(store, js) ==
  [j \in Jobs |-> IF j \in js THEN [store[j] EXCEPT !.running = clock] ELSE store[j]]

-----------------------------------------------------------------------------
(* store.ts and armTimer *)

(* persist: memory keeps the change when the write fails, and the section   *)
(* throws.                                                                  *)
Persist(store, ok) ==
  /\ mem' = store
  /\ IF ok THEN disk' = store /\ UNCHANGED failures
     ELSE MayHappen /\ failures' = failures + 1 /\ UNCHANGED disk

PersistIfChanged(before, store, ok) ==
  IF before = store THEN ok /\ mem' = store /\ UNCHANGED <<disk, failures>>
  ELSE Persist(store, ok)

Scheduled(r) == r # Absent /\ r.enabled /\ r.next # 0

(* armTimer: nextWakeAtMs finds a job. *)
Armed(store) == \E j \in Jobs : Scheduled(store[j])

Results(by) == {r \in runs : r.by = by}
Running(r) == r.status = "running"
Idle(by) == todo[by] = {} /\ \A r \in Results(by) : ~Running(r)

NewJob(j, delete) ==
  LET r == [enabled |-> TRUE, deleteAfterRun |-> delete, next |-> 0, running |-> 0, lastRun |-> 0,
            lastStatus |-> "none", errors |-> 0]
  IN [r EXCEPT !.next = NextRun(j, r, 0)]

Init ==
  /\ clock = 1
  /\ disk = [j \in Jobs |-> IF j \in Stored THEN NewJob(j, FALSE) ELSE Absent]
  /\ phase = "boot"
  /\ mem = [j \in Jobs |-> Absent]
  /\ timer = FALSE /\ ticking = FALSE /\ reloaded = FALSE
  /\ todo = [by \in By |-> {}]
  /\ deferred = {} /\ interrupted = {} /\ manual = NoManual
  /\ runs = {} /\ released = {} /\ putOff = {} /\ fresh = Jobs \ Stored
  /\ requests = 0 /\ failures = 0 /\ crashes = 0

-----------------------------------------------------------------------------
(* start *)

(* The markers a dead service left are cleared. *)
Start(ok) ==
  LET marked == {j \in Jobs : Present(disk, j) /\ disk[j].running # 0}
      store == [j \in Jobs |-> IF j \in marked THEN [disk[j] EXCEPT !.running = 0] ELSE disk[j]]
  IN /\ phase = "boot"
     /\ PersistIfChanged(disk, store, ok)
     /\ interrupted' = marked \cap OneShots
     /\ phase' = IF ok THEN "plan" ELSE "failed"
     /\ UNCHANGED <<clock, crashes, timer, ticking, todo, deferred, reloaded, manual, runs,
                    fresh, history, requests>>

(* isRunnableJob, as the catch-up asks it. *)
Missed(j) ==
  LET r == mem[j] IN
  /\ Present(mem, j) /\ r.enabled /\ r.running = 0 /\ j \notin interrupted
  /\ \/ /\ j \in OneShots /\ r.lastStatus # "none"
        /\ r.lastStatus = "error" /\ r.next > r.lastRun /\ r.next <= clock
     \/ ~(j \in OneShots /\ r.lastStatus # "none") /\ Due(r, clock)
     \/ /\ j \in CronJobs /\ r.lastRun # 0 /\ clock > r.lastRun
        /\ ~(r.next > clock /\ r.lastStatus = "error" /\ clock < r.lastRun + Backoff)

(* The jobs that have waited longest are run now, the others deferred. *)
Plan(now, ok) ==
  LET missed == {j \in Jobs : Missed(j)} IN
  /\ phase = "plan"
  /\ now \subseteq missed
  /\ Cardinality(now) = IF Cardinality(missed) < MaxMissed THEN Cardinality(missed) ELSE MaxMissed
  /\ \A i \in now, j \in missed \ now : mem[i].next <= mem[j].next
  /\ IF missed = {}
     THEN /\ ok /\ phase' = "arm"
          /\ UNCHANGED <<mem, disk, failures, todo, deferred>>
     ELSE /\ Persist(Marked(mem, now), ok)
          /\ phase' = IF ok THEN "catchup" ELSE "failed"
          /\ todo' = IF ok THEN [todo EXCEPT !["startup"] = now] ELSE todo
          /\ deferred' = missed \ now
  /\ UNCHANGED <<clock, crashes, timer, ticking, interrupted, reloaded, manual, runs,
                 fresh, history, requests>>

(* applyStartupCatchupOutcomes *)
ApplyCatchup(ok) ==
  LET applied == ApplyOutcomes(mem, Results("startup"))
      later == {j \in deferred : Present(applied, j) /\ applied[j].enabled}
      staggered == [j \in Jobs |->
        IF j \in later THEN [applied[j] EXCEPT !.next = clock + 1] ELSE applied[j]]
  IN /\ phase = "catchup" /\ Idle("startup")
     /\ Persist(Maintained(staggered, FALSE), ok)
     /\ runs' = runs \ Results("startup")
     /\ phase' = IF ok THEN "arm" ELSE "failed"
     /\ putOff' = putOff \cup later
     /\ released' = released \cup StuckIn(staggered)
     /\ UNCHANGED <<clock, crashes, timer, ticking, todo, deferred, interrupted, reloaded,
                    manual, fresh, requests>>

(* The last section of start: every due slot is recomputed. *)
ArmFirst(ok) ==
  LET store == RecomputeNextRuns(mem) IN
  /\ phase = "arm"
  /\ PersistIfChanged(mem, store, ok)
  /\ timer' = IF ok THEN Armed(store) ELSE timer
  /\ phase' = IF ok THEN "up" ELSE "failed"
  /\ released' = released \cup StuckIn(mem)
  /\ UNCHANGED <<clock, crashes, ticking, todo, deferred, interrupted, reloaded, manual, runs,
                 fresh, putOff, requests>>

-----------------------------------------------------------------------------
(* onTimer *)

(* ensureLoaded with forceReload *)
Reload == disk

(* The timer fires when no tick is under way: due jobs are marked and the   *)
(* watchdog is armed.                                                       *)
Tick(ok) ==
  LET store == Reload
      due == {j \in Jobs : Present(store, j) /\ Due(store[j], clock) /\ store[j].running = 0}
      kept == Maintained(store, TRUE)
  IN /\ timer /\ ~ticking
     /\ IF due = {}
        THEN /\ PersistIfChanged(disk, kept, ok)
             /\ timer' = Armed(kept)
             /\ released' = released \cup StuckIn(store)
             /\ UNCHANGED <<ticking, todo>>
        ELSE /\ Persist(Marked(store, due), ok)
             /\ timer' = IF ok THEN timer ELSE Armed(Marked(store, due))
             /\ ticking' = ok
             /\ todo' = IF ok THEN [todo EXCEPT !["tick"] = due] ELSE todo
             /\ UNCHANGED released
     /\ reloaded' = FALSE
     /\ UNCHANGED <<clock, crashes, phase, deferred, interrupted, manual, runs, fresh,
                    putOff, requests>>

Mut_RecheckForgets ==
  /\ timer /\ ticking
  /\ timer' = FALSE
  /\ UNCHANGED <<clock, crashes, disk, phase, mem, ticking, todo, deferred, interrupted,
                 reloaded, manual, runs, fresh, history, requests, failures>>

(* The timer fires during a tick: armRunningRecheckTimer, and nothing else. *)
RecheckLater ==
  /\ timer /\ ticking
  /\ timer' = TRUE
  /\ UNCHANGED <<clock, crashes, disk, phase, mem, ticking, todo, deferred, interrupted,
                 reloaded, manual, runs, fresh, history, requests, failures>>

(* resolveRunConcurrency; the catch-up runs one job after another. *)
HasRoom(by) ==
  Cardinality({r \in Results(by) : Running(r)})
    < IF by = "tick" THEN MaxConcurrentRuns ELSE 1

(* runDueJob and runStartupCatchupCandidate, in any order.  A tick sets the *)
(* marker of the job it holds, in the store unless that was reloaded or the *)
(* job removed meanwhile.                                                   *)
StartRun(by, j) ==
  /\ j \in todo[by] /\ HasRoom(by)
  /\ todo' = [todo EXCEPT ![by] = @ \ {j}]
  /\ runs' = runs \cup {[by |-> by, job |-> j, status |-> "running",
                         startedAt |-> clock, endedAt |-> 0]}
  /\ mem' = IF by = "tick" /\ ~reloaded /\ Present(mem, j) THEN Marked(mem, {j}) ELSE mem
  /\ UNCHANGED <<clock, crashes, disk, phase, timer, ticking, deferred, interrupted, reloaded,
                 manual, fresh, history, requests, failures>>

(* A run ends, throws or times out.  For a recurring job skipped is as good *)
(* as ok, and every error is retried.                                       *)
EndRun(r, status) ==
  /\ Running(r)
  /\ Recurs(r.job) => status \in {"ok", "transient"}
  /\ runs' = (runs \ {r}) \cup {[r EXCEPT !.status = status, !.endedAt = clock]}
  /\ UNCHANGED <<clock, crashes, disk, service, fresh, history, requests, failures>>

(* The second section of a tick and its finally. *)
FinishTick(ok) ==
  LET applied == ApplyOutcomes(Reload, Results("tick"))
      store == Maintained(applied, FALSE) IN
  /\ ticking /\ Idle("tick")
  /\ Persist(store, ok)
  /\ runs' = runs \ Results("tick")
  /\ ticking' = FALSE
  /\ timer' = Armed(store)
  /\ released' = released \cup StuckIn(applied)
  /\ UNCHANGED <<clock, crashes, phase, todo, deferred, interrupted, reloaded, manual,
                 fresh, putOff, requests>>

-----------------------------------------------------------------------------
(* A run by hand *)

(* The newest service, once its store is loaded, takes requests. *)
Serving == phase # "boot"

Request == MayHappen /\ requests' = requests + 1

(* inspectManualRunPreflight: the maintenance stays in memory. *)
Preflight(j, force) ==
  LET store == Maintained(mem, FALSE) IN
  /\ Serving /\ Request /\ manual = NoManual /\ Present(mem, j)
  /\ mem' = store
  /\ manual' = IF store[j].running = 0 /\ (force \/ Due(store[j], clock))
               THEN [step |-> "reserve", job |-> j, now |-> clock]
               ELSE manual
  /\ released' = released \cup StuckIn(mem)
  /\ UNCHANGED <<clock, crashes, disk, phase, timer, ticking, todo, deferred, interrupted,
                 reloaded, runs, fresh, putOff, failures>>

Mut_ReserveBlindly(j) == Present(mem, j)

(* Nobody has marked or removed the job since the preflight. *)
Reservable(j) == Present(mem, j) /\ mem[j].running = 0

(* prepareManualRun, second section. *)
Reserve(ok) ==
  LET j == manual.job IN
  /\ manual.step = "reserve"
  /\ IF Reservable(j)
     THEN /\ Persist([mem EXCEPT ![j].running = manual.now], ok)
          /\ manual' = IF ok THEN [manual EXCEPT !.step = "run"] ELSE NoManual
          /\ runs' = IF ok THEN runs \cup {[by |-> "manual", job |-> j,
                                            status |-> "running",
                                            startedAt |-> manual.now, endedAt |-> 0]}
                     ELSE runs
          /\ released' = IF ok /\ ~mem[j].enabled THEN released \cup {j} ELSE released
     ELSE /\ ok /\ manual' = NoManual
          /\ UNCHANGED <<mem, disk, failures, runs, released>>
  /\ UNCHANGED <<clock, crashes, phase, timer, ticking, todo, deferred, interrupted, reloaded,
                 fresh, putOff, requests>>

(* finishPreparedManualRun: the result is applied to the store in memory,   *)
(* and the state of that job is merged into what the disk holds.            *)
FinishManual(ok) ==
  LET j == manual.job
      run == CHOOSE r \in runs : r.by = "manual"
      applied == ApplyOutcome(mem, run)
      merged == IF Present(applied, j) /\ ~Present(disk, j) THEN disk
                ELSE [disk EXCEPT ![j] = applied[j]]
      store == Maintained(merged, TRUE)
  IN /\ manual.step = "run" /\ ~Running(run)
     /\ manual' = NoManual
     /\ runs' = runs \ {run}
     /\ IF Present(mem, j)
        THEN /\ Persist(store, ok)
             /\ timer' = IF ok THEN Armed(store) ELSE timer
             /\ reloaded' = TRUE
             /\ released' = released \cup StuckIn(merged)
        ELSE ok /\ UNCHANGED <<mem, disk, failures, timer, reloaded, released>>
     /\ UNCHANGED <<clock, crashes, phase, ticking, todo, deferred, interrupted, fresh,
                    putOff, requests>>

-----------------------------------------------------------------------------
(* add, update, remove, list *)

Change(store, ok) ==
  /\ Serving /\ Request
  /\ Persist(store, ok)
  /\ timer' = IF ok THEN Armed(store) ELSE timer
  /\ UNCHANGED <<clock, crashes, phase, ticking, todo, deferred, interrupted, reloaded, manual,
                 runs>>

Add(j, delete, ok) ==
  LET added == [mem EXCEPT ![j] = NewJob(j, delete)] IN
  /\ delete => j \in OneShots
  /\ j \in fresh /\ fresh' = fresh \ {j}
  /\ Change(RecomputeNextRuns(added), ok)
  /\ released' = released \cup StuckIn(added)
  /\ UNCHANGED putOff

(* A patch may switch a job on or off, or change something else. *)
Patched(j, r, patch) ==
  CASE patch = "enable" -> Recomputed(j, [r EXCEPT !.enabled = TRUE])
    [] patch = "disable" -> [r EXCEPT !.enabled = FALSE, !.next = 0, !.running = 0]
    [] OTHER -> IF r.enabled /\ r.next = 0 THEN Recomputed(j, r) ELSE r

Update(j, patch, ok) ==
  /\ Present(mem, j)
  /\ Change([mem EXCEPT ![j] = Patched(j, @, patch)], ok)
  /\ released' = IF patch = "disable" THEN released \cup {j} ELSE released
  /\ UNCHANGED <<fresh, putOff>>

RemoveJob(j, ok) ==
  /\ Present(mem, j)
  /\ Change([mem EXCEPT ![j] = Absent], ok)
  /\ UNCHANGED <<fresh, history>>

(* list, listPage, status *)
List(ok) ==
  LET store == Maintained(mem, FALSE) IN
  /\ Serving
  /\ PersistIfChanged(mem, store, ok)
  /\ released' = released \cup StuckIn(mem)
  /\ UNCHANGED <<clock, crashes, phase, timer, ticking, todo, deferred, interrupted, reloaded,
                 manual, runs, fresh, putOff, requests>>

-----------------------------------------------------------------------------

(* The process dies and starts again. *)
Crash ==
  /\ MayHappen /\ crashes' = crashes + 1
  /\ phase' = "boot"
  /\ timer' = FALSE /\ ticking' = FALSE /\ reloaded' = FALSE /\ runs' = {}
  /\ mem' = [j \in Jobs |-> Absent]
  /\ todo' = [by \in By |-> {}]
  /\ deferred' = {} /\ manual' = NoManual
  /\ UNCHANGED <<clock, disk, interrupted, fresh, history, requests, failures>>

(* A slot passes.  Runs may last for any number of slots, but what only     *)
(* waits for the lock or a file does not wait for one: marked jobs with     *)
(* room to run, ended runs, and the last section of start.                  *)
SlotPasses ==
  /\ clock < MaxTime /\ clock' = clock + 1
  /\ phase # "arm"
  /\ \A by \in By :
       /\ todo[by] # {} => ~HasRoom(by)
       /\ Results(by) # {} => \E r \in Results(by) : Running(r)
  /\ manual # NoManual => \E r \in Results("manual") : Running(r)
  /\ UNCHANGED <<disk, service, runs, fresh, history, requests, failures, crashes>>

ServiceStep(ok) ==
  \/ Start(ok) \/ (\E now \in SUBSET Jobs : Plan(now, ok)) \/ ApplyCatchup(ok) \/ ArmFirst(ok)
  \/ Tick(ok) \/ FinishTick(ok) \/ Reserve(ok) \/ FinishManual(ok)

RequestStep(ok) ==
  \/ List(ok)
  \/ \E j \in Jobs : RemoveJob(j, ok) \/ \E delete \in BOOLEAN : Add(j, delete, ok)
  \/ \E j \in Jobs, patch \in {"enable", "disable", "other"} : Update(j, patch, ok)

Next ==
  \/ \E ok \in BOOLEAN : ServiceStep(ok) \/ RequestStep(ok)
  \/ \E by \in By, j \in Jobs : StartRun(by, j)
  \/ \E j \in Jobs, force \in BOOLEAN : Preflight(j, force)
  \/ \E r \in runs, status \in Outcomes : EndRun(r, status)
  \/ RecheckLater \/ Crash \/ SlotPasses

Spec == Init /\ [][Next]_vars

-----------------------------------------------------------------------------

(* Every variable has the type the code gives it. *)
TypeOK ==
  /\ clock \in 1..MaxTime
  /\ disk \in Stores /\ mem \in Stores
  /\ phase \in {"boot", "plan", "catchup", "arm", "up", "failed"}
  /\ {timer, ticking, reloaded} \subseteq BOOLEAN
  /\ todo \in [By -> SUBSET Jobs]
  /\ deferred \subseteq Jobs /\ interrupted \subseteq OneShots
  /\ manual = NoManual \/ manual.job \in Jobs
  /\ \A r \in runs : r.job \in Jobs /\ r.status \in Outcomes \cup {"running"}
  /\ fresh \subseteq Jobs /\ released \subseteq Jobs /\ putOff \subseteq Jobs
  /\ {requests, failures, crashes} \subseteq 0..MaxEvents

(* A job never runs twice at once, whether the timer, the catch-up or a     *)
(* request starts it and whatever was reloaded or failed to be written in   *)
(* between: the marker sees to that, unless the job was disabled, or run by *)
(* hand while disabled, which clears the marker, or ran so long that        *)
(* maintenance took its marker for stuck: no job has to have a timeout, and *)
(* none is below STUCK_RUN_MS for certain.                                  *)
NoConcurrentRun ==
  \A r1, r2 \in runs :
    Running(r1) /\ Running(r2) /\ r1.job = r2.job /\ r1 # r2
      => r1.job \in released

(* "Re-arm the timer so the scheduler keeps ticking": as long as writes     *)
(* succeed, the timer of a started service is armed while the disk holds a  *)
(* scheduled job, in every interleaving of ticks, runs and requests.        *)
SchedulerAlive ==
  failures = 0 /\ phase = "up" /\ (\E j \in Jobs : Scheduled(disk[j])) => timer

(* A marker on disk belongs to a run: as long as writes succeed, no job is  *)
(* kept from running by a marker nobody will clear.                         *)
MarkersOwned ==
  failures = 0 /\ phase # "boot" =>
    \A j \in Jobs :
      Present(disk, j) /\ disk[j].running # 0 =>
        \/ \E r \in runs : r.job = j
        \/ \E by \in By : j \in todo[by]

(* Nothing keeps a scheduled job from running: the service has its types,   *)
(* its timer is armed, and every marker has a run that will clear it.       *)
SchedulerHealthy == TypeOK /\ SchedulerAlive /\ MarkersOwned

(* A one-shot that ran ok is not run again by the timer or the catch-up,    *)
(* however its record was reloaded, merged or enabled again, unless its     *)
(* time is still to come, the catch-up gave it another slot, it was         *)
(* disabled or run by hand under way, or its marker was cleared as stuck.   *)
OneShotOnce ==
  \A r \in runs :
    Running(r) /\ r.by # "manual" /\ r.job \in OneShots /\ Present(disk, r.job)
      => \/ disk[r.job].lastStatus # "ok"
         \/ At[r.job] > disk[r.job].lastRun
         \/ r.job \in putOff \cup released

(* A step puts a due slot off although writes succeed and no run of the job *)
(* ends.                                                                    *)
SilentlyAdvanced(j) ==
  LET r == disk[j]
      q == disk'[j]
  IN /\ failures = 0 /\ Present(disk, j) /\ Due(r, clock)
     /\ q # Absent /\ q.enabled /\ q.next > r.next
     /\ ~\E run \in runs \ runs' : run.job = j

(* A slot that is due is not "silently advanced" by a tick, by a run of     *)
(* another job or by a list.  What does it are the last section of start,   *)
(* the stagger of the jobs the catch-up deferred, an add of any job and the *)
(* enabling of this one.                                                    *)
DueSlotsKept ==
  [][\A j \in Jobs :
       SilentlyAdvanced(j) =>
         \/ ArmFirst(TRUE)
         \/ ApplyCatchup(TRUE) /\ j \in deferred
         \/ \E k \in Jobs, delete \in BOOLEAN : Add(k, delete, TRUE)
         \/ Update(j, "enable", TRUE)]_vars

(* "Preserve any new past-due nextRunAtMs values that became due while      *)
(* startup catch-up was running.  They should execute on a future tick      *)
(* instead of being silently advanced": the section of start that follows   *)
(* the catch-up puts off no due slot of a job that is not running.          *)
SlotsOutliveCatchup ==
  [][ArmFirst(TRUE) =>
       \A j \in Jobs : disk[j] # Absent /\ disk[j].running = 0 => ~SilentlyAdvanced(j)]_vars
=============================================================================
