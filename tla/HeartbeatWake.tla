---------------------------- MODULE HeartbeatWake ---------------------------
(***************************************************************************)
(* The heartbeat wake queue, src/infra/heartbeat-wake.ts: wake requests are *)
(* merged per target, one timer starts a batch that gives them to the       *)
(* registered handler, and a handler that is busy or throws gets them again *)
(* after a cooldown.  A gateway that restarts in its process registers a    *)
(* new handler while a batch of the old one may still be running.           *)
(*                                                                          *)
(* Abstractions.  A reason is its priority.  Time is left out but for what  *)
(* schedule compares: of two timers the later one can only be due first     *)
(* when its delay is shorter.  The map's insertion order is any order.      *)
(***************************************************************************)
EXTENDS Naturals, FiniteSets

CONSTANTS Targets,     \* agent and session a wake is for
          Delays,      \* coalesceMs values of callers
          MaxHandlers, \* bound: registrations of a handler
          Slots,       \* bound: batches under way at once
          MaxRequests  \* bound: wake requests

ASSUME HandlersAssumption == MaxHandlers \in Nat \ {0}
ASSUME RequestsAssumption == MaxRequests \in Nat

(* DEFAULT_COALESCE_MS and DEFAULT_RETRY_MS, as ranks of delays. *)
Coalesce == 1
Retry == 2
ASSUME DelaysAssumption == Delays \subseteq 0..Coalesce

(* REASON_PRIORITY, one up: 0 is no wake. *)
Priorities == 1..4
NoWake == 0

NoHandler == 0
NoTimer == [kind |-> "none", delay |-> 0]
NoBatch == [of |-> NoHandler, delay |-> 0, todo |-> {},
            wakes |-> [t \in Targets |-> NoWake]]

VARIABLES handler,           \* the registered handler
          handlerGeneration, \* registrations and disposals so far
          registered,        \* the generation each handler registered with
          disposed,          \* handlers whose disposer was called
          pendingWakes,      \* priority of the wake pending for each target
          scheduled,         \* a timer fired while a batch was running
          running,           \* a batch is running
          timer,             \* the timer
          batch,             \* the batches under way
          requests,          \* wake requests so far
          owed,              \* highest priority asked for and not answered
          cooling            \* targets the retry timer was set for

vars == <<handler, handlerGeneration, registered, disposed, pendingWakes,
          scheduled, running, timer, batch, requests, owed, cooling>>
registration == <<handler, handlerGeneration, registered, disposed>>

Handlers == 1..MaxHandlers
Wakes == [Targets -> Priorities \cup {NoWake}]
Timers == [kind : {"normal", "retry"}, delay : 0..Retry] \cup {NoTimer}

(* Every variable has the type the code gives it, and a batch under way has *)
(* wakes left to hand over.                                                 *)
TypeOK ==
  /\ handler \in Handlers \cup {NoHandler}
  /\ handlerGeneration \in 0..(2 * MaxHandlers)
  /\ registered \in [Handlers -> Nat]
  /\ disposed \subseteq Handlers
  /\ pendingWakes \in Wakes
  /\ scheduled \in BOOLEAN /\ running \in BOOLEAN
  /\ timer \in Timers
  /\ \A b \in Slots :
       batch[b] = NoBatch \/
         /\ batch[b].of \in Handlers /\ batch[b].wakes \in Wakes
         /\ batch[b].delay \in 0..Retry
         /\ batch[b].todo # {}
         /\ batch[b].todo \subseteq {t \in Targets : batch[b].wakes[t] # NoWake}
  /\ requests \in 0..MaxRequests
  /\ owed \in Wakes
  /\ cooling \subseteq Targets

Init ==
  /\ handler = NoHandler /\ handlerGeneration = 0
  /\ registered = [h \in Handlers |-> 0] /\ disposed = {}
  /\ pendingWakes = [t \in Targets |-> NoWake]
  /\ scheduled = FALSE /\ running = FALSE
  /\ timer = NoTimer
  /\ batch = [b \in Slots |-> NoBatch]
  /\ requests = 0
  /\ owed = [t \in Targets |-> NoWake]
  /\ cooling = {}

-----------------------------------------------------------------------------

Higher(p, q) == IF p >= q THEN p ELSE q

(* queuePendingWakeReason for one wake and for all wakes of a batch. *)
QueueWake(pending, t, p) == [pending EXCEPT ![t] = Higher(p, @)]
QueueWakes(pending, wakes) == [t \in Targets |-> Higher(wakes[t], pending[t])]

Mut_SoonerWins(tm, d, k) ==
  IF tm = NoTimer THEN {[kind |-> k, delay |-> d]}
  ELSE IF d >= tm.delay THEN {tm}
  ELSE {tm, [kind |-> k, delay |-> d]}

(* schedule: the timers there may be after it. *)
Schedule(tm, d, k) ==
  IF tm = NoTimer THEN {[kind |-> k, delay |-> d]}
  ELSE IF tm.kind = "retry" \/ d >= tm.delay THEN {tm}
  ELSE {tm, [kind |-> k, delay |-> d]}

(* requestHeartbeatNow *)
RequestHeartbeatNow(t, p, d) ==
  /\ requests < MaxRequests
  /\ requests' = requests + 1
  /\ pendingWakes' = QueueWake(pendingWakes, t, p)
  /\ timer' \in Schedule(timer, d, "normal")
  /\ owed' = [owed EXCEPT ![t] = Higher(p, @)]
  /\ UNCHANGED <<registration, scheduled, running, batch, cooling>>

Mut_FireWhileRunning(b) ==
  LET todo == {t \in Targets : pendingWakes[t] # NoWake} IN
  /\ timer # NoTimer
  /\ batch[b] = NoBatch
  /\ handler # NoHandler
  /\ timer' = NoTimer
  /\ scheduled' = FALSE
  /\ pendingWakes' = [t \in Targets |-> NoWake]
  /\ running' = (todo # {})
  /\ batch' = IF todo = {} THEN batch
              ELSE [batch EXCEPT ![b] = [of |-> handler, delay |-> timer.delay,
                                         todo |-> todo, wakes |-> pendingWakes]]
  /\ UNCHANGED <<registration, requests, owed, cooling>>

(* The timer fires: without a handler the wakes wait for one; while a batch *)
(* runs the timer is set again; else the pending wakes become a batch.      *)
Fire(b) ==
  LET todo == {t \in Targets : pendingWakes[t] # NoWake} IN
  /\ timer # NoTimer
  /\ cooling' = IF timer.kind = "retry" THEN {} ELSE cooling
  /\ \/ /\ handler = NoHandler
        /\ timer' = NoTimer
        /\ scheduled' = FALSE
        /\ UNCHANGED <<pendingWakes, running, batch>>
     \/ /\ handler # NoHandler /\ running
        /\ scheduled' = TRUE
        /\ timer' \in Schedule(NoTimer, timer.delay, timer.kind)
        /\ UNCHANGED <<pendingWakes, running, batch>>
     \/ /\ handler # NoHandler /\ ~running
        /\ batch[b] = NoBatch
        /\ timer' = NoTimer
        /\ scheduled' = FALSE
        /\ pendingWakes' = [t \in Targets |-> NoWake]
        /\ running' = (todo # {})
        /\ batch' = IF todo = {} THEN batch
                    ELSE [batch EXCEPT ![b] = [of |-> handler, delay |-> timer.delay,
                                               todo |-> todo, wakes |-> pendingWakes]]
  /\ UNCHANGED <<registration, requests, owed>>

(* What a target is still owed once a batch is done with it: what was asked *)
(* for since.                                                               *)
StillOwed(t, pending, b) ==
  LET others == {c \in Slots \ {b} : t \in batch[c].todo} IN
  IF others = {} THEN pending[t]
  ELSE Higher(pending[t], batch[CHOOSE c \in others : TRUE].wakes[t])

Mut_FinallyForgets(b, pending, tms) ==
  /\ batch' = [batch EXCEPT ![b] = NoBatch]
  /\ UNCHANGED running
  /\ timer' \in tms

(* The finally of a batch: running is cleared and what is pending by then   *)
(* is scheduled.                                                            *)
Finally(b, pending, tms) ==
  /\ batch' = [batch EXCEPT ![b] = NoBatch]
  /\ running' = FALSE
  /\ timer' \in IF scheduled \/ \E t \in Targets : pending[t] # NoWake
                THEN UNION {Schedule(tm, batch[b].delay, "normal") : tm \in tms}
                ELSE tms

(* The handler was given one more wake; the batch goes on or ends. *)
Continue(b, t, pending, tms) ==
  IF batch[b].todo = {t} THEN Finally(b, pending, tms)
  ELSE /\ batch' = [batch EXCEPT ![b].todo = @ \ {t}]
       /\ timer' \in tms
       /\ UNCHANGED running

(* The handler ran the heartbeat or skipped it for good. *)
Answer(b, t) ==
  /\ t \in batch[b].todo
  /\ Continue(b, t, pendingWakes, {timer})
  /\ owed' = [owed EXCEPT ![t] = StillOwed(t, pendingWakes, b)]
  /\ UNCHANGED <<registration, pendingWakes, scheduled, requests, cooling>>

(* schedule(DEFAULT_RETRY_MS, "retry") for some targets; a normal timer that *)
(* is already set, by a request made meanwhile, stays and is due sooner.    *)
Cool(ts) ==
  cooling' = IF timer.kind = "normal" THEN cooling ELSE cooling \cup ts

(* The handler skipped the heartbeat: requests are in flight. *)
Busy(b, t) ==
  LET pending == QueueWake(pendingWakes, t, batch[b].wakes[t]) IN
  /\ t \in batch[b].todo
  /\ pendingWakes' = pending
  /\ Continue(b, t, pending, Schedule(timer, Retry, "retry"))
  /\ Cool({t})
  /\ UNCHANGED <<registration, scheduled, requests, owed>>

(* The handler throws: every wake of the batch is queued again. *)
Throw(b) ==
  LET pending == QueueWakes(pendingWakes, batch[b].wakes) IN
  /\ batch[b] # NoBatch
  /\ pendingWakes' = pending
  /\ Finally(b, pending, Schedule(timer, Retry, "retry"))
  /\ Cool(batch[b].todo)
  /\ owed' = [t \in Targets |-> Higher(owed[t], batch[b].wakes[t])]
  /\ UNCHANGED <<registration, scheduled, requests>>

-----------------------------------------------------------------------------
(* Registration *)

Mut_NoReschedule(h) ==
  /\ registered[h] = 0 /\ \A g \in 1..(h - 1) : registered[g] # 0
  /\ handlerGeneration' = handlerGeneration + 1
  /\ registered' = [registered EXCEPT ![h] = handlerGeneration + 1]
  /\ handler' = h
  /\ running' = FALSE /\ scheduled' = FALSE
  /\ cooling' = {}
  /\ timer' = NoTimer
  /\ UNCHANGED <<disposed, pendingWakes, batch, requests, owed>>

(* setHeartbeatWakeHandler: a new lifecycle starts with no timer and no     *)
(* running batch, whatever the old one left.                                *)
SetHeartbeatWakeHandler(h) ==
  /\ registered[h] = 0 /\ \A g \in 1..(h - 1) : registered[g] # 0
  /\ handlerGeneration' = handlerGeneration + 1
  /\ registered' = [registered EXCEPT ![h] = handlerGeneration + 1]
  /\ handler' = h
  /\ running' = FALSE /\ scheduled' = FALSE
  /\ cooling' = {}
  /\ timer' \in IF \E t \in Targets : pendingWakes[t] # NoWake
                THEN Schedule(NoTimer, Coalesce, "normal") ELSE {NoTimer}
  /\ UNCHANGED <<disposed, pendingWakes, batch, requests, owed>>

Mut_DisposeAny(h) ==
  /\ registered[h] # 0 /\ h \notin disposed
  /\ disposed' = disposed \cup {h}
  /\ handlerGeneration' = handlerGeneration + 1
  /\ handler' = NoHandler
  /\ UNCHANGED <<registered, pendingWakes, scheduled, running, timer, batch,
                 requests, owed, cooling>>

(* The disposer that the registration of h returned. *)
Dispose(h) ==
  /\ registered[h] # 0 /\ h \notin disposed
  /\ disposed' = disposed \cup {h}
  /\ IF handlerGeneration = registered[h] /\ handler = h
       THEN handlerGeneration' = handlerGeneration + 1 /\ handler' = NoHandler
       ELSE UNCHANGED <<handlerGeneration, handler>>
  /\ UNCHANGED <<registered, pendingWakes, scheduled, running, timer, batch,
                 requests, owed, cooling>>

-----------------------------------------------------------------------------

Timer == \E b \in Slots : Fire(b)

Next ==
  \/ \E t \in Targets, p \in Priorities, d \in Delays : RequestHeartbeatNow(t, p, d)
  \/ Timer
  \/ \E b \in Slots, t \in Targets : Answer(b, t) \/ Busy(b, t)
  \/ \E b \in Slots : Throw(b)
  \/ \E h \in Handlers : SetHeartbeatWakeHandler(h) \/ Dispose(h)

Spec == Init /\ [][Next]_vars

(* Timers fire, handlers return, the gateway registers its handler, and the *)
(* main lane is not busy for ever: a wake that is tried again and again is  *)
(* answered.                                                                *)
Fairness ==
  /\ WF_vars(Timer)
  /\ \A b \in Slots, t \in Targets : SF_vars(Answer(b, t))
  /\ WF_vars(SetHeartbeatWakeHandler(1))

FairSpec == Spec /\ Fairness

-----------------------------------------------------------------------------

(* A pending wake never sleeps: once a handler is registered a timer will   *)
(* fire for it, whatever batch, retry or new lifecycle came in between.     *)
NoSleepingWake ==
  handler # NoHandler /\ (\E t \in Targets : pendingWakes[t] # NoWake)
    => timer # NoTimer

(* "does not downgrade a higher-priority pending reason": the strongest     *)
(* reason asked for since the last answer is pending or being handed over,  *)
(* also after busy handlers and handlers that throw.                        *)
NoLostWake ==
  \A t \in Targets :
    \/ owed[t] <= pendingWakes[t]
    \/ \E b \in Slots : t \in batch[b].todo /\ owed[t] <= batch[b].wakes[t]

(* A wake is kept until it is answered: in the queue with its strongest     *)
(* reason, and under a timer, or in a batch.                                *)
WakesKept == NoSleepingWake /\ NoLostWake

(* "Stale disposers (from previous registrations) are no-ops": the last     *)
(* registered handler stays registered until its own disposer is called.    *)
RegistrationHeld ==
  \A h \in Handlers :
    registered[h] # 0 /\ h \notin disposed /\ (\A g \in Handlers : g > h => registered[g] = 0)
      => handler = h

(* The queue has its types and the last registration stands. *)
RegistrationsConsistent == TypeOK /\ RegistrationHeld

(* The handler registered first is still the one in use. *)
FirstLifecycle == disposed = {} /\ \A h \in Handlers : h > 1 => registered[h] = 0

(* Until a second handler is registered, batches do not overlap: the        *)
(* heartbeats run one after the other, also when the handler is disposed.   *)
BatchesDoNotOverlap ==
  (\A h \in Handlers : h > 1 => registered[h] = 0)
    => Cardinality({b \in Slots : batch[b] # NoBatch}) <= 1

(* Every wake is answered, unless its handler is disposed or replaced. *)
EveryWakeAnswered ==
  \A t \in Targets : owed[t] # NoWake ~> owed[t] = NoWake \/ ~FirstLifecycle

(* "keeps retry cooldown even when a sooner request arrives": once a busy   *)
(* handler has set the retry timer for a wake, nothing gives the wake to it *)
(* again before that timer fires.                                           *)
CooldownKept ==
  [][\A b \in Slots :
       batch[b] = NoBatch /\ batch'[b] # NoBatch
         => timer.kind = "retry" \/ batch'[b].todo \cap cooling = {}]_vars

=============================================================================
