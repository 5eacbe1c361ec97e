------------------------ MODULE HeartbeatWakeProofs -------------------------
(***************************************************************************)
(* Theorems about HeartbeatWake, for every set of targets, delays and       *)
(* batches and every number of registrations and requests.                  *)
(***************************************************************************)
EXTENDS HeartbeatWake, FiniteSetTheorems, TLAPS

-----------------------------------------------------------------------------
(* The inductive invariant *)

Batches == [of : Handlers, delay : 0..Retry, todo : SUBSET Targets, wakes : Wakes]

UnderWay(b) == batch[b] # NoBatch

(* A slot is free or holds a batch with wakes left to hand over. *)
BatchesOK ==
  /\ batch \in [Slots -> Batches \cup {NoBatch}]
  /\ \A b \in Slots : UnderWay(b) =>
       /\ batch[b].todo # {}
       /\ batch[b].todo \subseteq {t \in Targets : batch[b].wakes[t] # NoWake}

(* Everything but the batches and the generation. *)
StateOK ==
  /\ handler \in Handlers \cup {NoHandler}
  /\ registered \in [Handlers -> Nat]
  /\ disposed \subseteq Handlers
  /\ pendingWakes \in Wakes
  /\ scheduled \in BOOLEAN /\ running \in BOOLEAN
  /\ timer \in Timers
  /\ requests \in 0..MaxRequests
  /\ owed \in Wakes
  /\ cooling \subseteq Targets

Registered == {h \in Handlers : registered[h] # 0}

(* Every registration and every disposer counts at most once. *)
GenerationCounted ==
  /\ handlerGeneration \in Nat
  /\ handlerGeneration <= Cardinality(Registered) + Cardinality(disposed)

(* Handlers are registered one after another, and only registered handlers  *)
(* are in use.                                                              *)
RegisteredInOrder ==
  /\ \A g, h \in Handlers : g < h /\ registered[h] # 0 => registered[g] # 0
  /\ handler # NoHandler => registered[handler] # 0
  /\ \A b \in Slots : UnderWay(b) => registered[batch[b].of] # 0

(* Until a second handler is registered there is one batch at a time, and   *)
(* running tells.                                                           *)
RunningTells ==
  (\A h \in Handlers : h > 1 => registered[h] = 0) =>
    /\ \A b \in Slots : UnderWay(b) => running
    /\ \A b, c \in Slots : UnderWay(b) /\ UnderWay(c) => b = c

(* Who cools down has a retry timer. *)
CoolingHasTimer == cooling # {} => timer.kind = "retry"

IInv ==
  /\ StateOK /\ BatchesOK /\ GenerationCounted /\ RegisteredInOrder /\ RegistrationHeld
  /\ NoSleepingWake /\ NoLostWake /\ RunningTells /\ CoolingHasTimer

-----------------------------------------------------------------------------
(* Lemmas about the operators *)

(* The stronger of two reasons. *)
LEMMA HigherProperties ==
  \A p, q \in Priorities \cup {NoWake} :
    /\ Higher(p, q) \in Priorities \cup {NoWake}
    /\ Higher(p, q) \in {p, q}
    /\ p <= Higher(p, q) /\ q <= Higher(p, q)
BY DEF Higher, Priorities, NoWake

(* schedule always leaves a timer, never weakens a retry timer, and a retry *)
(* timer is never sooner than a timer that is set.                          *)
LEMMA ScheduleProperties ==
  ASSUME NEW tm \in Timers, NEW d \in 0..Retry, NEW k \in {"normal", "retry"},
         NEW r \in Schedule(tm, d, k)
  PROVE  /\ r \in Timers /\ r # NoTimer
         /\ tm.kind = "retry" => r.kind = "retry"
         /\ tm = NoTimer => r.kind = k
BY DEF Schedule, Timers, NoTimer, Retry

(* Sets of handlers can be counted. *)
LEMMA HandlersAreFinite == \A H \in SUBSET Handlers : IsFiniteSet(H)
<1>1. IsFiniteSet(Handlers)
  <2>1. 1 \in Int /\ MaxHandlers \in Int
    BY HandlersAssumption
  <2> QED BY <2>1, FS_Interval DEF Handlers
<1> QED BY <1>1, FS_Subset

(* A free slot has nothing to hand over and is not a batch. *)
LEMMA NoBatchProperties ==
  NoBatch.todo = {} /\ NoBatch.of = NoHandler /\ NoBatch \notin Batches
BY DEF NoBatch, Batches, Handlers, NoHandler

(* The finally of a batch and what it leaves. *)
LEMMA FinallyProperties ==
  ASSUME BatchesOK, NEW b \in Slots, UnderWay(b), NEW pending,
         NEW tms \in SUBSET Timers, Finally(b, pending, tms)
  PROVE  /\ BatchesOK' /\ running' = FALSE
         /\ batch'[b] = NoBatch /\ \A c \in Slots \ {b} : batch'[c] = batch[c]
         /\ timer' \in Timers
         /\ NoTimer \notin tms => timer' # NoTimer
         /\ (\A tm \in tms : tm.kind = "retry") => timer'.kind = "retry"
<1>1. /\ batch' = [batch EXCEPT ![b] = NoBatch] /\ running' = FALSE
      /\ batch[b].delay \in 0..Retry
  BY DEF Finally, BatchesOK, UnderWay, Batches
<1>2. BatchesOK' /\ batch'[b] = NoBatch /\ \A c \in Slots \ {b} : batch'[c] = batch[c]
  BY <1>1, NoBatchProperties DEF BatchesOK, UnderWay
<1>3. CASE timer' \in tms
  BY <1>1, <1>2, <1>3
<1>4. CASE timer' \in UNION {Schedule(tm, batch[b].delay, "normal") : tm \in tms}
  <2>1. PICK tm \in tms : timer' \in Schedule(tm, batch[b].delay, "normal")
    BY <1>4
  <2>2. /\ timer' \in Timers /\ timer' # NoTimer
        /\ tm.kind = "retry" => timer'.kind = "retry"
    BY <1>1, <2>1, ScheduleProperties
  <2> QED BY <1>1, <1>2, <2>2
<1> QED BY <1>3, <1>4 DEF Finally

(* One wake of a batch was handed over. *)
LEMMA ContinueProperties ==
  ASSUME BatchesOK, running \in BOOLEAN, NEW b \in Slots, NEW t \in batch[b].todo,
         NEW pending, NEW tms \in SUBSET Timers, Continue(b, t, pending, tms)
  PROVE  /\ BatchesOK' /\ UnderWay(b) /\ running' \in BOOLEAN
         /\ \A c \in Slots \ {b} : batch'[c] = batch[c]
         /\ \A u \in batch[b].todo \ {t} :
              u \in batch'[b].todo /\ batch'[b].wakes = batch[b].wakes
         /\ UnderWay(b)' => running' = running /\ batch'[b].of = batch[b].of
         /\ timer' \in Timers
         /\ NoTimer \notin tms => timer' # NoTimer
         /\ (\A tm \in tms : tm.kind = "retry") => timer'.kind = "retry"
<1>1. UnderWay(b)
  BY NoBatchProperties DEF UnderWay
<1>2. CASE batch[b].todo = {t}
  <2>1. Finally(b, pending, tms)
    BY <1>2 DEF Continue
  <2> QED BY <1>1, <1>2, <2>1, FinallyProperties DEF UnderWay
<1>3. CASE batch[b].todo # {t}
  <2>1. /\ batch' = [batch EXCEPT ![b].todo = @ \ {t}] /\ timer' \in tms
        /\ running' = running
    BY <1>3 DEF Continue
  <2>2. batch[b] \in Batches
    BY <1>1 DEF BatchesOK, UnderWay
  <2>3. /\ batch'[b] \in Batches /\ batch'[b].of = batch[b].of
        /\ batch'[b].wakes = batch[b].wakes /\ batch'[b].todo = batch[b].todo \ {t}
        /\ batch'[b].todo # {}
    BY <1>3, <2>1, <2>2 DEF BatchesOK, Batches
  <2>4. \A c \in Slots \ {b} : batch'[c] = batch[c]
    BY <2>1 DEF BatchesOK
  <2>5. BatchesOK'
    <3>1. batch' \in [Slots -> Batches \cup {NoBatch}]
      BY <2>1, <2>3, <2>4 DEF BatchesOK
    <3> QED BY <1>1, <3>1, <2>3, <2>4 DEF BatchesOK, UnderWay
  <2> QED BY <1>1, <2>1, <2>3, <2>4, <2>5 DEF UnderWay
<1> QED BY <1>2, <1>3

(* The retry timer a busy or throwing handler asks for. *)
LEMMA RetryTimers ==
  ASSUME timer \in Timers
  PROVE  LET tms == Schedule(timer, Retry, "retry") IN
         /\ tms \in SUBSET Timers /\ NoTimer \notin tms
         /\ timer.kind # "normal" => \A tm \in tms : tm.kind = "retry"
<1>1. Retry \in 0..Retry
  BY DEF Retry
<1> QED BY <1>1, ScheduleProperties DEF Timers

(* What a target is still owed is pending or in another batch. *)
LEMMA StillOwedProperties ==
  ASSUME BatchesOK, pendingWakes \in Wakes, NEW b \in Slots, NEW t \in Targets
  PROVE  /\ StillOwed(t, pendingWakes, b) \in Priorities \cup {NoWake}
         /\ \/ StillOwed(t, pendingWakes, b) <= pendingWakes[t]
            \/ \E c \in Slots \ {b} :
                 t \in batch[c].todo /\ StillOwed(t, pendingWakes, b) <= batch[c].wakes[t]
<1> DEFINE others == {c \in Slots \ {b} : t \in batch[c].todo}
<1>1. pendingWakes[t] \in Priorities \cup {NoWake}
  BY DEF Wakes
<1>2. CASE others = {}
  BY <1>1, <1>2 DEF StillOwed, Priorities, NoWake
<1>3. CASE others # {}
  <2> DEFINE c == CHOOSE x \in others : TRUE
  <2>1. c \in Slots \ {b} /\ t \in batch[c].todo
    BY <1>3
  <2>2. StillOwed(t, pendingWakes, b) = Higher(pendingWakes[t], batch[c].wakes[t])
    BY <1>3 DEF StillOwed
  <2> HIDE DEF c
  <2>3. batch[c].wakes[t] \in Priorities \cup {NoWake}
    BY <2>1, NoBatchProperties DEF BatchesOK, Batches, Wakes
  <2> QED BY <1>1, <2>1, <2>2, <2>3 DEF Higher, Priorities, NoWake
<1> QED BY <1>2, <1>3

-----------------------------------------------------------------------------
(* The invariant is inductive *)

LEMMA InitIInv == Init => IInv
<1> SUFFICES ASSUME Init PROVE IInv
  OBVIOUS
<1> USE HandlersAssumption, RequestsAssumption DEF Init
<1>1. StateOK
  <2>1. pendingWakes \in Wakes /\ owed \in Wakes
    BY DEF Wakes
  <2>2. timer \in Timers /\ scheduled \in BOOLEAN /\ running \in BOOLEAN
    BY DEF Timers
  <2>3. registered \in [Handlers -> Nat] /\ requests \in 0..MaxRequests
    OBVIOUS
  <2> QED BY <2>1, <2>2, <2>3 DEF StateOK
<1>2. BatchesOK
  <2>1. batch \in [Slots -> {NoBatch}]
    OBVIOUS
  <2> QED BY <2>1 DEF BatchesOK, UnderWay
<1>3. GenerationCounted
  <2>1. Registered = {}
    BY DEF Registered
  <2> QED BY <2>1, FS_EmptySet DEF GenerationCounted
<1>4. RegisteredInOrder /\ RunningTells
  BY DEF RegisteredInOrder, RunningTells, UnderWay, Handlers
<1>5. RegistrationHeld /\ NoSleepingWake /\ NoLostWake /\ CoolingHasTimer
  BY DEF RegistrationHeld, NoSleepingWake, NoLostWake, CoolingHasTimer, NoWake
<1> QED BY <1>1, <1>2, <1>3, <1>4, <1>5 DEF IInv

(* What depends on registrations alone. *)
LEMMA RegistrationKept ==
  ASSUME IInv, UNCHANGED registration
  PROVE  GenerationCounted' /\ RegistrationHeld'
BY DEF registration, IInv, GenerationCounted, Registered, RegistrationHeld

LEMMA RequestKeeps ==
  ASSUME IInv, NEW t \in Targets, NEW p \in Priorities, NEW d \in Delays,
         RequestHeartbeatNow(t, p, d)
  PROVE  IInv'
<1> USE DEF RequestHeartbeatNow
<1>1. timer \in Timers /\ d \in 0..Retry
  BY DelaysAssumption DEF IInv, StateOK, Coalesce, Retry
<1>2. /\ timer' \in Timers /\ timer' # NoTimer
      /\ timer.kind = "retry" => timer'.kind = "retry"
  BY <1>1, ScheduleProperties
<1>3. /\ pendingWakes' \in Wakes /\ owed' \in Wakes
      /\ pendingWakes'[t] = Higher(p, pendingWakes[t]) /\ owed'[t] = Higher(p, owed[t])
      /\ \A u \in Targets : u # t => pendingWakes'[u] = pendingWakes[u] /\ owed'[u] = owed[u]
  BY HigherProperties DEF IInv, StateOK, Wakes, QueueWake
<1>4. StateOK'
  BY <1>2, <1>3, RequestsAssumption DEF IInv, StateOK, registration
<1>5. NoSleepingWake' /\ CoolingHasTimer'
  BY <1>2 DEF IInv, NoSleepingWake, CoolingHasTimer
<1>6. NoLostWake'
  <2>1. ASSUME owed[t] <= pendingWakes[t] PROVE owed'[t] <= pendingWakes'[t]
    BY <2>1, <1>3 DEF Higher, IInv, StateOK, Wakes, Priorities, NoWake
  <2>2. owed'[t] = owed[t] \/ owed'[t] <= pendingWakes'[t]
    BY <1>3 DEF Higher, IInv, StateOK, Wakes, Priorities, NoWake
  <2> QED BY <1>3, <2>1, <2>2 DEF IInv, NoLostWake
<1>7. BatchesOK' /\ RegisteredInOrder' /\ RunningTells'
  BY DEF IInv, BatchesOK, RegisteredInOrder, RunningTells, UnderWay, registration
<1>8. UNCHANGED registration
  OBVIOUS
<1> QED BY <1>4, <1>5, <1>6, <1>7, <1>8, RegistrationKept DEF IInv

LEMMA FireKeeps ==
  ASSUME IInv, NEW b \in Slots, Fire(b) PROVE IInv'
<1> DEFINE todo == {t \in Targets : pendingWakes[t] # NoWake}
<1> USE DEF Fire
<1>1. UNCHANGED registration /\ requests' = requests /\ owed' = owed
  OBVIOUS
<1>2. GenerationCounted' /\ RegistrationHeld'
  BY <1>1, RegistrationKept
<1>3. cooling' \subseteq Targets /\ cooling' = {}
  BY DEF IInv, StateOK, CoolingHasTimer
<1>4. CoolingHasTimer'
  BY <1>3 DEF CoolingHasTimer
<1>5. CASE /\ batch' = batch /\ pendingWakes' = pendingWakes /\ running' = running
           /\ handler = NoHandler /\ timer' = NoTimer /\ scheduled' = FALSE
  <2>1. StateOK'
    BY <1>1, <1>3, <1>5 DEF IInv, StateOK, Timers, registration
  <2>2. BatchesOK' /\ RegisteredInOrder' /\ RunningTells' /\ NoSleepingWake' /\ NoLostWake'
    BY <1>1, <1>5 DEF IInv, BatchesOK, RegisteredInOrder, RunningTells, UnderWay,
       NoSleepingWake, NoLostWake, registration
  <2> QED BY <1>2, <1>4, <2>1, <2>2 DEF IInv
<1>6. CASE /\ batch' = batch /\ pendingWakes' = pendingWakes /\ running' = running
           /\ scheduled' = TRUE /\ timer' \in Schedule(NoTimer, timer.delay, timer.kind)
  <2>1. timer' \in Timers /\ timer' # NoTimer
    <3>1. timer.delay \in 0..Retry /\ timer.kind \in {"normal", "retry"} /\ NoTimer \in Timers
      BY DEF IInv, StateOK, Timers
    <3> QED BY <1>6, <3>1, ScheduleProperties
  <2>2. StateOK'
    BY <1>1, <1>3, <1>6, <2>1 DEF IInv, StateOK, registration
  <2>3. BatchesOK' /\ RegisteredInOrder' /\ RunningTells' /\ NoSleepingWake' /\ NoLostWake'
    BY <1>1, <1>6, <2>1 DEF IInv, BatchesOK, RegisteredInOrder, RunningTells, UnderWay,
       NoSleepingWake, NoLostWake, registration
  <2> QED BY <1>2, <1>4, <2>2, <2>3 DEF IInv
<1>7. CASE /\ handler # NoHandler /\ ~running /\ batch[b] = NoBatch
           /\ timer' = NoTimer /\ scheduled' = FALSE
           /\ pendingWakes' = [t \in Targets |-> NoWake] /\ running' = (todo # {})
           /\ batch' = IF todo = {} THEN batch
                       ELSE [batch EXCEPT ![b] = [of |-> handler, delay |-> timer.delay,
                                                  todo |-> todo, wakes |-> pendingWakes]]
  <2>1. StateOK'
    BY <1>1, <1>3, <1>7 DEF IInv, StateOK, Timers, Wakes, registration
  <2>2. NoSleepingWake'
    BY <1>7 DEF NoSleepingWake
  <2>3. CASE todo = {}
    <3>1. BatchesOK' /\ RegisteredInOrder'
      BY <1>1, <1>7, <2>3 DEF IInv, BatchesOK, RegisteredInOrder, UnderWay, registration
    <3>2. RunningTells'
      BY <1>1, <1>7, <2>3 DEF IInv, RunningTells, UnderWay, registration
    <3>3. NoLostWake'
      <4>1. \A t \in Targets : pendingWakes'[t] = pendingWakes[t]
        BY <1>7, <2>3
      <4> QED BY <1>1, <1>7, <2>3, <4>1 DEF IInv, NoLostWake
    <3> QED BY <1>2, <1>4, <2>1, <2>2, <3>1, <3>2, <3>3 DEF IInv
  <2>4. CASE todo # {}
    <3> DEFINE new == [of |-> handler, delay |-> timer.delay, todo |-> todo,
                       wakes |-> pendingWakes]
    <3>1. new \in Batches
      BY <1>7 DEF IInv, StateOK, Batches, Timers, NoTimer, Retry
    <3>2. batch' = [batch EXCEPT ![b] = new] /\ running' = TRUE
      BY <1>7, <2>4
    <3>3. batch'[b] = new /\ \A c \in Slots : c # b => batch'[c] = batch[c]
      BY <3>2 DEF IInv, BatchesOK
    <3>4. new.todo = todo /\ new.wakes = pendingWakes /\ new.of = handler /\ new # NoBatch
      BY <3>1, NoBatchProperties
    <3>5. batch' \in [Slots -> Batches \cup {NoBatch}]
      BY <3>1, <3>2 DEF IInv, BatchesOK
    <3> HIDE DEF new
    <3>6. BatchesOK'
      BY <2>4, <3>3, <3>4, <3>5 DEF IInv, BatchesOK, UnderWay
    <3>7. RegisteredInOrder'
      BY <1>1, <1>7, <3>3, <3>4 DEF IInv, RegisteredInOrder, UnderWay, registration
    <3>8. RunningTells'
      BY <1>1, <1>7, <3>2, <3>3 DEF IInv, RunningTells, UnderWay, registration
    <3>9. NoLostWake'
      <4> SUFFICES ASSUME NEW t \in Targets
                   PROVE  \/ owed[t] <= pendingWakes'[t]
                          \/ \E c \in Slots : t \in batch'[c].todo
                                                /\ owed[t] <= batch'[c].wakes[t]
        BY <1>1 DEF NoLostWake
      <4>1. CASE owed[t] <= pendingWakes[t]
        <5>1. CASE t \in todo
          BY <3>3, <3>4, <4>1, <5>1
        <5>2. CASE t \notin todo
          BY <1>7, <4>1, <5>2
        <5> QED BY <5>1, <5>2
      <4>2. ASSUME NEW c \in Slots, t \in batch[c].todo, owed[t] <= batch[c].wakes[t]
            PROVE  t \in batch'[c].todo /\ owed[t] <= batch'[c].wakes[t]
        BY <1>7, <3>3, <4>2, NoBatchProperties
      <4> QED BY <4>1, <4>2 DEF IInv, NoLostWake
    <3> QED BY <1>2, <1>4, <2>1, <2>2, <3>6, <3>7, <3>8, <3>9 DEF IInv
  <2> QED BY <2>3, <2>4
<1> QED BY <1>5, <1>6, <1>7

(* The parts of the invariant that a batch which goes on or ends keeps. *)
LEMMA BatchGoesOn ==
  ASSUME IInv, NEW b \in Slots, UnderWay(b), UNCHANGED registration,
         \A c \in Slots \ {b} : batch'[c] = batch[c],
         UnderWay(b)' => running' = running /\ batch'[b].of = batch[b].of
  PROVE  GenerationCounted' /\ RegistrationHeld' /\ RegisteredInOrder' /\ RunningTells'
<1>1. RegisteredInOrder'
  BY DEF IInv, RegisteredInOrder, UnderWay, registration
<1>2. RunningTells'
  BY DEF IInv, RunningTells, UnderWay, registration
<1> QED BY <1>1, <1>2, RegistrationKept

LEMMA AnswerKeeps ==
  ASSUME IInv, NEW b \in Slots, NEW t \in Targets, Answer(b, t) PROVE IInv'
<1> USE DEF Answer
<1>1. /\ t \in batch[b].todo /\ {timer} \in SUBSET Timers /\ running \in BOOLEAN
      /\ Continue(b, t, pendingWakes, {timer}) /\ BatchesOK
  BY DEF IInv, StateOK
<1>2. /\ BatchesOK' /\ UnderWay(b) /\ running' \in BOOLEAN
      /\ \A c \in Slots \ {b} : batch'[c] = batch[c]
      /\ \A u \in batch[b].todo \ {t} :
           u \in batch'[b].todo /\ batch'[b].wakes = batch[b].wakes
      /\ UnderWay(b)' => running' = running /\ batch'[b].of = batch[b].of
      /\ timer' \in Timers
      /\ NoTimer \notin {timer} => timer' # NoTimer
      /\ (\A tm \in {timer} : tm.kind = "retry") => timer'.kind = "retry"
  BY <1>1, ContinueProperties
<1>3. owed' = [owed EXCEPT ![t] = StillOwed(t, pendingWakes, b)]
      /\ StillOwed(t, pendingWakes, b) \in Priorities \cup {NoWake}
  BY <1>1, StillOwedProperties DEF IInv, StateOK
<1>4. StateOK'
  BY <1>2, <1>3 DEF IInv, StateOK, Wakes, registration
<1>5. NoSleepingWake' /\ CoolingHasTimer'
  BY <1>2 DEF IInv, NoSleepingWake, CoolingHasTimer, registration
<1>6. NoLostWake'
  <2>1. \/ owed'[t] <= pendingWakes[t]
        \/ \E c \in Slots \ {b} : t \in batch[c].todo /\ owed'[t] <= batch[c].wakes[t]
    BY <1>3, StillOwedProperties DEF IInv, StateOK, Wakes
  <2>2. \A u \in Targets : u # t => owed'[u] = owed[u]
    BY <1>3 DEF IInv, StateOK, Wakes
  <2>3. ASSUME NEW u \in Targets, u # t, NEW c \in Slots, u \in batch[c].todo,
               owed[u] <= batch[c].wakes[u]
        PROVE  u \in batch'[c].todo /\ owed'[u] <= batch'[c].wakes[u]
    BY <1>2, <2>2, <2>3
  <2> QED BY <1>2, <2>1, <2>2, <2>3 DEF IInv, NoLostWake
<1> QED BY <1>2, <1>4, <1>5, <1>6, BatchGoesOn DEF IInv

LEMMA BusyKeeps ==
  ASSUME IInv, NEW b \in Slots, NEW t \in Targets, Busy(b, t) PROVE IInv'
<1> DEFINE pending == QueueWake(pendingWakes, t, batch[b].wakes[t])
           tms == Schedule(timer, Retry, "retry")
<1> USE DEF Busy
<1>1. /\ t \in batch[b].todo /\ tms \in SUBSET Timers /\ running \in BOOLEAN
      /\ Continue(b, t, pending, tms) /\ BatchesOK /\ NoTimer \notin tms
      /\ timer.kind # "normal" => \A tm \in tms : tm.kind = "retry"
  BY RetryTimers DEF IInv, StateOK
<1> HIDE DEF tms
<1>2. /\ BatchesOK' /\ UnderWay(b) /\ running' \in BOOLEAN
      /\ \A c \in Slots \ {b} : batch'[c] = batch[c]
      /\ \A u \in batch[b].todo \ {t} :
           u \in batch'[b].todo /\ batch'[b].wakes = batch[b].wakes
      /\ UnderWay(b)' => running' = running /\ batch'[b].of = batch[b].of
      /\ timer' \in Timers
      /\ NoTimer \notin tms => timer' # NoTimer
      /\ (\A tm \in tms : tm.kind = "retry") => timer'.kind = "retry"
  BY <1>1, ContinueProperties
<1>3. batch[b].wakes[t] \in Priorities \cup {NoWake}
  BY <1>2 DEF IInv, BatchesOK, UnderWay, Batches, Wakes
<1>4. /\ pendingWakes' \in Wakes
      /\ pendingWakes'[t] = Higher(batch[b].wakes[t], pendingWakes[t])
      /\ \A u \in Targets : u # t => pendingWakes'[u] = pendingWakes[u]
  BY <1>3, HigherProperties DEF IInv, StateOK, Wakes, QueueWake
<1>5. StateOK'
  BY <1>2, <1>4 DEF IInv, StateOK, Cool, registration
<1>6. NoSleepingWake' /\ CoolingHasTimer'
  BY <1>1, <1>2 DEF IInv, NoSleepingWake, CoolingHasTimer, Cool
<1>7. NoLostWake'
  <2>1. ASSUME owed[t] <= pendingWakes[t] \/ owed[t] <= batch[b].wakes[t]
        PROVE  owed[t] <= pendingWakes'[t]
    BY <2>1, <1>3, <1>4 DEF Higher, IInv, StateOK, Wakes, Priorities, NoWake
  <2>2. ASSUME NEW u \in Targets, u # t, NEW c \in Slots, u \in batch[c].todo,
               owed[u] <= batch[c].wakes[u]
        PROVE  u \in batch'[c].todo /\ owed[u] <= batch'[c].wakes[u]
    BY <1>2, <2>2
  <2>3. ASSUME NEW c \in Slots \ {b}, t \in batch[c].todo, owed[t] <= batch[c].wakes[t]
        PROVE  t \in batch'[c].todo /\ owed[t] <= batch'[c].wakes[t]
    BY <1>2, <2>3
  <2> QED BY <1>4, <2>1, <2>2, <2>3 DEF IInv, NoLostWake
<1> QED BY <1>2, <1>5, <1>6, <1>7, BatchGoesOn DEF IInv

LEMMA ThrowKeeps ==
  ASSUME IInv, NEW b \in Slots, Throw(b) PROVE IInv'
<1> DEFINE pending == QueueWakes(pendingWakes, batch[b].wakes)
           tms == Schedule(timer, Retry, "retry")
<1> USE DEF Throw
<1>1. /\ UnderWay(b) /\ tms \in SUBSET Timers /\ Finally(b, pending, tms) /\ BatchesOK
      /\ NoTimer \notin tms /\ (timer.kind # "normal" => \A tm \in tms : tm.kind = "retry")
  BY RetryTimers DEF IInv, StateOK, UnderWay
<1> HIDE DEF tms
<1>2. /\ BatchesOK' /\ running' = FALSE
      /\ batch'[b] = NoBatch /\ \A c \in Slots \ {b} : batch'[c] = batch[c]
      /\ timer' \in Timers
      /\ NoTimer \notin tms => timer' # NoTimer
      /\ (\A tm \in tms : tm.kind = "retry") => timer'.kind = "retry"
  BY <1>1, FinallyProperties
<1>3. batch[b].wakes \in Wakes /\ batch[b].todo \subseteq Targets
  BY <1>1 DEF BatchesOK, UnderWay, Batches
<1>4. /\ pendingWakes' \in Wakes /\ owed' \in Wakes
      /\ \A u \in Targets : /\ pendingWakes'[u] = Higher(batch[b].wakes[u], pendingWakes[u])
                            /\ owed'[u] = Higher(owed[u], batch[b].wakes[u])
  BY <1>3, HigherProperties DEF IInv, StateOK, Wakes, QueueWakes
<1>5. StateOK'
  BY <1>2, <1>3, <1>4 DEF IInv, StateOK, Cool, registration
<1>6. NoSleepingWake' /\ CoolingHasTimer'
  BY <1>1, <1>2 DEF IInv, NoSleepingWake, CoolingHasTimer, Cool
<1>7. NoLostWake'
  <2> SUFFICES ASSUME NEW u \in Targets
               PROVE  \/ owed'[u] <= pendingWakes'[u]
                      \/ \E c \in Slots : u \in batch'[c].todo
                                            /\ owed'[u] <= batch'[c].wakes[u]
    BY DEF NoLostWake
  <2>1. /\ batch[b].wakes[u] \in Priorities \cup {NoWake}
        /\ pendingWakes[u] \in Priorities \cup {NoWake}
        /\ owed[u] \in Priorities \cup {NoWake}
    BY <1>3 DEF IInv, StateOK, Wakes
  <2>2. CASE owed[u] <= pendingWakes[u] \/ owed[u] <= batch[b].wakes[u]
    BY <1>4, <2>1, <2>2 DEF Higher, Priorities, NoWake
  <2>3. CASE ~(owed[u] <= batch[b].wakes[u])
    <3>1. owed'[u] = owed[u]
      BY <1>4, <2>1, <2>3 DEF Higher, Priorities, NoWake
    <3>2. ASSUME NEW c \in Slots, u \in batch[c].todo, owed[u] <= batch[c].wakes[u]
          PROVE  u \in batch'[c].todo /\ owed'[u] <= batch'[c].wakes[u]
      BY <1>2, <2>3, <3>1, <3>2
    <3> QED BY <2>2, <3>1, <3>2 DEF IInv, NoLostWake
  <2> QED BY <2>2, <2>3
<1>8. UNCHANGED registration
  OBVIOUS
<1> QED BY <1>1, <1>2, <1>5, <1>6, <1>7, <1>8, BatchGoesOn DEF IInv, UnderWay

(* A registration counts once more, and takes the place of the one before.  *)
LEMMA RegisterKeeps ==
  ASSUME IInv, NEW h \in Handlers, SetHeartbeatWakeHandler(h) PROVE IInv'
<1> USE DEF SetHeartbeatWakeHandler
<1>1. /\ handlerGeneration \in Nat /\ registered \in [Handlers -> Nat] /\ registered[h] = 0
      /\ registered' = [registered EXCEPT ![h] = handlerGeneration + 1]
      /\ \A g \in Handlers : g < h => registered[g] # 0
  BY HandlersAssumption DEF IInv, GenerationCounted, StateOK, Handlers
<1>2. /\ registered' \in [Handlers -> Nat] /\ registered'[h] # 0
      /\ \A g \in Handlers : g # h => registered'[g] = registered[g]
  BY <1>1
<1>3. timer' \in Timers
      /\ ((\E t \in Targets : pendingWakes[t] # NoWake) => timer' # NoTimer)
  BY DEF Schedule, Timers, NoTimer, Coalesce, Retry
<1>4. StateOK'
  BY <1>2, <1>3 DEF IInv, StateOK
<1>5. GenerationCounted'
  <2>1. Registered' = Registered \cup {h} /\ h \notin Registered
    BY <1>1, <1>2 DEF Registered
  <2>2. IsFiniteSet(Registered) /\ IsFiniteSet(disposed)
    BY HandlersAreFinite DEF Registered, IInv, StateOK
  <2>3. Cardinality(Registered') = Cardinality(Registered) + 1
    BY <2>1, <2>2, FS_AddElement
  <2>4. Cardinality(Registered) \in Nat /\ Cardinality(disposed) \in Nat
    BY <2>2, FS_CardinalityType
  <2> QED BY <1>1, <2>3, <2>4 DEF IInv, GenerationCounted
<1>6. RegisteredInOrder'
  BY <1>1, <1>2 DEF IInv, RegisteredInOrder, UnderWay, BatchesOK, Batches, Handlers
<1>7. RegistrationHeld'
  BY <1>1, <1>2 DEF IInv, RegisteredInOrder, RegistrationHeld, Handlers
<1>8. NoSleepingWake' /\ NoLostWake' /\ CoolingHasTimer'
  BY <1>3 DEF IInv, NoSleepingWake, NoLostWake, CoolingHasTimer
<1>9. RunningTells'
  <2> SUFFICES ASSUME \A g \in Handlers : g > 1 => registered'[g] = 0
               PROVE  \A b \in Slots : ~UnderWay(b)'
    BY DEF RunningTells
  <2>1. h = 1
    BY <1>2 DEF Handlers
  <2>2. \A g \in Handlers : registered[g] = 0
    BY <1>1, <1>2, <2>1 DEF Handlers
  <2> QED BY <2>2 DEF IInv, RegisteredInOrder, UnderWay, BatchesOK, Batches
<1>10. BatchesOK'
  BY DEF IInv, BatchesOK, UnderWay
<1> QED BY <1>4, <1>5, <1>6, <1>7, <1>8, <1>9, <1>10 DEF IInv

(* A disposer that is stale does nothing but be used up. *)
LEMMA DisposeKeeps ==
  ASSUME IInv, NEW h \in Handlers, Dispose(h) PROVE IInv'
<1> USE DEF Dispose
<1>1. /\ handlerGeneration \in Nat /\ h \notin disposed /\ disposed' = disposed \cup {h}
      /\ \/ handler = h /\ handler' = NoHandler /\ handlerGeneration' = handlerGeneration + 1
         \/ handler' = handler /\ handlerGeneration' = handlerGeneration
  BY DEF IInv, GenerationCounted
<1>2. StateOK'
  BY <1>1 DEF IInv, StateOK
<1>3. GenerationCounted'
  <2>1. IsFiniteSet(Registered) /\ IsFiniteSet(disposed)
    BY HandlersAreFinite DEF Registered, IInv, StateOK
  <2>2. Cardinality(disposed') = Cardinality(disposed) + 1
    BY <1>1, <2>1, FS_AddElement
  <2>3. Cardinality(Registered) \in Nat /\ Cardinality(disposed) \in Nat
    BY <2>1, FS_CardinalityType
  <2>4. Registered' = Registered
    BY DEF Registered
  <2> QED BY <1>1, <2>2, <2>3, <2>4 DEF IInv, GenerationCounted
<1>4. RegisteredInOrder' /\ RunningTells'
  BY <1>1 DEF IInv, RegisteredInOrder, RunningTells, UnderWay
<1>5. RegistrationHeld'
  BY <1>1 DEF IInv, RegistrationHeld
<1>6. NoSleepingWake' /\ NoLostWake' /\ CoolingHasTimer'
  BY <1>1 DEF IInv, NoSleepingWake, NoLostWake, CoolingHasTimer
<1>7. BatchesOK'
  BY DEF IInv, BatchesOK, UnderWay
<1> QED BY <1>2, <1>3, <1>4, <1>5, <1>6, <1>7 DEF IInv

LEMMA StepIInv == IInv /\ [Next]_vars => IInv'
<1> SUFFICES ASSUME IInv, [Next]_vars PROVE IInv'
  OBVIOUS
<1>1. CASE UNCHANGED vars
  BY <1>1 DEF vars, IInv, StateOK, BatchesOK, GenerationCounted, Registered,
     RegisteredInOrder, RegistrationHeld, NoSleepingWake, NoLostWake, RunningTells,
     CoolingHasTimer, UnderWay
<1> QED
  BY <1>1, RequestKeeps, FireKeeps, AnswerKeeps, BusyKeeps, ThrowKeeps, RegisterKeeps,
     DisposeKeeps DEF Next, Timer

LEMMA Invariance == Spec => []IInv
BY InitIInv, StepIInv, PTL DEF Spec

-----------------------------------------------------------------------------
(* Theorems *)

(* The queue has its types, and the handler registered last stays until its *)
(* own disposer is called: stale disposers do nothing.                      *)
THEOREM RegistrationsAreConsistent == Spec => []RegistrationsConsistent
<1>1. IInv => handlerGeneration \in 0..(2 * MaxHandlers)
  <2> SUFFICES ASSUME IInv PROVE handlerGeneration \in 0..(2 * MaxHandlers)
    OBVIOUS
  <2>1. IsFiniteSet(Handlers) /\ Cardinality(Handlers) = MaxHandlers
    BY HandlersAssumption, FS_Interval DEF Handlers
  <2>2. Registered \subseteq Handlers /\ disposed \subseteq Handlers
    BY DEF Registered, IInv, StateOK
  <2>3. /\ Cardinality(Registered) <= MaxHandlers /\ Cardinality(disposed) <= MaxHandlers
        /\ Cardinality(Registered) \in Nat /\ Cardinality(disposed) \in Nat
    BY <2>1, <2>2, FS_Subset, FS_CardinalityType
  <2> QED BY <2>3, HandlersAssumption DEF IInv, GenerationCounted
<1>2. IInv => TypeOK
  BY <1>1 DEF IInv, StateOK, BatchesOK, UnderWay, Batches, TypeOK
<1>3. IInv => RegistrationsConsistent
  BY <1>2 DEF IInv, RegistrationsConsistent
<1> QED BY <1>3, Invariance, PTL

(* A pending wake has a timer, and the strongest reason asked for is        *)
(* pending or in a batch, across busy and throwing handlers and restarts.   *)
THEOREM WakesAreKept == Spec => []WakesKept
<1>1. IInv => WakesKept
  BY DEF IInv, WakesKept
<1> QED BY <1>1, Invariance, PTL

(* Until a second handler is registered, batches run one after another. *)
THEOREM NoOverlap == Spec => []BatchesDoNotOverlap
<1>1. IInv => BatchesDoNotOverlap
  <2> SUFFICES ASSUME IInv, \A h \in Handlers : h > 1 => registered[h] = 0
               PROVE  Cardinality({b \in Slots : batch[b] # NoBatch}) <= 1
    BY DEF BatchesDoNotOverlap
  <2> DEFINE used == {b \in Slots : batch[b] # NoBatch}
  <2>1. CASE used = {}
    BY <2>1, FS_EmptySet
  <2>2. CASE used # {}
    <3>1. PICK b \in used : TRUE
      BY <2>2
    <3>2. used = {b}
      BY <3>1 DEF IInv, RunningTells, UnderWay
    <3> QED BY <3>2, FS_Singleton
  <2> QED BY <2>1, <2>2
<1> QED BY <1>1, Invariance, PTL

(* Once a busy handler has set the retry timer for a wake, nothing gives    *)
(* the wake to the handler again before that timer fires.                   *)
THEOREM CooldownIsKept == Spec => CooldownKept
<1>1. IInv /\ [Next]_vars =>
        [\A b \in Slots :
           batch[b] = NoBatch /\ batch'[b] # NoBatch
             => timer.kind = "retry" \/ batch'[b].todo \cap cooling = {}]_vars
  BY DEF IInv, CoolingHasTimer
<1> QED BY <1>1, Invariance, PTL DEF Spec, CooldownKept
=============================================================================
