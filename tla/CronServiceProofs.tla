-------------------------- MODULE CronServiceProofs -------------------------
(***************************************************************************)
(* Theorems about CronService, for every finite set of jobs and any number  *)
(* of slots, requests, failed writes and crashes.                           *)
(***************************************************************************)
EXTENDS CronService, TLAPS

-----------------------------------------------------------------------------
(* The inductive invariant *)

Runs == [by : By \cup {"manual"}, job : Jobs, status : Outcomes \cup {"running"},
         startedAt : Nat \ {0}, endedAt : Nat]
Manuals == [step : {"reserve", "run"}, job : Jobs, now : Nat \ {0}]

StateOK ==
  /\ clock \in 1..MaxTime
  /\ phase \in {"boot", "plan", "catchup", "arm", "up", "failed"}
  /\ timer \in BOOLEAN /\ ticking \in BOOLEAN /\ reloaded \in BOOLEAN
  /\ todo \in [By -> SUBSET Jobs]
  /\ deferred \subseteq Jobs /\ interrupted \subseteq OneShots
  /\ manual \in Manuals \cup {NoManual}
  /\ runs \subseteq Runs
  /\ fresh \subseteq Jobs /\ released \subseteq Jobs /\ putOff \subseteq Jobs
  /\ requests \in 0..MaxEvents /\ failures \in 0..MaxEvents /\ crashes \in 0..MaxEvents

NotDone(j, r) == r.lastStatus # "ok" \/ At[j] > r.lastRun

(* The record of a job: an enabled job has a next run unless it is a        *)
(* one-shot that is done; the next run is after the last one, or the time   *)
(* of a one-shot; a one-shot that is done has a next run only if it was put *)
(* off.                                                                     *)
Sane(j, r, now, off) ==
  /\ r \in JobStates /\ r.lastRun <= now
  /\ r.enabled /\ r.next = 0 => j \in OneShots /\ ~NotDone(j, r)
  /\ r.enabled /\ r.next # 0 =>
       /\ r.lastRun < r.next \/ (j \in OneShots /\ r.next = At[j])
       /\ j \in OneShots \ off => NotDone(j, r)

SaneStore(store, now, off) ==
  store \in Stores /\ \A j \in Jobs : store[j] = Absent \/ Sane(j, store[j], now, off)
StoresSane == SaneStore(disk, clock, putOff) /\ SaneStore(mem, clock, putOff)

(* As long as writes succeed, memory and disk agree on the schedule, *)
SameSchedule(r, q) ==
  /\ r = Absent <=> q = Absent
  /\ r # Absent => r.enabled = q.enabled /\ (r.enabled => r.next = q.next)
StoresAgree ==
  failures = 0 /\ phase # "boot" => \A j \in Jobs : SameSchedule(disk[j], mem[j])

(* and the timer is armed for it. *)
TimerArmed == failures = 0 /\ phase = "up" /\ Armed(mem) => timer

(* What works on a job: the runs rs and the lists td of what will be run. *)
Of(rs, by) == {r \in rs : r.by = by}
Started(by, rs) == {r.job : r \in Of(rs, by)}
Batch(by, rs, td) == td[by] \cup Started(by, rs)
Claimed(j, rs, td) == (\E r \in rs : r.job = j) \/ \E by \in By : j \in td[by]

Owned(store, rs, td) ==
  \A j \in Jobs : store[j] # Absent /\ store[j].running # 0 => Claimed(j, rs, td)
StoresOwned ==
  failures = 0 /\ phase # "boot" => Owned(disk, runs, todo) /\ Owned(mem, runs, todo)

(* A tick, a catch-up and a run by hand know what they work on. *)
BatchesKnown ==
  /\ phase = "boot" => ~timer /\ ~ticking /\ manual = NoManual
  /\ Batch("tick", runs, todo) # {} => ticking
  /\ Batch("startup", runs, todo) # {} => phase = "catchup"
RunsDistinct ==
  /\ \A r \in runs : r.by \in By => r.job \notin todo[r.by]
  /\ \A r, q \in runs : r.by = q.by /\ r.job = q.job => r = q
ManualExact ==
  /\ \A r \in runs : r.by = "manual" => manual.step = "run" /\ r.job = manual.job
  /\ manual.step = "run" => \E r \in runs : r.by = "manual"
  /\ manual.step = "reserve" => manual.now = clock

RunsInTime ==
  \A r \in runs : /\ r.startedAt <= clock
                  /\ ~Running(r) => r.startedAt <= r.endedAt

(* A job not yet added is nowhere. *)
FreshUnknown ==
  \A j \in fresh : disk[j] = Absent /\ mem[j] = Absent /\ ~Claimed(j, runs, todo)

(* One claim on a job at a time, but for released jobs. *)
Exclusive(j, rs, td) ==
  /\ \A r, q \in rs : r.job = j /\ q.job = j => r = q
  /\ \A by \in By : j \in td[by] =>
       /\ \A r \in rs : r.job # j
       /\ \A b \in By : j \in td[b] => b = by
ClaimsExclusive == \A j \in Jobs \ released : Exclusive(j, runs, todo)

(* The marker of a claimed job is set, and a one-shot that a batch claims   *)
(* is not done unless it was put off, but for released jobs.                *)
Guarded(r) == r.enabled /\ r.running # 0
Guard(j, r, rs, td, off) ==
  r # Absent /\ Claimed(j, rs, td) =>
    /\ Guarded(r)
    /\ (\E by \in By : j \in Batch(by, rs, td)) /\ j \in OneShots \ off => NotDone(j, r)
ClaimsGuarded ==
  \A j \in Jobs \ released : /\ Guard(j, disk[j], runs, todo, putOff)
                             /\ Guard(j, mem[j], runs, todo, putOff)

ControlInv == StateOK /\ TimerArmed /\ BatchesKnown /\ ManualExact
RunsInv == RunsDistinct /\ RunsInTime /\ ClaimsExclusive
StoresInv == StoresSane /\ StoresAgree /\ StoresOwned /\ FreshUnknown /\ ClaimsGuarded
IInv == ControlInv /\ RunsInv /\ StoresInv

-----------------------------------------------------------------------------
(* The record of a job *)

LEMMA Numbers ==
  /\ MaxMissed \in Nat /\ MaxAttempts \in Nat /\ MaxEvents \in Nat
  /\ Backoff \in Nat \ {0} /\ Stuck \in Nat \ {0} /\ MaxTime \in Nat \ {0}
BY NumbersAssumption

LEMMA AbsentIsNoState == Absent \notin JobStates /\ ~Absent.enabled
BY DEF Absent, JobStates

(* The fields of a record. *)
Fields(r) ==
  /\ r \in JobStates
  /\ r.enabled \in BOOLEAN /\ r.deleteAfterRun \in BOOLEAN
  /\ r.next \in Nat /\ r.running \in Nat /\ r.lastRun \in Nat
  /\ r.lastStatus \in {"none", "ok", "skipped", "error"} /\ r.errors \in 0..(MaxAttempts + 1)

LEMMA StateFields == ASSUME NEW r \in JobStates PROVE Fields(r)
BY DEF JobStates, Fields

(* A record with another marker or another next run. *)
LEMMA SetRunning ==
  ASSUME NEW r \in JobStates, NEW n \in Nat, NEW q, q = [r EXCEPT !.running = n]
  PROVE  /\ q \in JobStates /\ q.running = n /\ q.enabled = r.enabled /\ q.next = r.next
         /\ q.deleteAfterRun = r.deleteAfterRun
         /\ q.lastRun = r.lastRun /\ q.lastStatus = r.lastStatus
BY DEF JobStates

LEMMA SetNext ==
  ASSUME NEW r \in JobStates, NEW n \in Nat, NEW q, q = [r EXCEPT !.next = n]
  PROVE  /\ q \in JobStates /\ q.next = n /\ q.enabled = r.enabled /\ q.running = r.running
         /\ q.deleteAfterRun = r.deleteAfterRun
         /\ q.lastRun = r.lastRun /\ q.lastStatus = r.lastStatus
BY DEF JobStates

LEMMA SetEnabled ==
  ASSUME NEW r \in JobStates, NEW b \in BOOLEAN, NEW q, q = [r EXCEPT !.enabled = b]
  PROVE  /\ q \in JobStates /\ q.enabled = b /\ q.next = r.next /\ q.running = r.running
         /\ q.deleteAfterRun = r.deleteAfterRun
         /\ q.lastRun = r.lastRun /\ q.lastStatus = r.lastStatus
BY DEF JobStates

(* A record that a maintenance leaves: the marker may go, but not the one   *)
(* of an enabled job before it is stuck.                                    *)
Like(r, q, now) ==
  /\ q \in JobStates /\ q.enabled = r.enabled /\ q.deleteAfterRun = r.deleteAfterRun
  /\ q.lastRun = r.lastRun /\ q.lastStatus = r.lastStatus
  /\ q.running \in {0, r.running}
  /\ Guarded(r) /\ now <= r.running + Stuck => q.running = r.running

(* normalizeJobTickState *)
LEMMA NormalizedProperties ==
  ASSUME clock \in Nat, NEW r \in JobStates, NEW q, q = Normalized(r)
  PROVE  /\ Like(r, q, clock)
         /\ r.enabled => q.next = r.next
<1>1. Fields(r) /\ Stuck \in Nat
  BY StateFields, Numbers
<1>2. CASE ~r.enabled
  <2>1. q = [r EXCEPT !.next = 0, !.running = 0]
    BY <1>2 DEF Normalized
  <2>2. /\ q \in JobStates /\ q.enabled = r.enabled /\ q.deleteAfterRun = r.deleteAfterRun
        /\ q.lastRun = r.lastRun /\ q.lastStatus = r.lastStatus /\ q.running = 0
    <3>1. PICK p : p = [r EXCEPT !.next = 0]
      OBVIOUS
    <3>2. q = [p EXCEPT !.running = 0]
      BY <2>1, <3>1
    <3>3. p \in JobStates /\ p.enabled = r.enabled /\ p.deleteAfterRun = r.deleteAfterRun
          /\ p.lastRun = r.lastRun /\ p.lastStatus = r.lastStatus
      BY <3>1, SetNext
    <3> QED BY <3>2, <3>3, SetRunning
  <2> QED BY <1>2, <2>2 DEF Like, Guarded
<1>3. CASE r.enabled /\ r.running # 0 /\ clock > r.running + Stuck
  <2>1. q = [r EXCEPT !.running = 0]
    BY <1>3 DEF Normalized
  <2>2. /\ q \in JobStates /\ q.enabled = r.enabled /\ q.deleteAfterRun = r.deleteAfterRun
        /\ q.lastRun = r.lastRun /\ q.lastStatus = r.lastStatus /\ q.running = 0
        /\ q.next = r.next
    BY <2>1, SetRunning
  <2>3. ~(clock <= r.running + Stuck)
    BY <1>1, <1>3 DEF Fields
  <2> QED BY <2>2, <2>3 DEF Like
<1>4. CASE r.enabled /\ ~(r.running # 0 /\ clock > r.running + Stuck)
  BY <1>1, <1>4 DEF Normalized, Like
<1> QED BY <1>2, <1>3, <1>4

(* computeJobNextRunAtMs *)
LEMMA NextRunProperties ==
  ASSUME NEW j \in Jobs, NEW r \in JobStates, NEW now \in Nat, r.lastRun <= now,
         NEW n, n = NextRun(j, r, now)
  PROVE  /\ n \in Nat
         /\ r.enabled /\ n = 0 => j \in OneShots /\ ~NotDone(j, r)
         /\ r.enabled /\ n # 0 => /\ r.lastRun < n \/ (j \in OneShots /\ n = At[j])
                                  /\ j \in OneShots => NotDone(j, r) /\ n = At[j]
<1>1. Fields(r)
  BY StateFields
<1>2. CASE ~r.enabled
  BY <1>2 DEF NextRun
<1>3. CASE r.enabled /\ Recurs(j)
  BY <1>1, <1>3 DEF NextRun, Recurs, Fields
<1>4. CASE r.enabled /\ ~Recurs(j)
  <2>1. j \in OneShots /\ At[j] \in Nat \ {0}
    BY <1>4, JobsAssumption DEF Recurs
  <2> QED BY <1>1, <1>4, <2>1 DEF NextRun, Recurs, NotDone, Fields
<1> QED BY <1>2, <1>3, <1>4

LEMMA RecomputedProperties ==
  ASSUME NEW j \in Jobs, NEW r \in JobStates, clock \in Nat, r.lastRun <= clock,
         NEW q, q = Recomputed(j, r), NEW n, n = NextRun(j, r, clock), NEW off
  PROVE  /\ Sane(j, q, clock, off) /\ q.next = n
         /\ q.enabled = r.enabled /\ q.running = r.running
         /\ q.deleteAfterRun = r.deleteAfterRun
         /\ q.lastRun = r.lastRun /\ q.lastStatus = r.lastStatus
<1>2. /\ n \in Nat
      /\ r.enabled /\ n = 0 => j \in OneShots /\ ~NotDone(j, r)
      /\ r.enabled /\ n # 0 => /\ r.lastRun < n \/ (j \in OneShots /\ n = At[j])
                               /\ j \in OneShots => NotDone(j, r)
  BY NextRunProperties
<1>3. /\ q \in JobStates /\ q.next = n /\ q.enabled = r.enabled /\ q.running = r.running
      /\ q.deleteAfterRun = r.deleteAfterRun
      /\ q.lastRun = r.lastRun /\ q.lastStatus = r.lastStatus
  BY <1>2, SetNext DEF Recomputed
<1>4. NotDone(j, q) <=> NotDone(j, r)
  BY <1>3 DEF NotDone
<1> QED BY <1>2, <1>3, <1>4 DEF Sane

LEMMA SaneLike ==
  ASSUME NEW j \in Jobs, NEW r, NEW q, NEW now, NEW off, Sane(j, r, now, off), Like(r, q, now),
         r.enabled => q.next = r.next
  PROVE  Sane(j, q, now, off)
BY DEF Sane, Like, NotDone

(* What a maintenance makes of a record. *)
LEMMA MaintainedRecord ==
  ASSUME clock \in Nat, NEW j \in Jobs, NEW r, NEW off, Sane(j, r, clock, off),
         NEW e \in BOOLEAN, NEW n, n = Normalized(r),
         NEW q, q = IF n.enabled /\ (n.next = 0 \/ (e /\ SlotExecuted(j, n)))
                    THEN Recomputed(j, n) ELSE n
  PROVE  /\ Like(r, q, clock) /\ Sane(j, q, clock, off)
         /\ r.enabled /\ ~e => q.next = r.next
         /\ Due(r, clock) => q.next <= r.next
<1>1. Like(r, n, clock) /\ (r.enabled => n.next = r.next) /\ r \in JobStates
  BY NormalizedProperties DEF Sane
<1>2. Sane(j, n, clock, off)
  BY <1>1, SaneLike
<1>3. Fields(n) /\ Fields(r) /\ n.lastRun <= clock /\ n \in JobStates
  BY <1>1, <1>2, StateFields DEF Sane
<1>4. CASE q = n
  BY <1>1, <1>2, <1>3, <1>4 DEF Due, Fields
<1>5. CASE n.enabled /\ n.next = 0 /\ q = Recomputed(j, n)
  <2>1. PICK m : m = NextRun(j, n, clock)
    OBVIOUS
  <2>2. /\ Sane(j, q, clock, off) /\ q.next = m
        /\ q.enabled = n.enabled /\ q.running = n.running /\ q.deleteAfterRun = n.deleteAfterRun
        /\ q.lastRun = n.lastRun /\ q.lastStatus = n.lastStatus
    <3>1. q = Recomputed(j, n)
      BY <1>5
    <3>2. n \in JobStates /\ n.lastRun <= clock
      BY <1>3
    <3> QED BY ONLY clock \in Nat, j \in Jobs, <2>1, <3>1, <3>2, RecomputedProperties
  <2>3. m = 0
    <3>1. j \in OneShots /\ ~NotDone(j, n)
      BY <1>2, <1>5 DEF Sane
    <3> QED BY <1>3, <1>5, <2>1, <3>1, NextRunProperties
  <2>4. q \in JobStates
    BY <2>2 DEF Sane
  <2> QED BY <1>1, <1>5, <2>2, <2>3, <2>4 DEF Like, Due
<1>6. CASE n.enabled /\ n.next # 0 /\ e /\ SlotExecuted(j, n) /\ q = Recomputed(j, n)
  <2>1. PICK m : m = NextRun(j, n, clock)
    OBVIOUS
  <2>2. /\ Sane(j, q, clock, off) /\ q.next = m
        /\ q.enabled = n.enabled /\ q.running = n.running /\ q.deleteAfterRun = n.deleteAfterRun
        /\ q.lastRun = n.lastRun /\ q.lastStatus = n.lastStatus
    <3>1. q = Recomputed(j, n)
      BY <1>6
    <3>2. n \in JobStates /\ n.lastRun <= clock
      BY <1>3
    <3> QED BY ONLY clock \in Nat, j \in Jobs, <2>1, <3>1, <3>2, RecomputedProperties
  <2>3. j \in OneShots /\ n.next = At[j]
    BY <1>2, <1>3, <1>6 DEF Sane, SlotExecuted, Fields
  <2>4. m \in {0, At[j]}
    BY <1>3, <1>6, <2>1, <2>3, NextRunProperties
  <2>5. q \in JobStates /\ Like(r, q, clock)
    BY <1>1, <2>2 DEF Sane, Like
  <2>6. q.next <= r.next
    BY <1>1, <1>3, <1>6, <2>2, <2>3, <2>4 DEF Fields, Like
  <2> QED BY <1>6, <2>2, <2>5, <2>6
<1> QED BY <1>4, <1>5, <1>6

(* What recomputeNextRuns makes of a record. *)
LEMMA RecomputeRecord ==
  ASSUME clock \in Nat, NEW j \in Jobs, NEW r, NEW off, Sane(j, r, clock, off),
         NEW n, n = Normalized(r),
         NEW q, q = IF n.enabled /\ n.next <= clock THEN Recomputed(j, n) ELSE n
  PROVE  Like(r, q, clock) /\ Sane(j, q, clock, off)
<1>1. Like(r, n, clock) /\ (r.enabled => n.next = r.next) /\ r \in JobStates
  BY NormalizedProperties DEF Sane
<1>2. Sane(j, n, clock, off)
  BY <1>1, SaneLike
<1>3. n.lastRun <= clock /\ n \in JobStates
  BY <1>2 DEF Sane
<1>4. CASE q = n
  BY <1>1, <1>2, <1>4
<1>5. CASE q = Recomputed(j, n)
  <2>1. /\ Sane(j, q, clock, off)
        /\ q.enabled = n.enabled /\ q.running = n.running /\ q.deleteAfterRun = n.deleteAfterRun
        /\ q.lastRun = n.lastRun /\ q.lastStatus = n.lastStatus
    BY <1>3, <1>5, RecomputedProperties
  <2> QED BY <1>1, <2>1 DEF Like, Sane
<1> QED BY <1>4, <1>5

(* applyJobResult *)
LEMMA ApplyRecord ==
  ASSUME clock \in Nat, NEW j \in Jobs, NEW r, NEW off, Sane(j, r, clock, off),
         NEW run \in Runs, ~Running(run), run.startedAt <= clock, run.startedAt <= run.endedAt,
         NEW q, q = ApplyJobResult(j, r, run)
  PROVE  q.running = 0 /\ Sane(j, q, clock, off)
<1> DEFINE failed == run.status \in {"transient", "permanent"}
           errs == IF failed THEN (IF r.errors > MaxAttempts THEN r.errors ELSE r.errors + 1)
                   ELSE 0
           status == IF failed THEN "error" ELSE run.status
           delay == run.endedAt + (IF failed THEN Backoff ELSE 1)
<1>1. /\ Fields(r) /\ Backoff \in Nat \ {0} /\ MaxAttempts \in Nat
      /\ run.startedAt \in Nat /\ run.endedAt \in Nat /\ run.status \in Outcomes
  BY Numbers, StateFields DEF Sane, Runs, Running
<1>2. errs \in 0..(MaxAttempts + 1)
  BY <1>1 DEF Fields
<1>3. status \in {"none", "ok", "skipped", "error"} /\ (failed => status = "error")
  BY <1>1 DEF Outcomes
<1>4. delay \in Nat /\ delay > run.startedAt
  BY <1>1
<1>5. PICK s : s = [r EXCEPT !.running = 0, !.lastRun = run.startedAt, !.errors = errs,
                             !.lastStatus = status]
  OBVIOUS
<1> HIDE DEF errs, status, delay
<1>6. /\ s \in JobStates /\ s.running = 0 /\ s.lastRun = run.startedAt /\ s.lastStatus = status
      /\ s.enabled = r.enabled
  BY <1>1, <1>2, <1>3, <1>5 DEF JobStates, Fields
<1>7. q = IF Recurs(j) THEN [s EXCEPT !.next = IF s.enabled THEN delay ELSE 0]
          ELSE IF run.status = "transient" /\ errs <= MaxAttempts
          THEN [s EXCEPT !.next = run.endedAt + Backoff]
          ELSE [s EXCEPT !.enabled = FALSE, !.next = 0]
  BY <1>5 DEF ApplyJobResult, errs, status, delay
<1>8. CASE Recurs(j)
  <2>1. PICK n \in Nat : n = IF s.enabled THEN delay ELSE 0
    BY <1>4
  <2>2. /\ q \in JobStates /\ q.next = n /\ q.enabled = s.enabled /\ q.running = s.running
        /\ q.lastRun = s.lastRun /\ q.lastStatus = s.lastStatus
    BY <1>6, <1>7, <1>8, <2>1, SetNext
  <2> QED BY <1>1, <1>4, <1>6, <1>8, <2>1, <2>2 DEF Sane, Recurs
<1>9. CASE ~Recurs(j) /\ run.status = "transient" /\ errs <= MaxAttempts
  <2>1. PICK n \in Nat : n = run.endedAt + Backoff /\ n > run.startedAt
    BY <1>1
  <2>2. /\ q \in JobStates /\ q.next = n /\ q.enabled = s.enabled /\ q.running = s.running
        /\ q.lastRun = s.lastRun /\ q.lastStatus = s.lastStatus
    BY <1>6, <1>7, <1>9, <2>1, SetNext
  <2>3. q.lastStatus = "error"
    BY <1>3, <1>6, <1>9, <2>2
  <2>4. n # 0
    BY <1>1, <2>1
  <2> QED BY <1>1, <1>6, <2>1, <2>2, <2>3, <2>4 DEF Sane, NotDone
<1>10. CASE ~Recurs(j) /\ ~(run.status = "transient" /\ errs <= MaxAttempts)
  <2>1. PICK p : p = [s EXCEPT !.enabled = FALSE]
    OBVIOUS
  <2>2. /\ p \in JobStates /\ ~p.enabled /\ p.running = 0 /\ p.lastRun = s.lastRun
    BY <1>6, <2>1, SetEnabled
  <2>3. q = [p EXCEPT !.next = 0]
    BY <1>7, <1>10, <2>1
  <2>4. q \in JobStates /\ ~q.enabled /\ q.running = 0 /\ q.lastRun = s.lastRun
    BY <2>2, <2>3, SetNext
  <2> QED BY <1>6, <2>4 DEF Sane
<1> QED BY <1>8, <1>9, <1>10

-----------------------------------------------------------------------------
(* Stores *)

(* A store a maintenance leaves. *)
KeepsJob(r, q, now) ==
  /\ r = Absent => q = Absent
  /\ r # Absent => q # Absent /\ Like(r, q, now)
Keeps(old, new, now) == \A j \in Jobs : KeepsJob(old[j], new[j], now)

LEMMA SaneStoreIs ==
  ASSUME NEW store, NEW now, NEW off, DOMAIN store = Jobs,
         store = [j \in Jobs |-> store[j]],
         \A j \in Jobs : store[j] = Absent \/ Sane(j, store[j], now, off)
  PROVE  SaneStore(store, now, off)
<1>1. \A j \in Jobs : store[j] \in JobStates \cup {Absent}
  BY DEF Sane
<1> QED BY <1>1 DEF SaneStore, Stores

(* recomputeNextRunsForMaintenance *)
LEMMA MaintainedStore ==
  ASSUME clock \in Nat, NEW store, NEW off, SaneStore(store, clock, off), NEW e \in BOOLEAN,
         NEW kept, kept = Maintained(store, e)
  PROVE  /\ SaneStore(kept, clock, off) /\ Keeps(store, kept, clock)
         /\ \A j \in Jobs : store[j] # Absent =>
              /\ store[j].enabled /\ ~e => kept[j].next = store[j].next
              /\ Due(store[j], clock) => kept[j].next <= store[j].next
<1>1. ASSUME NEW j \in Jobs
      PROVE  /\ store[j] = Absent => kept[j] = Absent
             /\ store[j] # Absent =>
                  /\ kept[j] # Absent
                  /\ Like(store[j], kept[j], clock) /\ Sane(j, kept[j], clock, off)
                  /\ store[j].enabled /\ ~e => kept[j].next = store[j].next
                  /\ Due(store[j], clock) => kept[j].next <= store[j].next
  <2>1. PICK r : r = store[j]
    OBVIOUS
  <2>2. PICK n : n = Normalized(r)
    OBVIOUS
  <2>3. CASE r = Absent
    BY <2>1, <2>3 DEF Maintained, Present
  <2>4. CASE r # Absent
    <3>1. PICK q : q = IF n.enabled /\ (n.next = 0 \/ (e /\ SlotExecuted(j, n)))
                       THEN Recomputed(j, n) ELSE n
      OBVIOUS
    <3>2. kept[j] = q
      BY <2>1, <2>2, <2>4, <3>1 DEF Maintained, Present
    <3>3. Sane(j, r, clock, off)
      BY <2>1, <2>4 DEF SaneStore
    <3>4. /\ Like(r, q, clock) /\ Sane(j, q, clock, off)
          /\ r.enabled /\ ~e => q.next = r.next
          /\ Due(r, clock) => q.next <= r.next
      BY ONLY clock \in Nat, j \in Jobs, e \in BOOLEAN, <2>2, <3>1, <3>3, MaintainedRecord
    <3>5. q # Absent
      BY <3>4, AbsentIsNoState DEF Sane
    <3> QED BY <2>1, <2>4, <3>2, <3>4, <3>5
  <2> QED BY <2>3, <2>4
<1>2. DOMAIN kept = Jobs /\ kept = [j \in Jobs |-> kept[j]]
  BY DEF Maintained
<1>3. SaneStore(kept, clock, off)
  BY <1>1, <1>2, SaneStoreIs
<1> QED BY <1>1, <1>3 DEF Keeps, KeepsJob

(* recomputeNextRuns *)
LEMMA RecomputedStore ==
  ASSUME clock \in Nat, NEW store, NEW off, SaneStore(store, clock, off),
         NEW kept, kept = RecomputeNextRuns(store)
  PROVE  SaneStore(kept, clock, off) /\ Keeps(store, kept, clock)
<1>1. ASSUME NEW j \in Jobs
      PROVE  /\ store[j] = Absent => kept[j] = Absent
             /\ store[j] # Absent =>
                  /\ kept[j] # Absent
                  /\ Like(store[j], kept[j], clock) /\ Sane(j, kept[j], clock, off)
  <2>1. PICK r : r = store[j]
    OBVIOUS
  <2>2. PICK n : n = Normalized(r)
    OBVIOUS
  <2>3. CASE r = Absent
    BY <2>1, <2>3 DEF RecomputeNextRuns, Present
  <2>4. CASE r # Absent
    <3>1. PICK q : q = IF n.enabled /\ n.next <= clock THEN Recomputed(j, n) ELSE n
      OBVIOUS
    <3>2. kept[j] = q
      BY <2>1, <2>2, <2>4, <3>1 DEF RecomputeNextRuns, Present
    <3>3. Sane(j, r, clock, off)
      BY <2>1, <2>4 DEF SaneStore
    <3>4. Like(r, q, clock) /\ Sane(j, q, clock, off)
      BY ONLY clock \in Nat, j \in Jobs, <2>2, <3>1, <3>3, RecomputeRecord
    <3>5. q # Absent
      BY <3>4, AbsentIsNoState DEF Sane
    <3> QED BY <2>1, <2>4, <3>2, <3>4, <3>5
  <2> QED BY <2>3, <2>4
<1>2. DOMAIN kept = Jobs /\ kept = [j \in Jobs |-> kept[j]]
  BY DEF RecomputeNextRuns
<1>3. SaneStore(kept, clock, off)
  BY <1>1, <1>2, SaneStoreIs
<1> QED BY <1>1, <1>3 DEF Keeps, KeepsJob

(* The marker set on jobs. *)
LEMMA MarkedStore ==
  ASSUME clock \in Nat, NEW store, NEW off, SaneStore(store, clock, off),
         NEW js \in SUBSET Jobs, \A j \in js : store[j] # Absent,
         NEW marked, marked = Marked(store, js)
  PROVE  /\ SaneStore(marked, clock, off)
         /\ \A j \in Jobs : marked[j] = Absent <=> store[j] = Absent
         /\ \A j \in Jobs \ js : marked[j] = store[j]
         /\ \A j \in js : /\ marked[j].running = clock /\ marked[j].next = store[j].next
                          /\ marked[j].enabled = store[j].enabled
                          /\ NotDone(j, marked[j]) <=> NotDone(j, store[j])
<1>1. ASSUME NEW j \in js
      PROVE  /\ marked[j] # Absent /\ Sane(j, marked[j], clock, off)
             /\ marked[j].running = clock /\ marked[j].next = store[j].next
             /\ marked[j].enabled = store[j].enabled
             /\ NotDone(j, marked[j]) <=> NotDone(j, store[j])
  <2>1. PICK r : r = store[j]
    OBVIOUS
  <2>2. PICK q : q = [r EXCEPT !.running = clock]
    OBVIOUS
  <2>3. marked[j] = q /\ j \in Jobs
    BY <2>1, <2>2 DEF Marked
  <2>4. Sane(j, r, clock, off) /\ r \in JobStates
    BY <2>1, <2>3 DEF SaneStore, Sane
  <2>5. /\ q \in JobStates /\ q.running = clock /\ q.enabled = r.enabled /\ q.next = r.next
        /\ q.lastRun = r.lastRun /\ q.lastStatus = r.lastStatus
    BY ONLY clock \in Nat, <2>2, <2>4, SetRunning
  <2>6. NotDone(j, q) <=> NotDone(j, r)
    BY <2>5 DEF NotDone
  <2>7. Sane(j, q, clock, off) /\ q # Absent
    BY <2>4, <2>5, <2>6, AbsentIsNoState DEF Sane
  <2> QED BY <2>1, <2>3, <2>5, <2>6, <2>7
<1>2. \A j \in Jobs \ js : marked[j] = store[j]
  BY DEF Marked
<1>3. DOMAIN marked = Jobs /\ marked = [j \in Jobs |-> marked[j]]
  BY DEF Marked
<1>4. \A j \in Jobs : marked[j] = Absent \/ Sane(j, marked[j], clock, off)
  BY <1>1, <1>2 DEF SaneStore
<1>5. SaneStore(marked, clock, off)
  BY <1>3, <1>4, SaneStoreIs
<1> QED BY <1>1, <1>2, <1>5

(* A store with the record of one job replaced. *)
Replace(store, j, r) == [store EXCEPT ![j] = r]

LEMMA ReplacedStore ==
  ASSUME NEW store, NEW now, NEW off, SaneStore(store, now, off), NEW j \in Jobs,
         NEW r, r = Absent \/ Sane(j, r, now, off), NEW new, new = Replace(store, j, r)
  PROVE  /\ SaneStore(new, now, off) /\ new[j] = r
         /\ \A i \in Jobs \ {j} : new[i] = store[i]
<1>1. store = [i \in Jobs |-> store[i]] /\ DOMAIN store = Jobs
  BY DEF SaneStore, Stores
<1>2. /\ new = [i \in Jobs |-> new[i]] /\ DOMAIN new = Jobs /\ new[j] = r
      /\ \A i \in Jobs \ {j} : new[i] = store[i]
  BY <1>1 DEF Replace
<1>3. \A i \in Jobs : new[i] = Absent \/ Sane(i, new[i], now, off)
  BY <1>2 DEF SaneStore
<1> QED BY <1>2, <1>3, SaneStoreIs

(* applyOutcomeToStoredJob *)
Ended(run, now) ==
  run \in Runs /\ ~Running(run) /\ run.startedAt <= now /\ run.startedAt <= run.endedAt
Cleared(r) == r = Absent \/ r.running = 0

LEMMA ApplyOutcomeStore ==
  ASSUME clock \in Nat, NEW store, NEW off, SaneStore(store, clock, off),
         NEW run, Ended(run, clock), NEW new, new = ApplyOutcome(store, run)
  PROVE  /\ SaneStore(new, clock, off) /\ run.job \in Jobs /\ Cleared(new[run.job])
         /\ store[run.job] = Absent => new[run.job] = Absent
         /\ \A i \in Jobs \ {run.job} : new[i] = store[i]
<1>1. PICK j \in Jobs : j = run.job
  BY DEF Ended, Runs
<1>2. CASE store[j] = Absent
  BY <1>1, <1>2 DEF ApplyOutcome, Present, Cleared
<1>3. CASE store[j] # Absent /\ store[j].deleteAfterRun /\ run.status = "ok"
  <2>1. new = Replace(store, j, Absent)
    BY <1>1, <1>3 DEF ApplyOutcome, Present, Replace
  <2>2. SaneStore(new, clock, off) /\ new[j] = Absent /\ \A i \in Jobs \ {j} : new[i] = store[i]
    BY <2>1, ReplacedStore
  <2> QED BY <1>1, <2>2 DEF Cleared
<1>4. CASE store[j] # Absent /\ ~(store[j].deleteAfterRun /\ run.status = "ok")
  <2>1. PICK r : r = store[j]
    OBVIOUS
  <2>2. PICK q : q = ApplyJobResult(j, r, run)
    OBVIOUS
  <2>3. new = Replace(store, j, q)
    BY <1>1, <1>4, <2>1, <2>2 DEF ApplyOutcome, Present, Replace
  <2>4. Sane(j, r, clock, off)
    BY <1>4, <2>1 DEF SaneStore
  <2>5. q.running = 0 /\ Sane(j, q, clock, off)
    BY <2>2, <2>4, ApplyRecord DEF Ended
  <2>6. SaneStore(new, clock, off) /\ new[j] = q /\ \A i \in Jobs \ {j} : new[i] = store[i]
    BY <2>3, <2>5, ReplacedStore
  <2> QED BY <1>1, <1>4, <2>5, <2>6 DEF Cleared
<1> QED BY <1>2, <1>3, <1>4

LEMMA ApplyOutcomesStore ==
  ASSUME clock \in Nat, NEW store, NEW off, SaneStore(store, clock, off),
         NEW results, \A r \in results : Ended(r, clock),
         NEW new, new = ApplyOutcomes(store, results)
  PROVE  /\ SaneStore(new, clock, off)
         /\ \A j \in Jobs : store[j] = Absent => new[j] = Absent
         /\ \A r \in results : Cleared(new[r.job])
         /\ \A j \in Jobs : (~\E r \in results : r.job = j) => new[j] = store[j]
<1>1. ASSUME NEW j \in Jobs, \E r \in results : r.job = j
      PROVE  /\ new[j] = Absent \/ Sane(j, new[j], clock, off)
             /\ Cleared(new[j]) /\ (store[j] = Absent => new[j] = Absent)
  <2>1. PICK run : run = CHOOSE r \in results : r.job = j
    OBVIOUS
  <2>2. run \in results /\ run.job = j
    BY <1>1, <2>1
  <2>3. PICK q : q = ApplyOutcome(store, run)
    OBVIOUS
  <2>4. new[j] = q[j]
    BY <1>1, <2>1, <2>3 DEF ApplyOutcomes
  <2>5. SaneStore(q, clock, off) /\ Cleared(q[j]) /\ (store[j] = Absent => q[j] = Absent)
    BY <2>2, <2>3, ApplyOutcomeStore
  <2> QED BY <2>4, <2>5 DEF SaneStore
<1>2. \A j \in Jobs : (~\E r \in results : r.job = j) => new[j] = store[j]
  BY DEF ApplyOutcomes
<1>3. DOMAIN new = Jobs /\ new = [j \in Jobs |-> new[j]]
  BY DEF ApplyOutcomes
<1>4. \A j \in Jobs : new[j] = Absent \/ Sane(j, new[j], clock, off)
  BY <1>1, <1>2 DEF SaneStore
<1>5. SaneStore(new, clock, off)
  BY <1>3, <1>4, SaneStoreIs
<1>6. \A r \in results : r.job \in Jobs
  BY DEF Ended, Runs
<1> QED BY <1>1, <1>2, <1>5, <1>6

(* A new job, and a patched one. *)
LEMMA NewJobSane ==
  ASSUME clock \in Nat, NEW j \in Jobs, NEW delete \in BOOLEAN, NEW off,
         NEW q, q = NewJob(j, delete)
  PROVE  Sane(j, q, clock, off) /\ q.running = 0
<1>1. PICK r : r = [enabled |-> TRUE, deleteAfterRun |-> delete, next |-> 0, running |-> 0,
                    lastRun |-> 0, lastStatus |-> "none", errors |-> 0]
  OBVIOUS
<1>2. r \in JobStates /\ r.lastRun = 0 /\ r.running = 0 /\ r.enabled /\ r.lastStatus = "none"
  BY <1>1, Numbers DEF JobStates
<1>3. PICK n : n = NextRun(j, r, 0)
  OBVIOUS
<1>4. /\ n \in Nat
      /\ r.enabled /\ n = 0 => j \in OneShots /\ ~NotDone(j, r)
      /\ r.enabled /\ n # 0 => r.lastRun < n \/ (j \in OneShots /\ n = At[j])
  BY <1>2, <1>3, NextRunProperties
<1>5. q = [r EXCEPT !.next = n]
  BY <1>1, <1>3 DEF NewJob
<1>6. /\ q \in JobStates /\ q.next = n /\ q.enabled = r.enabled /\ q.running = r.running
      /\ q.lastRun = r.lastRun /\ q.lastStatus = r.lastStatus
  BY <1>2, <1>4, <1>5, SetNext
<1> QED BY <1>2, <1>4, <1>6 DEF Sane, NotDone

LEMMA PatchedSane ==
  ASSUME clock \in Nat, NEW j \in Jobs, NEW r, NEW off, Sane(j, r, clock, off),
         NEW patch \in {"enable", "disable", "other"}, NEW q, q = Patched(j, r, patch)
  PROVE  /\ Sane(j, q, clock, off)
         /\ q.running \in {0, r.running}
         /\ patch # "disable" =>
              /\ q.running = r.running /\ (r.enabled => q.enabled)
              /\ NotDone(j, q) <=> NotDone(j, r)
<1>1. r \in JobStates /\ Fields(r) /\ r.lastRun <= clock
  BY StateFields DEF Sane
<1>2. CASE patch = "enable"
  <2>1. PICK s : s = [r EXCEPT !.enabled = TRUE]
    OBVIOUS
  <2>2. /\ s \in JobStates /\ s.enabled /\ s.running = r.running
        /\ s.lastRun = r.lastRun /\ s.lastStatus = r.lastStatus
    BY <1>1, <2>1, SetEnabled
  <2>3. q = Recomputed(j, s)
    BY <1>2, <2>1 DEF Patched
  <2>4. /\ Sane(j, q, clock, off) /\ q.enabled = s.enabled /\ q.running = s.running
        /\ q.lastRun = s.lastRun /\ q.lastStatus = s.lastStatus
    BY ONLY clock \in Nat, j \in Jobs, <1>1, <2>2, <2>3, RecomputedProperties
  <2> QED BY <2>2, <2>4 DEF NotDone
<1>3. CASE patch = "disable"
  <2>1. q = [r EXCEPT !.enabled = FALSE, !.next = 0, !.running = 0]
    BY <1>3 DEF Patched
  <2>2. PICK s : s = [r EXCEPT !.enabled = FALSE]
    OBVIOUS
  <2>3. s \in JobStates /\ ~s.enabled /\ s.lastRun = r.lastRun
    BY <1>1, <2>2, SetEnabled
  <2>4. PICK t : t = [s EXCEPT !.next = 0]
    OBVIOUS
  <2>5. t \in JobStates /\ ~t.enabled /\ t.lastRun = r.lastRun
    BY <2>3, <2>4, SetNext
  <2>6. q = [t EXCEPT !.running = 0]
    BY <2>1, <2>2, <2>4
  <2>7. q \in JobStates /\ ~q.enabled /\ q.lastRun = r.lastRun /\ q.running = 0
    BY <2>5, <2>6, SetRunning
  <2> QED BY <1>1, <1>3, <2>7 DEF Sane
<1>4. CASE patch = "other"
  <2>1. q = IF r.enabled /\ r.next = 0 THEN Recomputed(j, r) ELSE r
    BY <1>4 DEF Patched
  <2>2. CASE q = r
    BY <1>4, <2>2
  <2>3. CASE q = Recomputed(j, r)
    <3>1. /\ Sane(j, q, clock, off) /\ q.enabled = r.enabled /\ q.running = r.running
          /\ q.lastRun = r.lastRun /\ q.lastStatus = r.lastStatus
      BY ONLY clock \in Nat, j \in Jobs, <1>1, <2>3, RecomputedProperties
    <3> QED BY <1>4, <3>1 DEF NotDone
  <2> QED BY <2>1, <2>2, <2>3
<1> QED BY <1>2, <1>3, <1>4

-----------------------------------------------------------------------------
(* Claims and markers *)

LEMMA UnclaimedIsFree ==
  ASSUME NEW j, NEW r, NEW rs, NEW td, NEW off, ~Claimed(j, rs, td)
  PROVE  Guard(j, r, rs, td, off) /\ \A by \in By : j \notin Batch(by, rs, td)
BY DEF Claimed, Guard, Batch, Started, Of

(* The marker of an enabled job that normalizeJobTickState takes for stuck. *)
Old(r) == Guarded(r) /\ clock > r.running + Stuck

(* A maintenance of the store that records the jobs whose marker it clears. *)
Frees(store) ==
  /\ released \subseteq released' /\ released' \subseteq Jobs
  /\ \A j \in Jobs : store[j] # Absent /\ Old(store[j]) => j \in released'

LEMMA StuckFreed ==
  ASSUME IInv, NEW store, released' = released \cup StuckIn(store)
  PROVE  Frees(store)
<1>1. released \subseteq Jobs
  BY DEF IInv, ControlInv, StateOK
<1> QED BY <1>1 DEF Frees, StuckIn, Old, Guarded, Present

(* A maintenance keeps the marker of a claimed job that is not stuck. *)
LEMMA GuardKept ==
  ASSUME clock \in Nat, NEW j, NEW r, r = Absent \/ r \in JobStates, NEW q,
         KeepsJob(r, q, clock), r # Absent => ~Old(r), NEW rs, NEW td, NEW off,
         Guard(j, r, rs, td, off)
  PROVE  Guard(j, q, rs, td, off)
<1>1. CASE r = Absent
  BY <1>1 DEF KeepsJob, Guard
<1>2. CASE ~Claimed(j, rs, td)
  BY <1>2, UnclaimedIsFree
<1>3. CASE r # Absent /\ Claimed(j, rs, td)
  <2>1. Guarded(r) /\ r.running \in Nat /\ Stuck \in Nat
    BY <1>3, StateFields, Numbers DEF Guard, Fields
  <2>2. clock <= r.running + Stuck
    BY <1>3, <2>1 DEF Old
  <2>3. /\ q.running = r.running /\ q.enabled = r.enabled
        /\ q.lastRun = r.lastRun /\ q.lastStatus = r.lastStatus
    BY <1>3, <2>1, <2>2 DEF KeepsJob, Like
  <2>4. Guarded(q) /\ (NotDone(j, q) <=> NotDone(j, r))
    BY <2>1, <2>3 DEF Guarded, NotDone
  <2> QED BY <1>3, <2>4 DEF Guard
<1> QED BY <1>1, <1>2, <1>3

(* Fewer claims on a job. *)
LEMMA GuardLess ==
  ASSUME NEW j, NEW r, NEW rs, NEW td, NEW rs2, NEW td2, NEW off, NEW off2, off \subseteq off2,
         Claimed(j, rs2, td2) => Claimed(j, rs, td),
         \A by \in By : j \in Batch(by, rs2, td2) => j \in Batch(by, rs, td),
         Guard(j, r, rs, td, off)
  PROVE  Guard(j, r, rs2, td2, off2)
BY DEF Guard

(* Claims that end. *)
Fewer(rs, td, rs2, td2) ==
  /\ \A by \in By : \/ Batch(by, rs2, td2) = {}
                    \/ Of(rs2, by) = Of(rs, by) /\ td2[by] = td[by]
  /\ \A q \in rs2 : q.by = "manual" => q \in rs

LEMMA FewerClaims ==
  ASSUME NEW rs, NEW td, NEW rs2 \in SUBSET Runs, NEW td2, Fewer(rs, td, rs2, td2)
  PROVE  /\ rs2 \subseteq rs /\ \A by \in By : td2[by] \subseteq td[by]
         /\ \A by \in By : Batch(by, rs2, td2) \subseteq Batch(by, rs, td)
         /\ \A j \in Jobs : Claimed(j, rs2, td2) => Claimed(j, rs, td)
         /\ \A j \in Jobs : Exclusive(j, rs, td) => Exclusive(j, rs2, td2)
<1>1. ASSUME NEW q \in rs2 PROVE q \in rs
  <2>1. CASE q.by = "manual"
    BY <2>1 DEF Fewer
  <2>2. CASE q.by \in By
    <3>1. q \in Of(rs2, q.by) /\ q.job \in Batch(q.by, rs2, td2)
      BY DEF Batch, Started, Of
    <3>2. Of(rs2, q.by) = Of(rs, q.by)
      BY <2>2, <3>1 DEF Fewer
    <3> QED BY <3>1, <3>2 DEF Of
  <2> QED BY <2>1, <2>2 DEF Runs
<1>2. ASSUME NEW by \in By PROVE td2[by] \subseteq td[by]
  BY DEF Fewer, Batch
<1>3. \A by \in By : Batch(by, rs2, td2) \subseteq Batch(by, rs, td)
  BY <1>1, <1>2 DEF Batch, Started, Of
<1>4. \A j \in Jobs : Claimed(j, rs2, td2) => Claimed(j, rs, td)
  BY <1>1, <1>2 DEF Claimed
<1>5. ASSUME NEW j \in Jobs, Exclusive(j, rs, td) PROVE Exclusive(j, rs2, td2)
  BY <1>1, <1>2, <1>5 DEF Exclusive
<1> QED BY <1>1, <1>2, <1>3, <1>4, <1>5

LEMMA OwnedKept ==
  ASSUME NEW old, NEW new, NEW now, Keeps(old, new, now), NEW rs, NEW td, Owned(old, rs, td)
  PROVE  Owned(new, rs, td)
BY DEF Keeps, KeepsJob, Like, Owned

-----------------------------------------------------------------------------
(* Steps that write the store *)

(* persist: the memory has the new store, the disk too unless it failed. *)
Writes(store) ==
  /\ mem' = store
  /\ \/ disk' = store /\ failures' = failures
     \/ disk' = disk /\ failures' = failures + 1 /\ MayHappen

LEMMA PersistWrites ==
  ASSUME NEW store, NEW ok, Persist(store, ok) PROVE Writes(store)
BY DEF Persist, Writes

LEMMA PersistIfChangedWrites ==
  ASSUME NEW before, NEW store, NEW ok, PersistIfChanged(before, store, ok)
  PROVE  \/ Writes(store)
         \/ before = store /\ mem' = store /\ disk' = disk /\ failures' = failures
BY PersistWrites DEF PersistIfChanged

LEMMA CountsOK ==
  ASSUME StateOK
  PROVE  /\ requests \in Nat /\ failures \in Nat /\ crashes \in Nat /\ clock \in Nat
         /\ MayHappen => /\ requests + 1 \in 0..MaxEvents /\ failures + 1 \in 0..MaxEvents
                         /\ crashes + 1 \in 0..MaxEvents
BY Numbers DEF StateOK, MayHappen

LEMMA WriteStep ==
  ASSUME IInv, NEW store, Writes(store), clock' = clock, putOff \subseteq putOff',
         SaneStore(store, clock, putOff'), failures' = 0 => Owned(store, runs', todo'),
         \A j \in fresh' : store[j] = Absent /\ disk[j] = Absent /\ ~Claimed(j, runs', todo'),
         \A j \in Jobs \ released' :
           /\ Guard(j, store[j], runs', todo', putOff')
           /\ Guard(j, disk'[j], runs', todo', putOff')
  PROVE  StoresInv'
<1>1. failures \in Nat
  BY CountsOK DEF IInv, ControlInv
<1>2. mem' = store /\ disk' \in {disk, store}
  BY DEF Writes
<1>3. StoresSane'
  <2>1. SaneStore(disk, clock, putOff')
    BY DEF IInv, StoresInv, StoresSane, SaneStore, Sane
  <2> QED BY <1>2, <2>1 DEF StoresSane
<1>4. failures' = 0 => failures = 0 /\ disk' = store
  BY <1>1 DEF Writes
<1>5. StoresAgree'
  BY <1>2, <1>4 DEF StoresAgree, SameSchedule
<1>6. StoresOwned'
  BY <1>2, <1>4 DEF StoresOwned
<1>7. FreshUnknown'
  BY <1>2 DEF FreshUnknown
<1>8. ClaimsGuarded'
  BY <1>2 DEF ClaimsGuarded
<1> QED BY <1>3, <1>5, <1>6, <1>7, <1>8 DEF StoresInv

(* A step that ends claims, or none, and otherwise maintains the store. *)
Carried(j, r, q) ==
  \/ Cleared(q) /\ (r = Absent => q = Absent)
     /\ (~Claimed(j, runs', todo') \/ j \in released)
  \/ KeepsJob(r, q, clock) /\ phase # "boot" /\ (r # Absent /\ Old(r) => j \in released')
     /\ (Claimed(j, runs, todo) => Claimed(j, runs', todo'))

LEMMA FewerStep ==
  ASSUME IInv, NEW base, base = mem \/ base = disk, NEW store, Writes(store), clock' = clock,
         putOff \subseteq putOff', fresh' = fresh, released \subseteq released',
         SaneStore(store, clock, putOff'), runs' \subseteq Runs,
         Fewer(runs, todo, runs', todo'), \A j \in Jobs : Carried(j, base[j], store[j])
  PROVE  StoresInv'
<1>1. clock \in Nat /\ runs \subseteq Runs /\ fresh \subseteq Jobs
  BY CountsOK DEF IInv, ControlInv, StateOK
<1>2. \A j \in Jobs : base[j] = Absent \/ base[j] \in JobStates
  BY DEF IInv, StoresInv, StoresSane, SaneStore, Sane
<1>4. /\ \A j \in Jobs : Claimed(j, runs', todo') => Claimed(j, runs, todo)
      /\ \A by \in By : Batch(by, runs', todo') \subseteq Batch(by, runs, todo)
  BY FewerClaims
<1>5. ASSUME failures' = 0 PROVE Owned(store, runs', todo')
  <2>0. failures = 0
    BY <1>5, CountsOK DEF Writes, IInv, ControlInv
  <2>1. phase # "boot" => Owned(base, runs, todo)
    BY <2>0 DEF IInv, StoresInv, StoresOwned
  <2> SUFFICES ASSUME NEW j \in Jobs, store[j] # Absent, store[j].running # 0
               PROVE  Claimed(j, runs', todo')
    BY DEF Owned
  <2>2. phase # "boot" /\ KeepsJob(base[j], store[j], clock)
        /\ (Claimed(j, runs, todo) => Claimed(j, runs', todo'))
    BY DEF Carried, Cleared
  <2>3. base[j] # Absent /\ base[j].running # 0
    BY <2>2 DEF KeepsJob, Like
  <2> QED BY <2>1, <2>2, <2>3 DEF Owned
<1>6. ASSUME NEW j \in fresh'
      PROVE  store[j] = Absent /\ disk[j] = Absent /\ ~Claimed(j, runs', todo')
  <2>1. j \in Jobs /\ disk[j] = Absent /\ base[j] = Absent /\ ~Claimed(j, runs, todo)
    BY <1>1 DEF IInv, StoresInv, FreshUnknown
  <2>2. store[j] = Absent
    BY <2>1 DEF Carried, KeepsJob
  <2> QED BY <1>4, <2>1, <2>2
<1>7. ASSUME NEW j \in Jobs \ released'
      PROVE  /\ Guard(j, store[j], runs', todo', putOff')
             /\ Guard(j, disk'[j], runs', todo', putOff')
  <2>0. disk' \in {disk, store}
    BY DEF Writes
  <2>1. /\ Guard(j, disk[j], runs, todo, putOff)
        /\ Guard(j, base[j], runs, todo, putOff)
    BY DEF IInv, StoresInv, ClaimsGuarded
  <2>2. Guard(j, disk[j], runs', todo', putOff')
    BY <1>4, <2>1, GuardLess
  <2>3. CASE ~Claimed(j, runs', todo')
    BY <2>3, UnclaimedIsFree
  <2>4. CASE KeepsJob(base[j], store[j], clock) /\ (base[j] # Absent => ~Old(base[j]))
    <3>1. Guard(j, store[j], runs, todo, putOff)
      BY <1>1, <1>2, <2>1, <2>4, GuardKept
    <3>2. Guard(j, store[j], runs', todo', putOff')
      BY <1>4, <3>1, GuardLess
    <3> QED BY <2>0, <2>2, <3>2
  <2> QED BY <2>3, <2>4 DEF Carried
<1> QED BY <1>5, <1>6, <1>7, WriteStep

LEMMA FewerRuns ==
  ASSUME IInv, clock' = clock, released \subseteq released', runs' \subseteq Runs,
         Fewer(runs, todo, runs', todo')
  PROVE  RunsInv'
<1>1. runs' \subseteq runs /\ \A by \in By : todo'[by] \subseteq todo[by]
  BY FewerClaims
<1>2. RunsDistinct'
  BY <1>1 DEF IInv, RunsInv, RunsDistinct, Running
<1>3. RunsInTime'
  BY <1>1 DEF IInv, RunsInv, RunsInTime, Running
<1>4. ClaimsExclusive'
  <2>1. \A j \in Jobs : Exclusive(j, runs, todo) => Exclusive(j, runs', todo')
    BY FewerClaims
  <2> QED BY <2>1 DEF IInv, RunsInv, ClaimsExclusive
<1> QED BY <1>2, <1>3, <1>4 DEF RunsInv

LEMMA FewerSame == ASSUME NEW rs, NEW td PROVE Fewer(rs, td, rs, td)
BY DEF Fewer

LEMMA WritesCount ==
  ASSUME StateOK, NEW store, Writes(store) PROVE failures' \in 0..MaxEvents
BY CountsOK DEF StateOK, Writes

LEMMA SameStores ==
  ASSUME IInv, phase # "boot",
         UNCHANGED <<clock, disk, mem, failures, runs, todo, fresh, putOff>>,
         released \subseteq released'
  PROVE  StoresInv' /\ RunsInv'
<1>1. RunsInv'
  BY DEF IInv, RunsInv, RunsDistinct, RunsInTime, ClaimsExclusive
<1>2. StoresInv'
  BY DEF IInv, StoresInv, StoresSane, StoresAgree, StoresOwned, FreshUnknown, ClaimsGuarded
<1> QED BY <1>1, <1>2

(* The markers of unreleased jobs tell what is claimed. *)
LEMMA FreeJob ==
  ASSUME IInv, NEW j \in Jobs \ released, NEW base, base = mem \/ base = disk,
         base[j] # Absent, base[j].running = 0
  PROVE  ~Claimed(j, runs, todo)
<1>1. PICK r : r = base[j]
  OBVIOUS
<1>2. r \in JobStates /\ Guard(j, r, runs, todo, putOff)
  BY <1>1 DEF IInv, StoresInv, StoresSane, SaneStore, Sane, ClaimsGuarded
<1>3. Claimed(j, runs, todo) => Guarded(r)
  BY <1>2, AbsentIsNoState DEF Guard
<1> QED BY <1>1, <1>3 DEF Guarded

(* A tick or a catch-up marks the jobs it will run. *)
LEMMA MarkStep ==
  ASSUME IInv, NEW by \in By, Batch(by, runs, todo) = {}, NEW base, base = mem \/ base = disk,
         NEW js \in SUBSET Jobs,
         \A j \in js : /\ base[j] # Absent /\ base[j].running = 0 /\ base[j].enabled
                       /\ j \in OneShots \ putOff => NotDone(j, base[j]),
         NEW store, store = Marked(base, js), NEW ok \in BOOLEAN, Persist(store, ok),
         todo' = IF ok THEN [todo EXCEPT ![by] = js] ELSE todo,
         phase # "boot", UNCHANGED <<clock, runs, fresh, released, putOff>>
  PROVE  StoresInv' /\ RunsInv'
<1>1. /\ clock \in Nat /\ clock # 0 /\ runs \subseteq Runs /\ fresh \subseteq Jobs
      /\ todo \in [By -> SUBSET Jobs]
  BY CountsOK DEF IInv, ControlInv, StateOK
<1>2. SaneStore(base, clock, putOff)
  BY DEF IInv, StoresInv, StoresSane
<1>3. /\ SaneStore(store, clock, putOff)
      /\ \A j \in Jobs : store[j] = Absent <=> base[j] = Absent
      /\ \A j \in Jobs \ js : store[j] = base[j]
      /\ \A j \in js : /\ store[j].running = clock /\ store[j].enabled = base[j].enabled
                       /\ NotDone(j, store[j]) <=> NotDone(j, base[j])
  BY <1>1, <1>2, MarkedStore
<1>4. \A j \in js \ released : ~Claimed(j, runs, todo)
  BY FreeJob
<1>5. todo[by] = {} /\ Of(runs, by) = {} /\ Started(by, runs) = {}
  BY DEF Batch, Started
<1>6. /\ \A b \in By \ {by} : todo'[b] = todo[b]
      /\ todo'[by] = IF ok THEN js ELSE {}
  BY <1>1, <1>5
<1>7. Writes(store) /\ (~ok => failures' # 0) /\ (ok => disk' = store)
  BY PersistWrites, CountsOK DEF IInv, ControlInv, Persist
<1>8. \A j \in Jobs \ js : Claimed(j, runs, todo') <=> Claimed(j, runs, todo)
  BY <1>5, <1>6 DEF Claimed
<1>9. StoresInv'
  <2>1. ASSUME failures' = 0 PROVE Owned(store, runs', todo')
    <3>1. ok /\ failures = 0
      BY <1>7, <2>1, CountsOK DEF Writes, IInv, ControlInv
    <3>2. Owned(base, runs, todo)
      BY <3>1 DEF IInv, StoresInv, StoresOwned
    <3>3. \A j \in js : Claimed(j, runs, todo')
      BY <1>6, <3>1 DEF Claimed
    <3> QED BY <1>3, <1>8, <3>2, <3>3 DEF Owned
  <2>2. ASSUME NEW j \in fresh'
        PROVE  store[j] = Absent /\ disk[j] = Absent /\ ~Claimed(j, runs', todo')
    <3>1. j \in Jobs /\ disk[j] = Absent /\ base[j] = Absent /\ ~Claimed(j, runs, todo)
      BY <1>1 DEF IInv, StoresInv, FreshUnknown
    <3> QED BY <1>3, <1>8, <3>1
  <2>3. ASSUME NEW j \in Jobs \ released'
        PROVE  /\ Guard(j, store[j], runs', todo', putOff')
               /\ Guard(j, disk'[j], runs', todo', putOff')
    <3>1. disk' \in {disk, store}
      BY <1>7 DEF Writes
    <3>2. CASE ~Claimed(j, runs', todo')
      BY <3>2, UnclaimedIsFree
    <3>3. CASE j \in js /\ Claimed(j, runs', todo')
      <4>1. ok
        BY <1>4, <1>6, <3>3 DEF Claimed
      <4>2. PICK r : r = store[j]
        OBVIOUS
      <4>3. r.enabled /\ r.running = clock /\ (j \in OneShots \ putOff => NotDone(j, r))
        BY <1>3, <3>3, <4>2
      <4>7. Guard(j, r, runs', todo', putOff')
        BY <1>1, <4>3 DEF Guard, Guarded
      <4> QED BY <1>7, <4>1, <4>2, <4>7
    <3>4. CASE j \notin js
      <4>1. /\ Claimed(j, runs, todo') => Claimed(j, runs, todo)
            /\ \A b \in By : j \in Batch(b, runs, todo') => j \in Batch(b, runs, todo)
        BY <1>6, <3>4 DEF Claimed, Batch
      <4>2. Guard(j, base[j], runs, todo, putOff) /\ Guard(j, disk[j], runs, todo, putOff)
        BY DEF IInv, StoresInv, ClaimsGuarded
      <4>3. /\ Guard(j, base[j], runs, todo', putOff)
            /\ Guard(j, disk[j], runs, todo', putOff)
        BY <4>1, <4>2, GuardLess
      <4> QED BY <1>3, <3>1, <3>4, <4>3
    <3> QED BY <3>2, <3>3, <3>4
  <2>4. /\ clock' = clock /\ putOff \subseteq putOff' /\ SaneStore(store, clock, putOff')
    BY <1>3
  <2> QED BY <1>7, <2>1, <2>2, <2>3, <2>4, WriteStep
<1>10. RunsInv'
  <2>1. RunsDistinct'
    <3>1. \A r \in runs : r.by \in By => r.by # by
      BY <1>5 DEF Of
    <3> QED BY <1>6, <3>1 DEF IInv, RunsInv, RunsDistinct, Running
  <2>2. RunsInTime'
    BY DEF IInv, RunsInv, RunsInTime
  <2>3. ASSUME NEW j \in Jobs \ released' PROVE Exclusive(j, runs', todo')
    <3>1. Exclusive(j, runs, todo)
      BY DEF IInv, RunsInv, ClaimsExclusive
    <3>2. CASE j \in js
      <4>1. (\A r \in runs : r.job # j) /\ \A b \in By : j \notin todo[b]
        BY <1>4, <3>2 DEF Claimed
      <4> QED BY <1>6, <4>1 DEF Exclusive
    <3>3. CASE j \notin js
      BY <1>6, <3>1, <3>3 DEF Exclusive
    <3> QED BY <3>2, <3>3
  <2> QED BY <2>1, <2>2, <2>3 DEF RunsInv, ClaimsExclusive
<1> QED BY <1>9, <1>10

LEMMA KeepsTrans ==
  ASSUME NEW now, NEW r, NEW s, NEW q, KeepsJob(r, s, now), KeepsJob(s, q, now)
  PROVE  KeepsJob(r, q, now) /\ (Cleared(s) => Cleared(q))
BY DEF KeepsJob, Like, Guarded, Cleared

(* The results of a tick or a catch-up are applied, and the store is        *)
(* maintained.                                                              *)
LEMMA EndBatch ==
  ASSUME IInv, NEW by \in By, Idle(by), NEW base, base = mem \/ base = disk, phase # "boot",
         NEW applied, applied = ApplyOutcomes(base, Results(by)),
         NEW store, \A j \in Jobs : KeepsJob(applied[j], store[j], clock), Writes(store),
         SaneStore(store, clock, putOff'), putOff \subseteq putOff',
         runs' = runs \ Results(by), UNCHANGED <<clock, todo, fresh>>, Frees(applied)
  PROVE  StoresInv' /\ RunsInv' /\ runs' \subseteq Runs /\ Batch(by, runs', todo') = {}
<1>1. clock \in Nat /\ runs \subseteq Runs
  BY CountsOK DEF IInv, ControlInv, StateOK
<1>2. SaneStore(base, clock, putOff)
  BY DEF IInv, StoresInv, StoresSane
<1>3. \A r \in Results(by) : Ended(r, clock)
  BY <1>1 DEF Idle, Results, Ended, IInv, RunsInv, RunsInTime
<1>4. /\ \A j \in Jobs : base[j] = Absent => applied[j] = Absent
      /\ \A r \in Results(by) : Cleared(applied[r.job])
      /\ \A j \in Jobs : (~\E r \in Results(by) : r.job = j) => applied[j] = base[j]
  BY <1>1, <1>2, <1>3, ApplyOutcomesStore
<1>5. runs' \subseteq Runs /\ Batch(by, runs', todo') = {}
  BY <1>1 DEF Idle, Results, Batch, Started, Of
<1>6. Fewer(runs, todo, runs', todo')
  <2>1. \A b \in By \ {by} : Of(runs', b) = Of(runs, b)
    BY DEF Of, Results
  <2> QED BY <1>5, <2>1 DEF Fewer
<1>7. ASSUME NEW j \in Jobs PROVE Carried(j, base[j], store[j])
  <2>1. KeepsJob(applied[j], store[j], clock)
    OBVIOUS
  <2>2. CASE \E r \in Results(by) : r.job = j
    <3>1. PICK r \in Results(by) : r.job = j
      BY <2>2
    <3>2. Cleared(applied[j])
      BY <1>4, <3>1
    <3>3. Cleared(store[j])
      BY <2>1, <3>2 DEF KeepsJob, Like, Cleared
    <3>4. base[j] = Absent => store[j] = Absent
      BY <1>4, <2>1 DEF KeepsJob
    <3>5. ASSUME j \notin released PROVE ~Claimed(j, runs', todo')
      <4>1. Exclusive(j, runs, todo) /\ r \in runs
        BY <3>1, <3>5 DEF IInv, RunsInv, ClaimsExclusive, Results
      <4>2. \A q \in runs' : q.job # j
        BY <3>1, <4>1 DEF Exclusive
      <4>3. \A b \in By : j \notin todo[b]
        BY <3>1, <4>1 DEF Exclusive
      <4> QED BY <4>2, <4>3 DEF Claimed
    <3> QED BY <3>3, <3>4, <3>5 DEF Carried
  <2>3. CASE ~\E r \in Results(by) : r.job = j
    <3>1. applied[j] = base[j]
      BY <1>4, <2>3
    <3>2. Claimed(j, runs, todo) => Claimed(j, runs', todo')
      BY <2>3 DEF Claimed
    <3> QED BY <2>1, <3>1, <3>2 DEF Carried, Frees
  <2> QED BY <2>2, <2>3
<1>8. StoresInv'
  BY <1>5, <1>6, <1>7, FewerStep DEF Frees
<1>9. RunsInv'
  BY <1>5, <1>6, FewerRuns DEF Frees
<1> QED BY <1>5, <1>8, <1>9

-----------------------------------------------------------------------------
(* The steps keep the invariant *)

LEMMA BootIdle ==
  ASSUME IInv, phase = "boot"
  PROVE  /\ runs = {} /\ (\A by \in By : todo[by] = {}) /\ manual = NoManual
         /\ \A j \in Jobs : ~Claimed(j, runs, todo)
<1>1. Batch("tick", runs, todo) = {} /\ Batch("startup", runs, todo) = {} /\ manual = NoManual
  BY DEF IInv, ControlInv, BatchesKnown
<1>2. \A by \in By : todo[by] = {} /\ \A r \in runs : r.by # by
  BY <1>1 DEF By, Batch, Started, Of
<1>3. \A r \in runs : r.by # "manual"
  BY <1>1 DEF IInv, ControlInv, ManualExact, NoManual
<1>4. runs = {}
  BY <1>2, <1>3 DEF IInv, ControlInv, StateOK, Runs
<1> QED BY <1>1, <1>2, <1>4 DEF Claimed

LEMMA StartStep ==
  ASSUME IInv, NEW ok \in BOOLEAN, Start(ok) PROVE IInv'
<1>1. PICK marked : marked = {j \in Jobs : Present(disk, j) /\ disk[j].running # 0}
  OBVIOUS
<1>2. PICK store :
        store = [j \in Jobs |-> IF j \in marked THEN [disk[j] EXCEPT !.running = 0] ELSE disk[j]]
  OBVIOUS
<1>3. /\ phase = "boot" /\ PersistIfChanged(disk, store, ok)
      /\ interrupted' = marked \cap OneShots
      /\ phase' = IF ok THEN "plan" ELSE "failed"
      /\ UNCHANGED <<clock, crashes, timer, ticking, todo, deferred, reloaded, manual, runs,
                     fresh, released, putOff, requests>>
  BY <1>1, <1>2 DEF Start, history
<1>4. Writes(store)
  BY <1>3, PersistIfChangedWrites DEF Writes
<1>5. clock \in Nat /\ SaneStore(disk, clock, putOff) /\ runs \subseteq Runs
  BY CountsOK DEF IInv, ControlInv, StateOK, StoresInv, StoresSane
<1>6. ASSUME NEW j \in Jobs
      PROVE  /\ disk[j] = Absent => store[j] = Absent
             /\ disk[j] # Absent => Sane(j, store[j], clock, putOff) /\ store[j].running = 0
  <2>1. CASE disk[j] = Absent
    BY <1>1, <1>2, <2>1 DEF Present
  <2>2. CASE disk[j] # Absent /\ disk[j].running = 0
    BY <1>1, <1>2, <1>5, <2>2 DEF Present, SaneStore
  <2>3. CASE disk[j] # Absent /\ disk[j].running # 0
    <3>1. PICK r : r = disk[j]
      OBVIOUS
    <3>2. PICK q : q = [r EXCEPT !.running = 0]
      OBVIOUS
    <3>3. store[j] = q
      BY <1>1, <1>2, <2>3, <3>1, <3>2 DEF Present
    <3>4. Sane(j, r, clock, putOff) /\ r \in JobStates
      BY <1>5, <2>3, <3>1 DEF SaneStore, Sane
    <3>5. /\ q \in JobStates /\ q.running = 0 /\ q.enabled = r.enabled /\ q.next = r.next
          /\ q.lastRun = r.lastRun /\ q.lastStatus = r.lastStatus
      BY ONLY <3>2, <3>4, SetRunning
    <3>6. Sane(j, q, clock, putOff)
      BY <3>4, <3>5 DEF Sane, NotDone
    <3> QED BY <2>3, <3>3, <3>5, <3>6
  <2> QED BY <2>1, <2>2, <2>3
<1>7. DOMAIN store = Jobs /\ store = [j \in Jobs |-> store[j]]
  BY <1>2
<1>8. SaneStore(store, clock, putOff)
  BY <1>6, <1>7, SaneStoreIs
<1>9. /\ runs' \subseteq Runs /\ Fewer(runs, todo, runs', todo')
      /\ clock' = clock /\ putOff' = putOff /\ released' = released
  BY <1>3, <1>5, FewerSame
<1>10. RunsInv'
  BY <1>9, FewerRuns
<1>11. /\ runs = {} /\ (\A by \in By : todo[by] = {}) /\ manual = NoManual
       /\ \A j \in Jobs : ~Claimed(j, runs, todo)
  BY <1>3, BootIdle
<1>12. \A j \in Jobs : Carried(j, disk[j], store[j])
  BY <1>3, <1>6, <1>11 DEF Carried, Cleared
<1>13. StoresInv'
  BY <1>3, <1>4, <1>8, <1>9, <1>12, FewerStep
<1>14. ControlInv'
  <2>1. StateOK'
    BY <1>3, <1>4, <1>9, WritesCount DEF IInv, ControlInv, StateOK
  <2>2. TimerArmed'
    BY <1>3 DEF TimerArmed
  <2>3. BatchesKnown'
    BY <1>3, <1>11 DEF BatchesKnown, Batch, Started, Of, By
  <2>4. ManualExact'
    BY <1>3 DEF IInv, ControlInv, ManualExact
  <2> QED BY <2>1, <2>2, <2>3, <2>4 DEF ControlInv
<1> QED BY <1>10, <1>13, <1>14 DEF IInv

LEMMA PlanStep ==
  ASSUME IInv, NEW ok \in BOOLEAN, NEW now \in SUBSET Jobs, Plan(now, ok) PROVE IInv'
<1>1. PICK missed : missed = {j \in Jobs : Missed(j)}
  OBVIOUS
<1>2. /\ phase = "plan" /\ now \subseteq missed
      /\ IF missed = {}
         THEN /\ ok /\ phase' = "arm"
              /\ UNCHANGED <<mem, disk, failures, todo, deferred>>
         ELSE /\ Persist(Marked(mem, now), ok)
              /\ phase' = IF ok THEN "catchup" ELSE "failed"
              /\ todo' = IF ok THEN [todo EXCEPT !["startup"] = now] ELSE todo
              /\ deferred' = missed \ now
      /\ UNCHANGED <<clock, crashes, timer, ticking, interrupted, reloaded, manual, runs,
                     fresh, released, putOff, requests>>
  BY <1>1 DEF Plan, history
<1>3. phase # "boot" /\ Batch("startup", runs, todo) = {}
  BY <1>2 DEF IInv, ControlInv, BatchesKnown
<1>4. StateOK /\ ManualExact /\ BatchesKnown /\ runs \subseteq Runs /\ todo \in [By -> SUBSET Jobs]
  BY DEF IInv, ControlInv, StateOK
<1>5. CASE missed = {}
  <2>1. UNCHANGED <<clock, disk, mem, failures, runs, todo, fresh, released, putOff>>
    BY <1>2, <1>5
  <2>2. StoresInv' /\ RunsInv'
    BY <1>3, <2>1, SameStores
  <2>3. StateOK'
    BY <1>2, <1>4, <1>5 DEF StateOK
  <2>4. TimerArmed' /\ ManualExact'
    BY <1>2, <1>4, <1>5 DEF TimerArmed, ManualExact
  <2>5. BatchesKnown'
    BY <1>2, <1>3, <1>4, <1>5 DEF BatchesKnown
  <2> QED BY <2>2, <2>3, <2>4, <2>5 DEF IInv, ControlInv
<1>6. CASE missed # {}
  <2>1. PICK store : store = Marked(mem, now)
    OBVIOUS
  <2>2. Persist(store, ok) /\ todo' = IF ok THEN [todo EXCEPT !["startup"] = now] ELSE todo
    BY <1>2, <1>6, <2>1
  <2>3. ASSUME NEW j \in now
        PROVE  /\ mem[j] # Absent /\ mem[j].running = 0 /\ mem[j].enabled
               /\ j \in OneShots \ putOff => NotDone(j, mem[j])
    <3>1. Missed(j) /\ j \in Jobs
      BY <1>1, <1>2
    <3>2. mem[j] # Absent /\ mem[j].running = 0 /\ mem[j].enabled
      BY <3>1 DEF Missed, Present
    <3>3. Sane(j, mem[j], clock, putOff)
      BY <3>1, <3>2 DEF IInv, StoresInv, StoresSane, SaneStore
    <3>4. ASSUME j \in OneShots \ putOff PROVE NotDone(j, mem[j])
      <4>1. j \notin CronJobs
        BY <3>4, JobsAssumption
      <4>2. CASE mem[j].lastStatus = "error"
        BY <4>2 DEF NotDone
      <4>3. CASE Due(mem[j], clock)
        BY <3>2, <3>3, <3>4, <4>3 DEF Sane, Due
      <4> QED BY <3>1, <4>1, <4>2, <4>3 DEF Missed
    <3> QED BY <3>2, <3>4
  <2>4. StoresInv' /\ RunsInv'
    BY <1>2, <1>3, <2>1, <2>2, <2>3, MarkStep DEF By
  <2>5. /\ failures' \in 0..MaxEvents /\ todo' \in [By -> SUBSET Jobs] /\ deferred' \subseteq Jobs
    BY <1>1, <1>2, <1>4, <1>6, <2>2, PersistWrites, WritesCount
  <2>6. StateOK'
    BY <1>2, <1>4, <1>6, <2>5 DEF StateOK
  <2>7. TimerArmed' /\ ManualExact'
    BY <1>2, <1>4, <1>6 DEF TimerArmed, ManualExact
  <2>8. todo'["tick"] = todo["tick"] /\ (phase' # "catchup" => todo' = todo)
    BY <1>2, <1>4, <1>6 DEF By
  <2>9. BatchesKnown'
    BY <1>2, <1>3, <1>4, <1>6, <2>8 DEF BatchesKnown, Batch
  <2> QED BY <2>4, <2>6, <2>7, <2>9 DEF IInv, ControlInv
<1> QED BY <1>5, <1>6

LEMMA ApplyCatchupStep ==
  ASSUME IInv, NEW ok \in BOOLEAN, ApplyCatchup(ok) PROVE IInv'
<1>1. PICK applied : applied = ApplyOutcomes(mem, Results("startup"))
  OBVIOUS
<1>2. PICK later : later = {j \in deferred : Present(applied, j) /\ applied[j].enabled}
  OBVIOUS
<1>3. PICK staggered : staggered = [j \in Jobs |->
        IF j \in later THEN [applied[j] EXCEPT !.next = clock + 1] ELSE applied[j]]
  OBVIOUS
<1>4. PICK store : store = Maintained(staggered, FALSE)
  OBVIOUS
<1>5. /\ phase = "catchup" /\ Idle("startup") /\ Persist(store, ok)
      /\ runs' = runs \ Results("startup")
      /\ phase' = IF ok THEN "arm" ELSE "failed"
      /\ putOff' = putOff \cup later /\ released' = released \cup StuckIn(staggered)
      /\ UNCHANGED <<clock, crashes, timer, ticking, todo, deferred, interrupted, reloaded,
                     manual, fresh, requests>>
  BY <1>1, <1>2, <1>3, <1>4 DEF ApplyCatchup
<1>6. /\ StateOK /\ ManualExact /\ BatchesKnown /\ runs \subseteq Runs /\ deferred \subseteq Jobs
      /\ clock \in Nat
  BY CountsOK DEF IInv, ControlInv, StateOK
<1>7. SaneStore(applied, clock, putOff)
  <2>1. \A r \in Results("startup") : Ended(r, clock)
    BY <1>5, <1>6 DEF Idle, Results, Ended, IInv, RunsInv, RunsInTime
  <2>2. SaneStore(mem, clock, putOff)
    BY DEF IInv, StoresInv, StoresSane
  <2> QED BY <1>1, <1>6, <2>1, <2>2, ApplyOutcomesStore
<1>8. ASSUME NEW j \in Jobs
      PROVE  /\ KeepsJob(applied[j], staggered[j], clock)
             /\ staggered[j] = Absent \/ Sane(j, staggered[j], clock, putOff')
             /\ applied[j] # Absent /\ Old(applied[j]) => Old(staggered[j])
  <2>1. applied[j] = Absent \/ Sane(j, applied[j], clock, putOff)
    BY <1>7 DEF SaneStore
  <2>2. CASE j \notin later
    <3>1. staggered[j] = applied[j]
      BY <1>3, <2>2
    <3>2. applied[j] # Absent => Sane(j, applied[j], clock, putOff')
      BY <1>5, <2>1 DEF Sane
    <3> QED BY <2>1, <3>1, <3>2 DEF KeepsJob, Like, Sane
  <2>3. CASE j \in later
    <3>1. PICK r : r = applied[j]
      OBVIOUS
    <3>2. PICK n \in Nat : n = clock + 1
      BY <1>6
    <3>3. PICK q : q = [r EXCEPT !.next = n]
      OBVIOUS
    <3>4. staggered[j] = q
      BY <1>3, <2>3, <3>1, <3>2, <3>3
    <3>5. r # Absent /\ Sane(j, r, clock, putOff) /\ r \in JobStates /\ Fields(r)
      BY <1>2, <2>1, <2>3, <3>1, StateFields DEF Present, Sane
    <3>6. /\ q \in JobStates /\ q.next = n /\ q.enabled = r.enabled /\ q.running = r.running
          /\ q.deleteAfterRun = r.deleteAfterRun
          /\ q.lastRun = r.lastRun /\ q.lastStatus = r.lastStatus
      BY <3>3, <3>5, SetNext
    <3>7. r.lastRun < n /\ n # 0 /\ r.lastRun <= clock
      BY <1>6, <3>2, <3>5 DEF Sane, Fields
    <3>8. Sane(j, q, clock, putOff')
      BY <1>5, <2>3, <3>6, <3>7 DEF Sane
    <3>9. KeepsJob(r, q, clock)
      BY <3>5, <3>6, AbsentIsNoState DEF KeepsJob, Like
    <3>10. Old(r) => Old(q)
      BY <3>6 DEF Old, Guarded
    <3> QED BY <3>1, <3>4, <3>8, <3>9, <3>10
  <2> QED BY <2>2, <2>3
<1>9. SaneStore(staggered, clock, putOff')
  <2>1. DOMAIN staggered = Jobs /\ staggered = [j \in Jobs |-> staggered[j]]
    BY <1>3
  <2> QED BY <1>8, <2>1, SaneStoreIs
<1>10. SaneStore(store, clock, putOff') /\ Keeps(staggered, store, clock)
  BY <1>4, <1>6, <1>9, MaintainedStore
<1>11. \A j \in Jobs : KeepsJob(applied[j], store[j], clock)
  BY <1>8, <1>10, KeepsTrans DEF Keeps
<1>12. Writes(store)
  BY <1>5, PersistWrites
<1>18. Frees(applied)
  <2>1. Frees(staggered)
    BY <1>5, StuckFreed
  <2> QED BY <1>8, <2>1 DEF Frees, KeepsJob
<1>13. /\ StoresInv' /\ RunsInv' /\ runs' \subseteq Runs /\ Batch("startup", runs', todo') = {}
  BY <1>1, <1>5, <1>10, <1>11, <1>12, <1>18, EndBatch DEF By
<1>14. StateOK'
  BY <1>2, <1>5, <1>6, <1>12, <1>13, <1>18, WritesCount DEF StateOK, Frees
<1>15. TimerArmed'
  BY <1>5 DEF TimerArmed
<1>16. BatchesKnown'
  BY <1>5, <1>6, <1>13 DEF BatchesKnown, Batch, Started, Of
<1>17. ManualExact'
  BY <1>5, <1>6 DEF ManualExact, Results
<1> QED BY <1>13, <1>14, <1>15, <1>16, <1>17 DEF IInv, ControlInv

(* The store is maintained and nothing else happens to jobs. *)
LEMMA MaintainStep ==
  ASSUME IInv, phase # "boot", NEW base, base = mem \/ base = disk,
         NEW store, Keeps(base, store, clock), SaneStore(store, clock, putOff), Writes(store),
         UNCHANGED <<clock, runs, todo, fresh, putOff>>, Frees(base)
  PROVE  StoresInv' /\ RunsInv'
<1>1. runs \subseteq Runs
  BY DEF IInv, ControlInv, StateOK
<1>2. /\ runs' \subseteq Runs /\ Fewer(runs, todo, runs', todo')
      /\ clock' = clock /\ putOff' = putOff /\ released \subseteq released'
  BY <1>1, FewerSame DEF Frees
<1>3. \A j \in Jobs : Carried(j, base[j], store[j])
  BY DEF Carried, Keeps, Frees
<1>4. StoresInv'
  BY <1>2, <1>3, FewerStep
<1>5. RunsInv'
  BY <1>2, FewerRuns
<1> QED BY <1>4, <1>5

LEMMA ArmFirstStep ==
  ASSUME IInv, NEW ok \in BOOLEAN, ArmFirst(ok) PROVE IInv'
<1>1. PICK store : store = RecomputeNextRuns(mem)
  OBVIOUS
<1>2. /\ phase = "arm" /\ PersistIfChanged(mem, store, ok)
      /\ timer' = IF ok THEN Armed(store) ELSE timer
      /\ phase' = IF ok THEN "up" ELSE "failed"
      /\ released' = released \cup StuckIn(mem)
      /\ UNCHANGED <<clock, crashes, ticking, todo, deferred, interrupted, reloaded, manual,
                     runs, fresh, putOff, requests>>
  BY <1>1 DEF ArmFirst
<1>0. Frees(mem)
  BY <1>2, StuckFreed
<1>3. StateOK /\ ManualExact /\ BatchesKnown /\ clock \in Nat /\ SaneStore(mem, clock, putOff)
  BY CountsOK DEF IInv, ControlInv, StoresInv, StoresSane
<1>4. SaneStore(store, clock, putOff) /\ Keeps(mem, store, clock)
  BY <1>1, <1>3, RecomputedStore
<1>5. StoresInv' /\ RunsInv' /\ failures' \in 0..MaxEvents /\ mem' = store
  <2>1. CASE Writes(store)
    BY <1>0, <1>2, <1>3, <1>4, <2>1, MaintainStep, WritesCount DEF Writes
  <2>2. CASE mem = store /\ mem' = store /\ disk' = disk /\ failures' = failures
    BY <1>0, <1>2, <1>3, <2>2, SameStores DEF StateOK, Frees
  <2> QED BY <1>2, <2>1, <2>2, PersistIfChangedWrites
<1>6. StateOK'
  BY <1>0, <1>2, <1>3, <1>5 DEF StateOK, Armed, Frees
<1>7. TimerArmed'
  BY <1>2, <1>5 DEF TimerArmed, Armed
<1>8. ManualExact' /\ BatchesKnown'
  BY <1>2, <1>3 DEF ManualExact, BatchesKnown
<1> QED BY <1>5, <1>6, <1>7, <1>8 DEF IInv, ControlInv

LEMMA TickStep ==
  ASSUME IInv, NEW ok \in BOOLEAN, Tick(ok) PROVE IInv'
<1>1. PICK due :
        due = {j \in Jobs : Present(disk, j) /\ Due(disk[j], clock) /\ disk[j].running = 0}
  OBVIOUS
<1>2. PICK kept : kept = Maintained(disk, TRUE)
  OBVIOUS
<1>3. /\ timer /\ ~ticking
      /\ IF due = {}
         THEN /\ PersistIfChanged(disk, kept, ok)
              /\ timer' = Armed(kept)
              /\ released' = released \cup StuckIn(disk)
              /\ UNCHANGED <<ticking, todo>>
         ELSE /\ Persist(Marked(disk, due), ok)
              /\ timer' = IF ok THEN timer ELSE Armed(Marked(disk, due))
              /\ ticking' = ok
              /\ todo' = IF ok THEN [todo EXCEPT !["tick"] = due] ELSE todo
              /\ UNCHANGED released
      /\ reloaded' = FALSE
      /\ UNCHANGED <<clock, crashes, phase, deferred, interrupted, manual, runs, fresh,
                     putOff, requests>>
  BY <1>1, <1>2 DEF Tick, Reload
<1>4. /\ StateOK /\ ManualExact /\ BatchesKnown /\ clock \in Nat /\ SaneStore(disk, clock, putOff)
      /\ todo \in [By -> SUBSET Jobs]
  BY CountsOK DEF IInv, ControlInv, StoresInv, StoresSane, StateOK
<1>5. phase # "boot" /\ Batch("tick", runs, todo) = {}
  BY <1>3, <1>4 DEF BatchesKnown
<1>6. CASE due = {}
  <2>1. Writes(kept)
    BY <1>3, <1>6, PersistIfChangedWrites DEF Writes
  <2>2. SaneStore(kept, clock, putOff) /\ Keeps(disk, kept, clock)
    BY <1>2, <1>4, MaintainedStore
  <2>0. Frees(disk)
    BY <1>3, <1>6, StuckFreed
  <2>3. StoresInv' /\ RunsInv'
    BY <1>3, <1>5, <1>6, <2>0, <2>1, <2>2, MaintainStep
  <2>4. StateOK'
    BY <1>3, <1>4, <1>6, <2>0, <2>1, WritesCount DEF StateOK, Armed, Frees
  <2>5. TimerArmed'
    BY <1>3, <1>6, <2>1 DEF TimerArmed, Armed, Writes
  <2>6. ManualExact' /\ BatchesKnown'
    BY <1>3, <1>4, <1>5, <1>6 DEF ManualExact, BatchesKnown
  <2> QED BY <2>3, <2>4, <2>5, <2>6 DEF IInv, ControlInv
<1>7. CASE due # {}
  <2>1. PICK store : store = Marked(disk, due)
    OBVIOUS
  <2>2. Persist(store, ok) /\ todo' = IF ok THEN [todo EXCEPT !["tick"] = due] ELSE todo
    BY <1>3, <1>7, <2>1
  <2>3. ASSUME NEW j \in due
        PROVE  /\ disk[j] # Absent /\ disk[j].running = 0 /\ disk[j].enabled
               /\ j \in OneShots \ putOff => NotDone(j, disk[j])
    <3>1. /\ j \in Jobs /\ disk[j] # Absent /\ disk[j].running = 0 /\ disk[j].enabled
          /\ disk[j].next # 0
      BY <1>1 DEF Present, Due
    <3>2. Sane(j, disk[j], clock, putOff)
      BY <1>4, <3>1 DEF SaneStore
    <3> QED BY <3>1, <3>2 DEF Sane
  <2>4. StoresInv' /\ RunsInv'
    BY <1>1, <1>3, <1>5, <1>7, <2>1, <2>2, <2>3, MarkStep DEF By
  <2>5. Writes(store) /\ (~ok => failures' # 0)
    BY <1>4, <2>2, PersistWrites, CountsOK DEF Persist
  <2>6. todo' \in [By -> SUBSET Jobs]
    BY <1>1, <1>4, <2>2
  <2>7. StateOK'
    BY <1>3, <1>4, <1>7, <2>5, <2>6, WritesCount DEF StateOK, Armed
  <2>8. TimerArmed'
    BY <1>3, <1>7, <2>5 DEF TimerArmed
  <2>9. ManualExact'
    BY <1>3, <1>4 DEF ManualExact
  <2>10. todo'["startup"] = todo["startup"] /\ (~ok => todo' = todo)
    BY <1>4, <2>2 DEF By
  <2>11. BatchesKnown'
    BY <1>3, <1>4, <1>5, <1>7, <2>10 DEF BatchesKnown, Batch
  <2> QED BY <2>4, <2>7, <2>8, <2>9, <2>11 DEF IInv, ControlInv
<1> QED BY <1>6, <1>7

LEMMA FinishTickStep ==
  ASSUME IInv, NEW ok \in BOOLEAN, FinishTick(ok) PROVE IInv'
<1>1. PICK applied : applied = ApplyOutcomes(disk, Results("tick"))
  OBVIOUS
<1>2. PICK store : store = Maintained(applied, FALSE)
  OBVIOUS
<1>3. /\ ticking /\ Idle("tick") /\ Persist(store, ok)
      /\ runs' = runs \ Results("tick")
      /\ ticking' = FALSE /\ timer' = Armed(store) /\ released' = released \cup StuckIn(applied)
      /\ UNCHANGED <<clock, crashes, phase, todo, deferred, interrupted, reloaded, manual,
                     fresh, putOff, requests>>
  BY <1>1, <1>2 DEF FinishTick, Reload
<1>0. Frees(applied)
  BY <1>3, StuckFreed
<1>4. /\ StateOK /\ ManualExact /\ BatchesKnown /\ runs \subseteq Runs /\ clock \in Nat
  BY CountsOK DEF IInv, ControlInv, StateOK
<1>5. SaneStore(applied, clock, putOff)
  <2>1. \A r \in Results("tick") : Ended(r, clock)
    BY <1>3, <1>4 DEF Idle, Results, Ended, IInv, RunsInv, RunsInTime
  <2>2. SaneStore(disk, clock, putOff)
    BY DEF IInv, StoresInv, StoresSane
  <2> QED BY <1>1, <1>4, <2>1, <2>2, ApplyOutcomesStore
<1>6. SaneStore(store, clock, putOff) /\ Keeps(applied, store, clock)
  BY <1>2, <1>4, <1>5, MaintainedStore
<1>7. \A j \in Jobs : KeepsJob(applied[j], store[j], clock)
  BY <1>6 DEF Keeps
<1>8. Writes(store) /\ phase # "boot" /\ SaneStore(store, clock, putOff')
  BY <1>3, <1>4, <1>6, PersistWrites DEF BatchesKnown
<1>9. /\ StoresInv' /\ RunsInv' /\ runs' \subseteq Runs /\ Batch("tick", runs', todo') = {}
  BY <1>0, <1>1, <1>3, <1>7, <1>8, EndBatch DEF By
<1>10. StateOK'
  BY <1>0, <1>3, <1>4, <1>8, <1>9, WritesCount DEF StateOK, Armed, Frees
<1>11. TimerArmed'
  BY <1>3, <1>8 DEF TimerArmed, Armed, Writes
<1>12. BatchesKnown'
  BY <1>3, <1>4, <1>8, <1>9 DEF BatchesKnown, Batch, Started, Of
<1>13. ManualExact'
  BY <1>3, <1>4 DEF ManualExact, Results
<1> QED BY <1>9, <1>10, <1>11, <1>12, <1>13 DEF IInv, ControlInv

LEMMA StartRunStep ==
  ASSUME IInv, NEW by \in By, NEW j \in Jobs, StartRun(by, j) PROVE IInv'
<1>1. PICK run : run = [by |-> by, job |-> j, status |-> "running", startedAt |-> clock,
                        endedAt |-> 0]
  OBVIOUS
<1>2. /\ j \in todo[by]
      /\ todo' = [todo EXCEPT ![by] = @ \ {j}] /\ runs' = runs \cup {run}
      /\ mem' = IF by = "tick" /\ ~reloaded /\ Present(mem, j) THEN Marked(mem, {j}) ELSE mem
      /\ UNCHANGED <<clock, crashes, disk, phase, timer, ticking, deferred, interrupted,
                     reloaded, manual, fresh, released, putOff, requests, failures>>
  BY <1>1 DEF StartRun, history
<1>3. /\ StateOK /\ TimerArmed /\ BatchesKnown /\ ManualExact /\ RunsDistinct /\ RunsInTime
      /\ clock \in Nat \ {0} /\ runs \subseteq Runs /\ todo \in [By -> SUBSET Jobs]
  BY CountsOK DEF IInv, ControlInv, RunsInv, StateOK
<1>4. /\ run \in Runs /\ run.by = by /\ run.job = j /\ Running(run) /\ run.startedAt = clock
      /\ run.by # "manual"
  BY <1>1, <1>3 DEF Runs, Running, By
<1>5. /\ todo'[by] = todo[by] \ {j} /\ \A b \in By \ {by} : todo'[b] = todo[b]
      /\ todo' \in [By -> SUBSET Jobs]
  BY <1>2, <1>3
<1>6. /\ Of(runs', by) = Of(runs, by) \cup {run}
      /\ \A b \in By \ {by} : Of(runs', b) = Of(runs, b)
  BY <1>2, <1>4 DEF Of
<1>7. /\ Started(by, runs') = Started(by, runs) \cup {j} /\ j \notin Started(by, runs)
      /\ \A b \in By \ {by} : Started(b, runs') = Started(b, runs)
  BY <1>2, <1>3, <1>4, <1>6 DEF Started, Of, RunsDistinct
<1>8. \A b \in By : Batch(b, runs', todo') = Batch(b, runs, todo)
  BY <1>2, <1>5, <1>7 DEF Batch
<1>9. \A i \in Jobs : Claimed(i, runs', todo') <=> Claimed(i, runs, todo)
  BY <1>2, <1>4, <1>5 DEF Claimed
<1>10. ControlInv'
  <2>1. StateOK'
    BY <1>2, <1>3, <1>4, <1>5 DEF StateOK
  <2>2. Armed(mem') => Armed(mem)
    <3>1. CASE mem' = mem
      BY <3>1 DEF Armed
    <3>2. CASE mem' = Marked(mem, {j}) /\ Present(mem, j)
      <4>1. SaneStore(mem, clock, putOff) /\ mem[j] # Absent
        BY <3>2 DEF IInv, StoresInv, StoresSane, Present
      <4>2. /\ \A i \in Jobs : mem'[i] = Absent <=> mem[i] = Absent
            /\ \A i \in Jobs \ {j} : mem'[i] = mem[i]
            /\ mem'[j].next = mem[j].next /\ mem'[j].enabled = mem[j].enabled
        BY <1>3, <3>2, <4>1, MarkedStore
      <4> QED BY <4>2 DEF Armed, Scheduled
    <3> QED BY <1>2, <3>1, <3>2
  <2>3. TimerArmed'
    BY <1>2, <1>3, <2>2 DEF TimerArmed, Armed
  <2>4. BatchesKnown'
    BY <1>2, <1>3, <1>8 DEF BatchesKnown, By
  <2>5. ManualExact'
    BY <1>2, <1>3, <1>4 DEF ManualExact
  <2> QED BY <2>1, <2>3, <2>4, <2>5 DEF ControlInv
<1>11. RunsInv'
  <2>1. \A r \in runs : r.by = by => r.job # j
    BY <1>2, <1>3 DEF RunsDistinct
  <2>2. RunsDistinct'
    BY <1>2, <1>3, <1>4, <1>5, <2>1 DEF RunsDistinct, Running
  <2>3. RunsInTime'
    BY <1>2, <1>3, <1>4 DEF RunsInTime, Running
  <2>4. ClaimsExclusive'
    <3> SUFFICES ASSUME NEW i \in Jobs \ released' PROVE Exclusive(i, runs', todo')
      BY DEF ClaimsExclusive
    <3>1. Exclusive(i, runs, todo)
      BY <1>2 DEF IInv, RunsInv, ClaimsExclusive
    <3> QED BY <1>2, <1>4, <1>5, <3>1 DEF Exclusive
  <2> QED BY <2>2, <2>3, <2>4 DEF RunsInv
<1>13. \A i \in Jobs : \A r : Guard(i, r, runs, todo, putOff) => Guard(i, r, runs', todo', putOff)
  BY <1>8, <1>9, GuardLess
<1>14. /\ SaneStore(disk, clock, putOff) /\ SaneStore(mem, clock, putOff)
       /\ \A i \in Jobs : /\ disk[i] = Absent \/ disk[i] \in JobStates
                          /\ mem[i] = Absent \/ mem[i] \in JobStates
  BY DEF IInv, StoresInv, StoresSane, SaneStore, Sane
<1>15. \A i \in Jobs \ released : /\ Guard(i, disk[i], runs', todo', putOff)
                                  /\ Guard(i, mem[i], runs', todo', putOff)
  BY <1>13, <1>14 DEF IInv, StoresInv, ClaimsGuarded
<1>16. fresh \subseteq Jobs /\ \A i \in fresh : disk[i] = Absent /\ mem[i] = Absent
                                                /\ ~Claimed(i, runs', todo')
  BY <1>3, <1>9 DEF IInv, StoresInv, FreshUnknown, StateOK
<1>17. failures = 0 /\ phase # "boot" => Owned(disk, runs', todo') /\ Owned(mem, runs', todo')
  BY <1>9 DEF IInv, StoresInv, StoresOwned, Owned
<1>18. failures = 0 /\ phase # "boot" => \A i \in Jobs : SameSchedule(disk[i], mem[i])
  BY DEF IInv, StoresInv, StoresAgree
<1>19. CASE mem' = mem
  <2>1. StoresInv'
    BY <1>2, <1>14, <1>15, <1>16, <1>17, <1>18, <1>19
       DEF StoresInv, StoresSane, StoresAgree, StoresOwned, FreshUnknown, ClaimsGuarded
  <2> QED BY <1>10, <1>11, <2>1 DEF IInv
<1>20. CASE mem' = Marked(mem, {j}) /\ mem[j] # Absent
  <2>1. PICK r : r = mem'[j]
    OBVIOUS
  <2>2. /\ SaneStore(mem', clock, putOff)
        /\ \A i \in Jobs : mem'[i] = Absent <=> mem[i] = Absent
        /\ \A i \in Jobs \ {j} : mem'[i] = mem[i]
        /\ r.running = clock /\ r.next = mem[j].next /\ r.enabled = mem[j].enabled
        /\ NotDone(j, r) <=> NotDone(j, mem[j])
    BY <1>3, <1>14, <1>20, <2>1, MarkedStore
  <2>3. \A i \in Jobs : SameSchedule(disk[i], mem[i]) => SameSchedule(disk[i], mem'[i])
    BY <1>20, <2>1, <2>2 DEF SameSchedule
  <2>4. Claimed(j, runs', todo')
    BY <1>2, <1>4 DEF Claimed
  <2>5. Owned(mem, runs', todo') => Owned(mem', runs', todo')
    BY <2>2, <2>4 DEF Owned
  <2>6. ASSUME j \notin released PROVE Guard(j, r, runs', todo', putOff)
    <3>1. j \in Batch(by, runs', todo')
      BY <1>2, <1>8 DEF Batch
    <3>2. Guarded(mem[j]) /\ (j \in OneShots \ putOff => NotDone(j, mem[j]))
      BY <1>15, <1>20, <2>4, <2>6, <3>1 DEF Guard
    <3>3. Guarded(r)
      BY <1>3, <2>2, <3>2 DEF Guarded
    <3> QED BY <2>2, <3>2, <3>3 DEF Guard
  <2>7. \A i \in Jobs \ released : Guard(i, mem'[i], runs', todo', putOff)
    BY <1>15, <2>1, <2>2, <2>6
  <2>8. StoresInv'
    BY <1>2, <1>14, <1>15, <1>16, <1>17, <1>18, <2>2, <2>3, <2>5, <2>7
       DEF StoresInv, StoresSane, StoresAgree, StoresOwned, FreshUnknown, ClaimsGuarded
  <2> QED BY <1>10, <1>11, <2>8 DEF IInv
<1> QED BY <1>2, <1>19, <1>20 DEF Present

LEMMA EndRunStep ==
  ASSUME IInv, NEW run \in runs, NEW status \in Outcomes, EndRun(run, status) PROVE IInv'
<1>1. PICK done : done = [run EXCEPT !.status = status, !.endedAt = clock]
  OBVIOUS
<1>2. /\ Running(run) /\ runs' = (runs \ {run}) \cup {done}
      /\ UNCHANGED <<clock, crashes, disk, phase, mem, timer, ticking, todo, deferred,
                     interrupted, reloaded, manual, fresh, released, putOff, requests, failures>>
  BY <1>1 DEF EndRun, history, service
<1>3. /\ StateOK /\ TimerArmed /\ BatchesKnown /\ ManualExact /\ RunsDistinct /\ RunsInTime
      /\ clock \in Nat \ {0} /\ runs \subseteq Runs
  BY CountsOK DEF IInv, ControlInv, RunsInv, StateOK
<1>4. /\ done \in Runs /\ done.by = run.by /\ done.job = run.job
      /\ done.startedAt = run.startedAt /\ done.endedAt = clock /\ ~Running(done)
  BY <1>1, <1>3 DEF Runs, Running, Outcomes
<1>5. \A b \in By : Started(b, runs') = Started(b, runs)
  BY <1>2, <1>4 DEF Started, Of
<1>6. /\ \A b \in By : Batch(b, runs', todo') = Batch(b, runs, todo)
      /\ \A i \in Jobs : Claimed(i, runs', todo') <=> Claimed(i, runs, todo)
  BY <1>2, <1>4, <1>5 DEF Batch, Claimed
<1>7. ControlInv'
  <2>1. StateOK'
    BY <1>2, <1>3, <1>4 DEF StateOK
  <2>2. TimerArmed'
    BY <1>2, <1>3 DEF TimerArmed, Armed
  <2>3. BatchesKnown'
    BY <1>2, <1>3, <1>6 DEF BatchesKnown, By
  <2>4. ManualExact'
    BY <1>2, <1>3, <1>4 DEF ManualExact
  <2> QED BY <2>1, <2>2, <2>3, <2>4 DEF ControlInv
<1>8. RunsInv'
  <2>1. RunsDistinct'
    BY <1>2, <1>3, <1>4 DEF RunsDistinct, Running
  <2>2. RunsInTime'
    BY <1>2, <1>3, <1>4 DEF RunsInTime, Running
  <2>3. ClaimsExclusive'
    BY <1>2, <1>4 DEF ClaimsExclusive, Exclusive, IInv, RunsInv
  <2> QED BY <2>1, <2>2, <2>3 DEF RunsInv
<1>10. \A i \in Jobs : \A r : Guard(i, r, runs, todo, putOff) => Guard(i, r, runs', todo', putOff)
  BY <1>6, GuardLess
<1>11. StoresInv'
  <2>1. StoresSane' /\ StoresAgree'
    BY <1>2 DEF IInv, StoresInv, StoresSane, StoresAgree
  <2>2. StoresOwned'
    BY <1>2, <1>6 DEF IInv, StoresInv, StoresOwned, Owned
  <2>3. FreshUnknown'
    BY <1>2, <1>3, <1>6 DEF IInv, StoresInv, FreshUnknown, StateOK
  <2>4. ClaimsGuarded'
    BY <1>2, <1>10 DEF IInv, StoresInv, ClaimsGuarded
  <2> QED BY <2>1, <2>2, <2>3, <2>4 DEF StoresInv
<1> QED BY <1>7, <1>8, <1>11 DEF IInv

LEMMA PreflightStep ==
  ASSUME IInv, NEW j \in Jobs, NEW force \in BOOLEAN, Preflight(j, force) PROVE IInv'
<1>1. PICK store : store = Maintained(mem, FALSE)
  OBVIOUS
<1>2. /\ phase # "boot" /\ MayHappen /\ requests' = requests + 1 /\ manual = NoManual
      /\ mem' = store
      /\ manual' = IF store[j].running = 0 /\ (force \/ Due(store[j], clock))
                   THEN [step |-> "reserve", job |-> j, now |-> clock]
                   ELSE manual
      /\ released' = released \cup StuckIn(mem)
      /\ UNCHANGED <<clock, crashes, disk, phase, timer, ticking, todo, deferred, interrupted,
                     reloaded, runs, fresh, putOff, failures>>
  BY <1>1 DEF Preflight, Serving, Request
<1>0. Frees(mem)
  BY <1>2, StuckFreed
<1>3. /\ StateOK /\ TimerArmed /\ BatchesKnown /\ ManualExact /\ RunsInTime
      /\ clock \in Nat \ {0} /\ runs \subseteq Runs /\ SaneStore(mem, clock, putOff)
  BY CountsOK DEF IInv, ControlInv, RunsInv, StateOK, StoresInv, StoresSane
<1>4. /\ SaneStore(store, clock, putOff) /\ Keeps(mem, store, clock)
      /\ \A i \in Jobs : mem[i] # Absent /\ mem[i].enabled => store[i].next = mem[i].next
  BY <1>1, <1>3, MaintainedStore
<1>5. RunsInv'
  BY <1>0, <1>2 DEF IInv, RunsInv, RunsDistinct, RunsInTime, ClaimsExclusive, Frees
<1>6. \A i \in Jobs : /\ store[i] = Absent <=> mem[i] = Absent
                      /\ mem[i] # Absent => store[i].enabled = mem[i].enabled
  BY <1>4 DEF Keeps, KeepsJob, Like
<1>7. ControlInv'
  <2>1. StateOK'
    <3>1. manual' \in Manuals \cup {NoManual}
      BY <1>2, <1>3 DEF Manuals
    <3> QED BY <1>0, <1>2, <1>3, <3>1, CountsOK DEF StateOK, Frees
  <2>2. TimerArmed'
    <3>1. Armed(store) => Armed(mem)
      BY <1>4, <1>6 DEF Armed, Scheduled
    <3> QED BY <1>2, <1>3, <3>1 DEF TimerArmed, Armed
  <2>3. BatchesKnown'
    BY <1>2, <1>3 DEF BatchesKnown
  <2>4. ManualExact'
    BY <1>2, <1>3 DEF ManualExact, NoManual
  <2> QED BY <2>1, <2>2, <2>3, <2>4 DEF ControlInv
<1>8. StoresInv'
  <2>1. StoresSane'
    BY <1>2, <1>4 DEF IInv, StoresInv, StoresSane
  <2>2. StoresAgree'
    BY <1>2, <1>4, <1>6 DEF IInv, StoresInv, StoresAgree, SameSchedule
  <2>3. StoresOwned'
    BY <1>2, <1>4, OwnedKept DEF IInv, StoresInv, StoresOwned
  <2>4. FreshUnknown'
    BY <1>2, <1>3, <1>6 DEF IInv, StoresInv, FreshUnknown, StateOK
  <2>5. ASSUME NEW i \in Jobs \ released' PROVE Guard(i, store[i], runs, todo, putOff)
    <3>1. /\ Guard(i, mem[i], runs, todo, putOff) /\ KeepsJob(mem[i], store[i], clock)
          /\ mem[i] # Absent => ~Old(mem[i])
      BY <1>0, <1>4 DEF IInv, StoresInv, ClaimsGuarded, Keeps, Frees
    <3>2. mem[i] = Absent \/ mem[i] \in JobStates
      BY <1>3 DEF SaneStore, Sane
    <3> QED BY <1>3, <3>1, <3>2, GuardKept
  <2>6. ClaimsGuarded'
    BY <1>0, <1>2, <2>5 DEF IInv, StoresInv, ClaimsGuarded, Frees
  <2> QED BY <2>1, <2>2, <2>3, <2>4, <2>6 DEF StoresInv
<1> QED BY <1>5, <1>7, <1>8 DEF IInv

LEMMA ReserveStep ==
  ASSUME IInv, NEW ok \in BOOLEAN, Reserve(ok) PROVE IInv'
<1>1. /\ StateOK /\ TimerArmed /\ BatchesKnown /\ ManualExact /\ RunsDistinct /\ RunsInTime
      /\ clock \in Nat \ {0} /\ runs \subseteq Runs /\ SaneStore(mem, clock, putOff)
  BY CountsOK DEF IInv, ControlInv, RunsInv, StateOK, StoresInv, StoresSane
<1>2. manual.step = "reserve" /\ manual \in Manuals
  BY <1>1 DEF Reserve, StateOK, NoManual
<1>3. PICK j \in Jobs : j = manual.job
  BY <1>2 DEF Manuals
<1>4. /\ manual.now = clock /\ phase # "boot" /\ \A r \in runs : r.by # "manual"
  BY <1>1, <1>2 DEF ManualExact, BatchesKnown, NoManual
<1>5. UNCHANGED <<clock, crashes, phase, timer, ticking, todo, deferred, interrupted, reloaded,
                  fresh, putOff, requests>>
  BY DEF Reserve
<1>6. CASE ~Reservable(j)
  <2>1. manual' = NoManual /\ UNCHANGED <<mem, disk, failures, runs, released>>
    BY <1>3, <1>6 DEF Reserve
  <2>2. StoresInv' /\ RunsInv'
    BY <1>4, <1>5, <2>1, SameStores
  <2>3. StateOK' /\ TimerArmed' /\ BatchesKnown'
    BY <1>1, <1>5, <2>1 DEF StateOK, TimerArmed, Armed, BatchesKnown
  <2>4. ManualExact'
    BY <1>1, <1>4, <2>1 DEF ManualExact, NoManual
  <2> QED BY <2>2, <2>3, <2>4 DEF IInv, ControlInv
<1>7. CASE Reservable(j)
  <2>1. PICK r : r = mem[j]
    OBVIOUS
  <2>2. PICK q : q = [r EXCEPT !.running = clock]
    OBVIOUS
  <2>3. PICK store : store = Replace(mem, j, q)
    OBVIOUS
  <2>4. PICK run : run = [by |-> "manual", job |-> j, status |-> "running",
                          startedAt |-> clock, endedAt |-> 0]
    OBVIOUS
  <2>5. store = [mem EXCEPT ![j].running = manual.now]
    BY <1>1, <1>4, <2>1, <2>2, <2>3 DEF Replace
  <2>6. /\ Persist(store, ok)
        /\ manual' = IF ok THEN [manual EXCEPT !.step = "run"] ELSE NoManual
        /\ runs' = IF ok THEN runs \cup {run} ELSE runs
        /\ released' = IF ok /\ ~r.enabled THEN released \cup {j} ELSE released
    BY <1>3, <1>4, <1>7, <2>1, <2>4, <2>5 DEF Reserve
  <2>7. r # Absent /\ r.running = 0 /\ r \in JobStates /\ Sane(j, r, clock, putOff)
    BY <1>1, <1>7, <2>1 DEF Reservable, Present, SaneStore, Sane
  <2>8. /\ q \in JobStates /\ q.running = clock /\ q.enabled = r.enabled /\ q.next = r.next
        /\ q.lastRun = r.lastRun /\ q.lastStatus = r.lastStatus
    BY <1>1, <2>2, <2>7, SetRunning
  <2>9. Sane(j, q, clock, putOff) /\ q # Absent
    BY <2>7, <2>8, AbsentIsNoState DEF Sane, NotDone
  <2>10. /\ SaneStore(store, clock, putOff) /\ store[j] = q
         /\ \A i \in Jobs \ {j} : store[i] = mem[i]
    BY <1>1, <2>3, <2>9, ReplacedStore
  <2>11. /\ run \in Runs /\ run.by = "manual" /\ run.job = j /\ Running(run)
         /\ run.startedAt = clock
    BY <1>1, <2>4 DEF Runs, Running
  <2>12. Writes(store) /\ (ok => disk' = store) /\ (~ok => failures' # 0)
    BY <1>1, <2>6, PersistWrites, CountsOK DEF Persist
  <2>13. j \notin released => ~Claimed(j, runs, todo)
    BY <2>1, <2>7, FreeJob
  <2>14. released \subseteq released' /\ runs \subseteq runs' /\ runs' \subseteq runs \cup {run}
    BY <2>6
  <2>15. \A b \in By : Of(runs', b) = Of(runs, b) /\ Started(b, runs') = Started(b, runs)
    BY <2>11, <2>14 DEF Of, Started, By
  <2>16. \A i \in Jobs \ {j} : Claimed(i, runs', todo') <=> Claimed(i, runs, todo)
    BY <1>5, <2>11, <2>14 DEF Claimed
  <2>17. StoresInv'
    <3>1. ASSUME failures' = 0 PROVE Owned(store, runs', todo')
      <4>1. ok /\ failures = 0
        BY <1>1, <2>12, <3>1, CountsOK DEF Writes
      <4>2. Claimed(j, runs', todo')
        BY <2>6, <2>11, <4>1 DEF Claimed
      <4>3. Owned(mem, runs, todo)
        BY <1>4, <4>1 DEF IInv, StoresInv, StoresOwned
      <4> QED BY <2>10, <2>16, <4>2, <4>3 DEF Owned
    <3>2. ASSUME NEW i \in fresh'
          PROVE  store[i] = Absent /\ disk[i] = Absent /\ ~Claimed(i, runs', todo')
      <4>1. i \in Jobs /\ disk[i] = Absent /\ mem[i] = Absent /\ ~Claimed(i, runs, todo)
        BY <1>1, <1>5 DEF IInv, StoresInv, FreshUnknown, StateOK
      <4>2. i # j
        BY <2>1, <2>7, <4>1
      <4> QED BY <2>10, <2>16, <4>1, <4>2
    <3>3. ASSUME NEW i \in Jobs \ released'
          PROVE  /\ Guard(i, store[i], runs', todo', putOff')
                 /\ Guard(i, disk'[i], runs', todo', putOff')
      <4>1. CASE ~Claimed(i, runs', todo')
        BY <4>1, UnclaimedIsFree
      <4>2. CASE i = j /\ Claimed(i, runs', todo')
        <5>1. ~Claimed(j, runs, todo) /\ ok
          BY <1>5, <2>6, <2>13, <2>14, <4>2
        <5>2. q.enabled
          BY <2>6, <2>8, <4>2, <5>1
        <5>3. \A b \in By : j \notin Batch(b, runs', todo')
          BY <1>5, <2>15, <5>1, UnclaimedIsFree DEF Batch
        <5>5. Guard(j, q, runs', todo', putOff')
          BY <1>1, <2>8, <5>2, <5>3 DEF Guard, Guarded
        <5> QED BY <2>10, <2>12, <4>2, <5>1, <5>5
      <4>3. CASE i # j
        <5>1. /\ Guard(i, mem[i], runs, todo, putOff)
              /\ Guard(i, disk[i], runs, todo, putOff)
          BY <2>14 DEF IInv, StoresInv, ClaimsGuarded
        <5>2. /\ Claimed(i, runs', todo') => Claimed(i, runs, todo)
              /\ \A b \in By : Batch(b, runs', todo') = Batch(b, runs, todo)
          BY <1>5, <2>15, <2>16, <4>3 DEF Batch
        <5>3. /\ Guard(i, mem[i], runs', todo', putOff')
              /\ Guard(i, disk[i], runs', todo', putOff')
          BY <1>5, <5>1, <5>2, GuardLess
        <5>4. disk' \in {disk, store}
          BY <2>12 DEF Writes
        <5> QED BY <2>10, <4>3, <5>3, <5>4
      <4> QED BY <4>1, <4>2, <4>3
    <3>4. clock' = clock /\ putOff' = putOff
      BY <1>5
    <3> QED BY <2>10, <2>12, <3>1, <3>2, <3>3, <3>4, WriteStep
  <2>18. RunsInv'
    <3>1. RunsDistinct'
      BY <1>1, <1>4, <1>5, <2>11, <2>14 DEF RunsDistinct, Running, By
    <3>2. RunsInTime'
      BY <1>1, <1>5, <2>11, <2>14 DEF RunsInTime, Running
    <3>3. ASSUME NEW i \in Jobs \ released' PROVE Exclusive(i, runs', todo')
      <4>1. Exclusive(i, runs, todo)
        BY <2>14 DEF IInv, RunsInv, ClaimsExclusive
      <4>2. CASE i = j
        <5>1. ~Claimed(j, runs, todo)
          BY <2>13, <2>14, <4>2
        <5> QED BY <1>5, <2>14, <4>2, <5>1 DEF Exclusive, Claimed
      <4>3. CASE i # j
        BY <1>5, <2>11, <2>14, <4>1, <4>3 DEF Exclusive
      <4> QED BY <4>2, <4>3
    <3> QED BY <3>1, <3>2, <3>3 DEF RunsInv, ClaimsExclusive
  <2>19. ControlInv'
    <3>1. manual' \in Manuals \cup {NoManual}
      BY <1>2, <2>6 DEF Manuals
    <3>2. runs' \subseteq Runs /\ released' \subseteq Jobs
      BY <1>1, <2>6, <2>11 DEF StateOK
    <3>3. StateOK'
      BY <1>1, <1>5, <2>12, <3>1, <3>2, WritesCount DEF StateOK
    <3>4. Armed(store) => Armed(mem)
      BY <2>1, <2>7, <2>8, <2>10 DEF Armed, Scheduled
    <3>5. TimerArmed'
      BY <1>1, <1>5, <2>12, <3>4, CountsOK DEF TimerArmed, Armed, Writes
    <3>6. BatchesKnown'
      BY <1>1, <1>4, <1>5, <2>15 DEF BatchesKnown, Batch, By
    <3>7. ManualExact'
      <4>1. CASE ok
        <5>1. manual'.step = "run" /\ manual'.job = j
          BY <1>2, <1>3, <2>6, <4>1 DEF Manuals
        <5> QED BY <1>4, <2>6, <2>11, <4>1, <5>1 DEF ManualExact
      <4>2. CASE ~ok
        BY <1>4, <2>6, <4>2 DEF ManualExact, NoManual
      <4> QED BY <4>1, <4>2
    <3> QED BY <3>3, <3>5, <3>6, <3>7 DEF ControlInv
  <2> QED BY <2>17, <2>18, <2>19 DEF IInv
<1> QED BY <1>6, <1>7

LEMMA FinishManualStep ==
  ASSUME IInv, NEW ok \in BOOLEAN, FinishManual(ok) PROVE IInv'
<1>1. /\ StateOK /\ TimerArmed /\ BatchesKnown /\ ManualExact /\ RunsDistinct /\ RunsInTime
      /\ clock \in Nat \ {0} /\ runs \subseteq Runs
      /\ SaneStore(mem, clock, putOff) /\ SaneStore(disk, clock, putOff)
  BY CountsOK DEF IInv, ControlInv, RunsInv, StateOK, StoresInv, StoresSane
<1>2. manual.step = "run" /\ manual \in Manuals
  BY <1>1 DEF FinishManual, StateOK, NoManual
<1>3. PICK j \in Jobs : j = manual.job
  BY <1>2 DEF Manuals
<1>4. phase # "boot"
  BY <1>1, <1>2 DEF BatchesKnown, NoManual
<1>5. PICK run : run = CHOOSE r \in runs : r.by = "manual"
  OBVIOUS
<1>6. run \in runs /\ run.by = "manual" /\ run.job = j
  BY <1>1, <1>2, <1>3, <1>5 DEF ManualExact
<1>7. \A r \in runs : r.by = "manual" => r = run
  BY <1>1, <1>3, <1>6 DEF ManualExact, RunsDistinct
<1>8. /\ ~Running(run) /\ manual' = NoManual /\ runs' = runs \ {run}
      /\ UNCHANGED <<clock, crashes, phase, ticking, todo, deferred, interrupted, fresh,
                     putOff, requests>>
  BY <1>5 DEF FinishManual
<1>0. released \subseteq released' /\ released' \subseteq Jobs
  BY <1>1 DEF FinishManual, StuckIn, StateOK
<1>9. /\ runs' \subseteq Runs /\ \A b \in By : Of(runs', b) = Of(runs, b)
  BY <1>1, <1>6, <1>8 DEF Of, By
<1>10. Fewer(runs, todo, runs', todo')
  BY <1>8, <1>9 DEF Fewer
<1>11. RunsInv'
  BY <1>0, <1>8, <1>9, <1>10, FewerRuns
<1>12. BatchesKnown'
  BY <1>1, <1>4, <1>8, <1>9 DEF BatchesKnown, Batch, Started, By
<1>13. ManualExact'
  BY <1>7, <1>8 DEF ManualExact, NoManual
<1>14. \A i \in Jobs \ {j} : Claimed(i, runs, todo) => Claimed(i, runs', todo')
  BY <1>6, <1>8 DEF Claimed
<1>15. CASE ~Present(mem, j)
  <2>1. UNCHANGED <<mem, disk, failures, timer, reloaded, released>>
    BY <1>3, <1>15 DEF FinishManual
  <2>2. StateOK' /\ TimerArmed'
    BY <1>1, <1>8, <1>9, <2>1 DEF StateOK, TimerArmed, Armed
  <2>3. StoresSane' /\ StoresAgree'
    BY <1>8, <2>1 DEF IInv, StoresInv, StoresSane, StoresAgree
  <2>4. StoresOwned'
    <3> SUFFICES ASSUME failures = 0
                 PROVE  Owned(disk, runs', todo') /\ Owned(mem, runs', todo')
      BY <1>8, <2>1 DEF StoresOwned
    <3>1. Owned(disk, runs, todo) /\ Owned(mem, runs, todo) /\ SameSchedule(disk[j], mem[j])
      BY <1>4 DEF IInv, StoresInv, StoresOwned, StoresAgree
    <3>2. disk[j] = Absent /\ mem[j] = Absent
      BY <1>15, <3>1 DEF SameSchedule, Present
    <3> QED BY <1>14, <3>1, <3>2 DEF Owned
  <2>5. FreshUnknown'
    <3>1. \A i \in Jobs : Claimed(i, runs', todo') => Claimed(i, runs, todo)
      BY <1>9, <1>10, FewerClaims
    <3> QED BY <1>1, <1>8, <2>1, <3>1 DEF IInv, StoresInv, FreshUnknown, StateOK
  <2>6. ASSUME NEW i \in Jobs \ released
        PROVE  /\ Guard(i, disk[i], runs', todo', putOff)
               /\ Guard(i, mem[i], runs', todo', putOff)
    <3>1. /\ Guard(i, disk[i], runs, todo, putOff)
          /\ Guard(i, mem[i], runs, todo, putOff)
      BY DEF IInv, StoresInv, ClaimsGuarded
    <3>2. /\ Claimed(i, runs', todo') => Claimed(i, runs, todo)
          /\ \A by \in By : Batch(by, runs', todo') \subseteq Batch(by, runs, todo)
      BY <1>9, <1>10, FewerClaims
    <3> QED BY <3>1, <3>2, GuardLess
  <2>7. ClaimsGuarded'
    BY <1>8, <2>1, <2>6 DEF ClaimsGuarded
  <2> QED BY <1>11, <1>12, <1>13, <2>2, <2>3, <2>4, <2>5, <2>7 DEF IInv, ControlInv, StoresInv
<1>16. CASE Present(mem, j)
  <2>1. PICK applied : applied = ApplyOutcome(mem, run)
    OBVIOUS
  <2>2. PICK merged : merged = IF Present(applied, j) /\ ~Present(disk, j) THEN disk
                               ELSE Replace(disk, j, applied[j])
    OBVIOUS
  <2>3. PICK store : store = Maintained(merged, TRUE)
    OBVIOUS
  <2>4. /\ Persist(store, ok) /\ timer' = (IF ok THEN Armed(store) ELSE timer) /\ reloaded' = TRUE
        /\ released' = released \cup StuckIn(merged)
    BY <1>3, <1>5, <1>16, <2>1, <2>2, <2>3 DEF FinishManual, Replace
  <2>5. Ended(run, clock)
    BY <1>1, <1>6, <1>8 DEF Ended, RunsInTime
  <2>6. SaneStore(applied, clock, putOff) /\ Cleared(applied[j])
    BY <1>1, <1>6, <2>1, <2>5, ApplyOutcomeStore
  <2>7. /\ SaneStore(merged, clock, putOff) /\ Cleared(merged[j])
        /\ \A i \in Jobs \ {j} : merged[i] = disk[i]
        /\ disk[j] = Absent => merged[j] = Absent
    <3>1. CASE Present(applied, j) /\ ~Present(disk, j)
      BY <1>1, <2>2, <3>1 DEF Present, Cleared
    <3>2. CASE ~(Present(applied, j) /\ ~Present(disk, j))
      <4>1. PICK r : r = applied[j]
        OBVIOUS
      <4>2. merged = Replace(disk, j, r) /\ (r = Absent \/ Sane(j, r, clock, putOff))
        BY <2>2, <2>6, <3>2, <4>1 DEF SaneStore
      <4>3. /\ SaneStore(merged, clock, putOff) /\ merged[j] = r
            /\ \A i \in Jobs \ {j} : merged[i] = disk[i]
        BY <1>1, <4>2, ReplacedStore
      <4> QED BY <2>6, <3>2, <4>1, <4>3 DEF Present
    <3> QED BY <3>1, <3>2
  <2>8. SaneStore(store, clock, putOff) /\ Keeps(merged, store, clock)
    BY <1>1, <2>3, <2>7, MaintainedStore
  <2>14. Frees(merged)
    BY <2>4, StuckFreed
  <2>9. ASSUME NEW i \in Jobs PROVE Carried(i, disk[i], store[i])
    <3>1. KeepsJob(merged[i], store[i], clock)
      BY <2>8 DEF Keeps
    <3>2. CASE i # j
      BY <1>4, <1>14, <2>7, <2>14, <3>1, <3>2 DEF Carried, Frees
    <3>3. CASE i = j
      <4>1. Cleared(store[j]) /\ (disk[j] = Absent => store[j] = Absent)
        BY <2>7, <3>1, <3>3 DEF KeepsJob, Like, Cleared
      <4>2. ASSUME j \notin released PROVE ~Claimed(j, runs', todo')
        <5>1. Exclusive(j, runs, todo)
          BY <4>2 DEF IInv, RunsInv, ClaimsExclusive
        <5> QED BY <1>6, <1>8, <5>1 DEF Exclusive, Claimed
      <4> QED BY <3>3, <4>1, <4>2 DEF Carried
    <3> QED BY <3>2, <3>3
  <2>10. Writes(store) /\ (~ok => failures' # 0)
    BY <1>1, <2>4, PersistWrites, CountsOK DEF Persist
  <2>11. StoresInv'
    BY <1>0, <1>8, <1>9, <1>10, <2>8, <2>9, <2>10, FewerStep
  <2>12. StateOK'
    BY <1>0, <1>1, <1>8, <1>9, <2>4, <2>10, WritesCount DEF StateOK, Armed
  <2>13. TimerArmed'
    BY <2>4, <2>10 DEF TimerArmed, Armed, Writes
  <2> QED BY <1>11, <1>12, <1>13, <2>11, <2>12, <2>13 DEF IInv, ControlInv
<1> QED BY <1>15, <1>16

LEMMA ListStep ==
  ASSUME IInv, NEW ok \in BOOLEAN, List(ok) PROVE IInv'
<1>1. PICK store : store = Maintained(mem, FALSE)
  OBVIOUS
<1>2. /\ phase # "boot" /\ PersistIfChanged(mem, store, ok)
      /\ released' = released \cup StuckIn(mem)
      /\ UNCHANGED <<clock, crashes, phase, timer, ticking, todo, deferred, interrupted,
                     reloaded, manual, runs, fresh, putOff, requests>>
  BY <1>1 DEF List, Serving
<1>0. Frees(mem)
  BY <1>2, StuckFreed
<1>3. /\ StateOK /\ TimerArmed /\ ManualExact /\ BatchesKnown /\ clock \in Nat
      /\ SaneStore(mem, clock, putOff)
  BY CountsOK DEF IInv, ControlInv, StoresInv, StoresSane
<1>4. /\ SaneStore(store, clock, putOff) /\ Keeps(mem, store, clock)
      /\ \A i \in Jobs : mem[i] # Absent /\ mem[i].enabled => store[i].next = mem[i].next
  BY <1>1, <1>3, MaintainedStore
<1>5. StoresInv' /\ RunsInv' /\ failures' \in 0..MaxEvents /\ mem' = store
      /\ (failures' = 0 => failures = 0)
  <2>1. CASE Writes(store)
    BY <1>0, <1>2, <1>3, <1>4, <2>1, MaintainStep, WritesCount, CountsOK DEF Writes
  <2>2. CASE mem = store /\ mem' = store /\ disk' = disk /\ failures' = failures
    BY <1>0, <1>2, <1>3, <2>2, SameStores DEF StateOK, Frees
  <2> QED BY <1>2, <2>1, <2>2, PersistIfChangedWrites
<1>6. StateOK'
  BY <1>0, <1>2, <1>3, <1>5 DEF StateOK, Frees
<1>7. Armed(store) => Armed(mem)
  BY <1>4 DEF Armed, Scheduled, Keeps, KeepsJob, Like
<1>8. TimerArmed'
  BY <1>2, <1>3, <1>5, <1>7 DEF TimerArmed, Armed
<1>9. ManualExact' /\ BatchesKnown'
  BY <1>2, <1>3 DEF ManualExact, BatchesKnown
<1> QED BY <1>5, <1>6, <1>8, <1>9 DEF IInv, ControlInv

(* add, update and remove: the timer is armed for what they write. *)
LEMMA ChangeStep ==
  ASSUME IInv, NEW ok \in BOOLEAN, NEW store, Change(store, ok), fresh' \subseteq fresh,
         released \subseteq released', released' \subseteq Jobs, putOff' = putOff,
         SaneStore(store, clock, putOff),
         \A i \in Jobs : store[i] # Absent /\ store[i].running # 0 =>
                           mem[i] # Absent /\ mem[i].running # 0,
         \A i \in fresh' : store[i] = Absent,
         \A i \in Jobs \ released' : Guard(i, store[i], runs, todo, putOff)
  PROVE  IInv'
<1>1. /\ phase # "boot" /\ MayHappen /\ requests' = requests + 1 /\ Persist(store, ok)
      /\ timer' = IF ok THEN Armed(store) ELSE timer
      /\ UNCHANGED <<clock, crashes, phase, ticking, todo, deferred, interrupted, reloaded,
                     manual, runs>>
  BY DEF Change, Serving, Request
<1>2. /\ StateOK /\ BatchesKnown /\ ManualExact /\ runs \subseteq Runs /\ fresh \subseteq Jobs
  BY DEF IInv, ControlInv, StateOK
<1>3. Writes(store) /\ (~ok => failures' # 0) /\ (failures' = 0 => failures = 0)
  BY <1>1, <1>2, PersistWrites, CountsOK DEF Persist
<1>4. StoresInv'
  <2>1. failures' = 0 => Owned(store, runs', todo')
    BY <1>1, <1>3 DEF IInv, StoresInv, StoresOwned, Owned
  <2>2. \A i \in fresh' : store[i] = Absent /\ disk[i] = Absent /\ ~Claimed(i, runs', todo')
    BY <1>1 DEF IInv, StoresInv, FreshUnknown
  <2>3. disk' \in {disk, store}
    BY <1>3 DEF Writes
  <2>4. \A i \in Jobs \ released' :
          /\ Guard(i, store[i], runs', todo', putOff')
          /\ Guard(i, disk'[i], runs', todo', putOff')
    BY <1>1, <2>3 DEF IInv, StoresInv, ClaimsGuarded
  <2> QED BY <1>1, <1>3, <2>1, <2>2, <2>4, WriteStep
<1>5. RunsInv'
  BY <1>1, <1>2, FewerSame, FewerRuns
<1>6. StateOK'
  BY <1>1, <1>2, <1>3, WritesCount, CountsOK DEF StateOK, Armed
<1>7. TimerArmed'
  BY <1>1, <1>3 DEF TimerArmed, Armed, Writes
<1>8. BatchesKnown' /\ ManualExact'
  BY <1>1, <1>2 DEF BatchesKnown, ManualExact
<1> QED BY <1>4, <1>5, <1>6, <1>7, <1>8 DEF IInv, ControlInv

LEMMA AddStep ==
  ASSUME IInv, NEW ok \in BOOLEAN, NEW j \in Jobs, NEW delete \in BOOLEAN, Add(j, delete, ok)
  PROVE  IInv'
<1>1. PICK r : r = NewJob(j, delete)
  OBVIOUS
<1>2. PICK added : added = Replace(mem, j, r)
  OBVIOUS
<1>3. PICK store : store = RecomputeNextRuns(added)
  OBVIOUS
<1>4. /\ j \in fresh /\ fresh' = fresh \ {j} /\ Change(store, ok)
      /\ released' = released \cup StuckIn(added) /\ putOff' = putOff
  BY <1>1, <1>2, <1>3 DEF Add, Replace
<1>0. Frees(added)
  BY <1>4, StuckFreed
<1>5. /\ clock \in Nat /\ runs \subseteq Runs /\ RunsInTime /\ SaneStore(mem, clock, putOff)
      /\ released \subseteq Jobs /\ fresh \subseteq Jobs
  BY CountsOK DEF IInv, ControlInv, RunsInv, StoresInv, StoresSane, StateOK
<1>6. Sane(j, r, clock, putOff) /\ r.running = 0
  BY <1>1, <1>5, NewJobSane
<1>7. /\ SaneStore(added, clock, putOff) /\ added[j] = r
      /\ \A i \in Jobs \ {j} : added[i] = mem[i]
  BY <1>2, <1>5, <1>6, ReplacedStore
<1>8. SaneStore(store, clock, putOff) /\ Keeps(added, store, clock)
  BY <1>3, <1>5, <1>7, RecomputedStore
<1>9. Cleared(store[j])
  BY <1>6, <1>7, <1>8 DEF Keeps, KeepsJob, Like, Cleared
<1>10. \A i \in Jobs \ {j} : KeepsJob(mem[i], store[i], clock)
  BY <1>7, <1>8 DEF Keeps
<1>11. ASSUME NEW i \in Jobs, store[i] # Absent, store[i].running # 0
       PROVE  mem[i] # Absent /\ mem[i].running # 0
  BY <1>9, <1>10, <1>11 DEF Cleared, KeepsJob, Like
<1>12. ASSUME NEW i \in fresh' PROVE store[i] = Absent
  <2>1. i \in Jobs \ {j} /\ mem[i] = Absent
    BY <1>4, <1>5, <1>12 DEF IInv, StoresInv, FreshUnknown
  <2> QED BY <1>10, <2>1 DEF KeepsJob
<1>13. ASSUME NEW i \in Jobs \ released' PROVE Guard(i, store[i], runs, todo, putOff)
  <2>1. CASE i = j
    <3>1. ~Claimed(j, runs, todo)
      BY <1>4 DEF IInv, StoresInv, FreshUnknown
    <3> QED BY <2>1, <3>1, UnclaimedIsFree
  <2>2. CASE i # j
    <3>1. /\ Guard(i, mem[i], runs, todo, putOff) /\ KeepsJob(mem[i], store[i], clock)
          /\ mem[i] # Absent => ~Old(mem[i])
      BY <1>0, <1>7, <1>10, <2>2 DEF IInv, StoresInv, ClaimsGuarded, Frees
    <3>2. mem[i] = Absent \/ mem[i] \in JobStates
      BY <1>5 DEF SaneStore, Sane
    <3> QED BY <1>5, <3>1, <3>2, GuardKept
  <2> QED BY <2>1, <2>2
<1> QED BY <1>0, <1>4, <1>5, <1>8, <1>11, <1>12, <1>13, ChangeStep DEF Frees

LEMMA UpdateStep ==
  ASSUME IInv, NEW ok \in BOOLEAN, NEW j \in Jobs, NEW patch \in {"enable", "disable", "other"},
         Update(j, patch, ok)
  PROVE  IInv'
<1>1. PICK r : r = mem[j]
  OBVIOUS
<1>2. PICK q : q = Patched(j, r, patch)
  OBVIOUS
<1>3. PICK store : store = Replace(mem, j, q)
  OBVIOUS
<1>4. /\ clock \in Nat /\ SaneStore(mem, clock, putOff) /\ released \subseteq Jobs
      /\ fresh \subseteq Jobs
  BY CountsOK DEF IInv, ControlInv, StoresInv, StoresSane, StateOK
<1>5. /\ r # Absent /\ Change(store, ok) /\ fresh' = fresh /\ putOff' = putOff
      /\ released' = IF patch = "disable" THEN released \cup {j} ELSE released
  BY <1>1, <1>2, <1>3 DEF Update, Present, Replace
<1>6. Sane(j, r, clock, putOff)
  BY <1>1, <1>4, <1>5 DEF SaneStore
<1>7. /\ Sane(j, q, clock, putOff) /\ q.running \in {0, r.running}
      /\ patch # "disable" => /\ q.running = r.running /\ (r.enabled => q.enabled)
                              /\ NotDone(j, q) <=> NotDone(j, r)
  BY <1>2, <1>4, <1>6, PatchedSane
<1>8. /\ SaneStore(store, clock, putOff) /\ store[j] = q
      /\ \A i \in Jobs \ {j} : store[i] = mem[i]
  BY <1>3, <1>4, <1>7, ReplacedStore
<1>9. \A i \in Jobs : store[i] # Absent /\ store[i].running # 0 =>
                        mem[i] # Absent /\ mem[i].running # 0
  BY <1>1, <1>5, <1>7, <1>8
<1>10. \A i \in fresh' : store[i] = Absent
  BY <1>1, <1>4, <1>5, <1>8 DEF IInv, StoresInv, FreshUnknown
<1>11. ASSUME NEW i \in Jobs \ released' PROVE Guard(i, store[i], runs, todo, putOff)
  <2>1. Guard(i, mem[i], runs, todo, putOff)
    BY <1>5 DEF IInv, StoresInv, ClaimsGuarded
  <2>2. CASE i # j
    BY <1>8, <2>1, <2>2
  <2>3. CASE i = j
    <3>1. patch # "disable"
      BY <1>5, <2>3
    <3>2. Guarded(r) => Guarded(q)
      BY <1>7, <3>1 DEF Guarded
    <3> QED BY <1>1, <1>5, <1>7, <1>8, <2>1, <2>3, <3>1, <3>2 DEF Guard
  <2> QED BY <2>2, <2>3
<1>12. fresh' \subseteq fresh /\ released \subseteq released' /\ released' \subseteq Jobs
  BY <1>4, <1>5
<1> QED BY <1>5, <1>8, <1>9, <1>10, <1>11, <1>12, ChangeStep

LEMMA RemoveJobStep ==
  ASSUME IInv, NEW ok \in BOOLEAN, NEW j \in Jobs, RemoveJob(j, ok) PROVE IInv'
<1>1. PICK store : store = Replace(mem, j, Absent)
  OBVIOUS
<1>2. SaneStore(mem, clock, putOff) /\ released \subseteq Jobs /\ fresh \subseteq Jobs
  BY DEF IInv, ControlInv, StoresInv, StoresSane, StateOK
<1>3. Change(store, ok) /\ fresh' = fresh /\ putOff' = putOff /\ released' = released
  BY <1>1 DEF RemoveJob, Replace, history
<1>4. /\ SaneStore(store, clock, putOff) /\ store[j] = Absent
      /\ \A i \in Jobs \ {j} : store[i] = mem[i]
  BY <1>1, <1>2, ReplacedStore
<1>5. \A i \in Jobs : store[i] # Absent /\ store[i].running # 0 =>
                        mem[i] # Absent /\ mem[i].running # 0
  BY <1>4
<1>6. \A i \in fresh' : store[i] = Absent
  BY <1>2, <1>3, <1>4 DEF IInv, StoresInv, FreshUnknown
<1>7. \A i \in Jobs \ released' : Guard(i, store[i], runs, todo, putOff)
  BY <1>3, <1>4 DEF IInv, StoresInv, ClaimsGuarded, Guard
<1> QED BY <1>2, <1>3, <1>4, <1>5, <1>6, <1>7, ChangeStep

LEMMA CrashStep == ASSUME IInv, Crash PROVE IInv'
<1>1. /\ MayHappen /\ crashes' = crashes + 1 /\ phase' = "boot"
      /\ timer' = FALSE /\ ticking' = FALSE /\ reloaded' = FALSE /\ runs' = {}
      /\ mem' = [j \in Jobs |-> Absent] /\ todo' = [by \in By |-> {}]
      /\ deferred' = {} /\ manual' = NoManual
      /\ UNCHANGED <<clock, disk, interrupted, fresh, released, putOff, requests, failures>>
  BY DEF Crash, history
<1>2. StateOK /\ fresh \subseteq Jobs /\ SaneStore(disk, clock, putOff)
  BY DEF IInv, ControlInv, StateOK, StoresInv, StoresSane
<1>3. StateOK'
  BY <1>1, <1>2, CountsOK DEF StateOK
<1>4. TimerArmed' /\ ManualExact'
  BY <1>1 DEF TimerArmed, ManualExact, NoManual
<1>5. \A j \in Jobs : ~Claimed(j, runs', todo')
  BY <1>1 DEF Claimed
<1>6. \A by \in By : Batch(by, runs', todo') = {}
  BY <1>1 DEF Batch, Started, Of
<1>7. BatchesKnown'
  BY <1>1, <1>6 DEF BatchesKnown, By
<1>8. RunsInv'
  BY <1>1 DEF RunsInv, RunsDistinct, RunsInTime, ClaimsExclusive, Exclusive
<1>9. SaneStore(mem', clock, putOff)
  BY <1>1, SaneStoreIs
<1>10. StoresSane' /\ StoresAgree' /\ StoresOwned'
  BY <1>1, <1>2, <1>9 DEF StoresSane, StoresAgree, StoresOwned
<1>11. FreshUnknown'
  BY <1>1, <1>2, <1>5 DEF IInv, StoresInv, FreshUnknown
<1>12. ClaimsGuarded'
  BY <1>1, <1>5, UnclaimedIsFree DEF ClaimsGuarded
<1> QED BY <1>3, <1>4, <1>7, <1>8, <1>10, <1>11, <1>12 DEF IInv, ControlInv, StoresInv

LEMMA SlotPassesStep == ASSUME IInv, SlotPasses PROVE IInv'
<1>1. /\ clock < MaxTime /\ clock' = clock + 1
      /\ manual # NoManual => \E r \in Of(runs, "manual") : Running(r)
      /\ UNCHANGED <<disk, phase, mem, timer, ticking, todo, deferred, interrupted, reloaded,
                     manual, runs, fresh, released, putOff, requests, failures, crashes>>
  BY DEF SlotPasses, history, service, Results, Of
<1>2. /\ StateOK /\ TimerArmed /\ BatchesKnown /\ ManualExact /\ RunsDistinct /\ RunsInTime
      /\ clock \in Nat \ {0} /\ runs \subseteq Runs /\ MaxTime \in Nat
      /\ SaneStore(disk, clock, putOff) /\ SaneStore(mem, clock, putOff)
  BY Numbers, CountsOK DEF IInv, ControlInv, RunsInv, StateOK, StoresInv, StoresSane
<1>3. StateOK'
  BY <1>1, <1>2 DEF StateOK
<1>4. TimerArmed' /\ BatchesKnown'
  BY <1>1, <1>2 DEF TimerArmed, Armed, BatchesKnown
<1>5. manual.step # "reserve"
  <2>1. manual = NoManual \/ manual.step = "run"
    BY <1>1, <1>2 DEF ManualExact, Of
  <2> QED BY <2>1 DEF NoManual
<1>6. ManualExact'
  BY <1>1, <1>2, <1>5 DEF ManualExact
<1>8. RunsInv'
  <2>1. RunsDistinct' /\ ClaimsExclusive'
    BY <1>1 DEF IInv, RunsInv, RunsDistinct, ClaimsExclusive
  <2>2. \A r \in runs : r.startedAt <= clock + 1
    BY <1>2 DEF Runs, RunsInTime
  <2>3. RunsInTime'
    BY <1>1, <1>2, <2>2 DEF RunsInTime
  <2> QED BY <2>1, <2>3 DEF RunsInv
<1>9. ASSUME NEW store, SaneStore(store, clock, putOff) PROVE SaneStore(store, clock', putOff)
  <2>1. ASSUME NEW j \in Jobs, Sane(j, store[j], clock, putOff)
        PROVE  Sane(j, store[j], clock', putOff)
    <3>1. store[j].lastRun \in Nat
      BY <2>1, StateFields DEF Sane, Fields
    <3>2. store[j].lastRun <= clock'
      BY <1>1, <1>2, <2>1, <3>1 DEF Sane
    <3> QED BY <2>1, <3>2 DEF Sane
  <2> QED BY <1>9, <2>1 DEF SaneStore
<1>11. StoresInv'
  <2>1. StoresSane'
    BY <1>1, <1>2, <1>9 DEF StoresSane
  <2>2. StoresAgree' /\ StoresOwned' /\ FreshUnknown'
    BY <1>1 DEF IInv, StoresInv, StoresAgree, StoresOwned, FreshUnknown
  <2>4. ClaimsGuarded'
    BY <1>1 DEF IInv, StoresInv, ClaimsGuarded
  <2> QED BY <2>1, <2>2, <2>4 DEF StoresInv
<1> QED BY <1>3, <1>4, <1>6, <1>8, <1>11 DEF IInv, ControlInv

LEMMA RecheckStep == ASSUME IInv, RecheckLater PROVE IInv'
<1>1. /\ timer /\ timer' = TRUE
      /\ UNCHANGED <<clock, crashes, disk, phase, mem, ticking, todo, deferred, interrupted,
                     reloaded, manual, runs, fresh, released, putOff, requests, failures>>
  BY DEF RecheckLater, history
<1>2. StateOK /\ BatchesKnown /\ ManualExact
  BY DEF IInv, ControlInv
<1>3. phase # "boot"
  BY <1>1, <1>2 DEF BatchesKnown
<1>4. StoresInv' /\ RunsInv'
  BY <1>1, <1>3, SameStores
<1>5. StateOK' /\ TimerArmed' /\ ManualExact'
  BY <1>1, <1>2 DEF StateOK, TimerArmed, ManualExact
<1>6. BatchesKnown'
  BY <1>1, <1>2, <1>3 DEF BatchesKnown
<1> QED BY <1>4, <1>5, <1>6 DEF IInv, ControlInv

LEMMA InitInvariant == Init => IInv
<1> SUFFICES ASSUME Init PROVE IInv
  OBVIOUS
<1>1. StateOK
  <2>1. clock \in 1..MaxTime
    BY Numbers DEF Init
  <2>2. requests \in 0..MaxEvents /\ failures \in 0..MaxEvents /\ crashes \in 0..MaxEvents
    BY Numbers DEF Init
  <2>3. /\ timer \in BOOLEAN /\ ticking \in BOOLEAN /\ reloaded \in BOOLEAN
        /\ todo \in [By -> SUBSET Jobs]
    BY DEF Init
  <2>4. /\ fresh \subseteq Jobs /\ released \subseteq Jobs /\ putOff \subseteq Jobs
        /\ deferred \subseteq Jobs /\ interrupted \subseteq OneShots /\ runs \subseteq Runs
    BY DEF Init
  <2>5. /\ phase \in {"boot", "plan", "catchup", "arm", "up", "failed"}
        /\ manual \in Manuals \cup {NoManual}
    BY DEF Init
  <2> QED BY <2>1, <2>2, <2>3, <2>4, <2>5 DEF StateOK
<1>2. \A j \in Jobs : ~Claimed(j, runs, todo)
  BY DEF Init, Claimed
<1>3. \A by \in By : Batch(by, runs, todo) = {}
  BY DEF Init, Batch, Started, Of
<1>4. TimerArmed /\ ManualExact
  BY DEF Init, TimerArmed, ManualExact, NoManual
<1>5. BatchesKnown
  BY <1>3 DEF Init, BatchesKnown, By
<1>6. RunsInv
  BY DEF Init, RunsInv, RunsDistinct, RunsInTime, ClaimsExclusive, Exclusive
<1>7. SaneStore(disk, clock, putOff)
  <2>1. ASSUME NEW j \in Jobs PROVE disk[j] = Absent \/ Sane(j, disk[j], clock, putOff)
    <3>1. CASE j \notin Stored
      BY <3>1 DEF Init
    <3>2. CASE j \in Stored
      <4>1. PICK q : q = NewJob(j, FALSE)
        OBVIOUS
      <4>2. disk[j] = q /\ clock \in Nat
        BY <3>2, <4>1 DEF Init
      <4>3. Sane(j, q, clock, putOff)
        BY <4>1, <4>2, NewJobSane
      <4> QED BY <4>2, <4>3
    <3> QED BY <3>1, <3>2
  <2>2. DOMAIN disk = Jobs /\ disk = [j \in Jobs |-> disk[j]]
    BY DEF Init
  <2> QED BY <2>1, <2>2, SaneStoreIs
<1>8. SaneStore(mem, clock, putOff)
  BY SaneStoreIs DEF Init
<1>9. StoresAgree /\ StoresOwned
  BY DEF Init, StoresAgree, StoresOwned
<1>10. FreshUnknown
  BY <1>2 DEF Init, FreshUnknown
<1>11. ClaimsGuarded
  BY <1>2, UnclaimedIsFree DEF ClaimsGuarded
<1> QED BY <1>1, <1>4, <1>5, <1>6, <1>7, <1>8, <1>9, <1>10, <1>11
        DEF IInv, ControlInv, StoresInv, StoresSane

LEMMA NextInvariant == IInv /\ [Next]_vars => IInv'
<1> SUFFICES ASSUME IInv, [Next]_vars PROVE IInv'
  OBVIOUS
<1>1. ASSUME NEW ok \in BOOLEAN, ServiceStep(ok) PROVE IInv'
  BY <1>1, StartStep, PlanStep, ApplyCatchupStep, ArmFirstStep, TickStep, FinishTickStep,
     ReserveStep, FinishManualStep DEF ServiceStep
<1>2. ASSUME NEW ok \in BOOLEAN, RequestStep(ok) PROVE IInv'
  BY <1>2, ListStep, RemoveJobStep, AddStep, UpdateStep DEF RequestStep
<1>3. CASE UNCHANGED vars
  BY <1>3 DEF vars, service, history, IInv, ControlInv, RunsInv, StoresInv, StateOK, TimerArmed,
     Armed, BatchesKnown, ManualExact, RunsDistinct, RunsInTime, ClaimsExclusive, StoresSane,
     StoresAgree, StoresOwned, FreshUnknown, ClaimsGuarded
<1> QED BY <1>1, <1>2, <1>3, StartRunStep, PreflightStep, EndRunStep, RecheckStep, CrashStep,
        SlotPassesStep
        DEF Next

-----------------------------------------------------------------------------
(* Theorems *)

LEMMA InvariantHolds == Spec => []IInv
BY InitInvariant, NextInvariant, PTL DEF Spec

(* The service has its types, the timer of a started service is armed while *)
(* the disk holds a scheduled job, and a marker on disk has a run that will *)
(* clear it (armTimer, persist, applyOutcomeToStoredJob), in every          *)
(* interleaving of ticks, runs, requests and crashes.                       *)
THEOREM SchedulerStaysHealthy == Spec => []SchedulerHealthy
<1>1. ASSUME IInv PROVE SchedulerHealthy
  <2>1. StateOK /\ TimerArmed /\ StoresSane /\ StoresAgree /\ StoresOwned
    BY <1>1 DEF IInv, ControlInv, StoresInv
  <2>2. TypeOK
    <3>1. disk \in Stores /\ mem \in Stores
      BY <2>1 DEF StoresSane, SaneStore
    <3>2. manual = NoManual \/ manual.job \in Jobs
      BY <2>1 DEF StateOK, Manuals
    <3>3. \A r \in runs : r.job \in Jobs /\ r.status \in Outcomes \cup {"running"}
      BY <2>1 DEF StateOK, Runs
    <3> QED BY <2>1, <3>1, <3>2, <3>3 DEF TypeOK, StateOK
  <2>3. SchedulerAlive
    <3> SUFFICES ASSUME failures = 0, phase = "up", NEW j \in Jobs, Scheduled(disk[j])
                 PROVE  timer
      BY DEF SchedulerAlive
    <3>1. SameSchedule(disk[j], mem[j])
      BY <2>1 DEF StoresAgree
    <3>2. Scheduled(mem[j])
      BY <3>1 DEF SameSchedule, Scheduled
    <3> QED BY <2>1, <3>2 DEF TimerArmed, Armed
  <2>4. MarkersOwned
    BY <2>1 DEF MarkersOwned, StoresOwned, Owned, Claimed, Present
  <2> QED BY <2>2, <2>3, <2>4 DEF SchedulerHealthy
<1> QED BY <1>1, InvariantHolds, PTL

(* A job never runs twice at once, whether onTimer, the catch-up or a       *)
(* request starts it, unless it was disabled, run by hand while disabled,   *)
(* or its runningAtMs was older than STUCK_RUN_MS when the store was        *)
(* maintained: until then the marker is set while the job is claimed.  How  *)
(* long a run takes, and how many jobs a tick runs, is not assumed.         *)
THEOREM NoJobRunsTwiceAtOnce == Spec => []NoConcurrentRun
<1>1. ASSUME IInv PROVE NoConcurrentRun
  <2>1. ClaimsExclusive /\ \A r \in runs : r.job \in Jobs
    BY <1>1 DEF IInv, ControlInv, RunsInv, StateOK, Runs
  <2> QED BY <2>1 DEF NoConcurrentRun, ClaimsExclusive, Exclusive
<1> QED BY <1>1, InvariantHolds, PTL

(* The timer and the catch-up do not run a one-shot that ran ok at or after *)
(* its time (computeJobNextRunAtMs, applyJobResult), unless the catch-up    *)
(* put it off, it was disabled or run by hand while disabled, or its marker *)
(* was cleared as stuck.                                                    *)
THEOREM OneShotsRunOnce == Spec => []OneShotOnce
<1>1. ASSUME IInv PROVE OneShotOnce
  <2> SUFFICES ASSUME NEW r \in runs, Running(r), r.by # "manual", r.job \in OneShots,
                      Present(disk, r.job), r.job \notin putOff \cup released
               PROVE  disk[r.job].lastStatus # "ok" \/ At[r.job] > disk[r.job].lastRun
    BY DEF OneShotOnce
  <2>1. r.job \in Jobs /\ r.by \in By
    BY <1>1 DEF IInv, ControlInv, StateOK, Runs
  <2>2. r.job \in Batch(r.by, runs, todo)
    BY <2>1 DEF Batch, Started, Of
  <2>3. Guard(r.job, disk[r.job], runs, todo, putOff)
    BY <1>1, <2>1 DEF IInv, StoresInv, ClaimsGuarded
  <2>4. NotDone(r.job, disk[r.job])
    BY <2>1, <2>2, <2>3 DEF Guard, Present, Claimed
  <2> QED BY <2>4 DEF NotDone
<1> QED BY <1>1, InvariantHolds, PTL

(* The steps that may put off the slot of job j. *)
Exempt(j) ==
  \/ ArmFirst(TRUE)
  \/ ApplyCatchup(TRUE) /\ j \in deferred
  \/ \E k \in Jobs, delete \in BOOLEAN : Add(k, delete, TRUE)
  \/ Update(j, "enable", TRUE)

(* A due slot that no other step and no end of a run of the job may move. *)
Unmoved(j) ==
  /\ failures = 0 /\ disk[j] # Absent /\ Due(disk[j], clock)
  /\ ~Exempt(j) /\ \A r \in runs : r.job = j => r \in runs'

LEMMA DueRecord ==
  ASSUME IInv, NEW j \in Jobs, Unmoved(j)
  PROVE  /\ disk[j].next \in Nat /\ disk[j].enabled
         /\ phase # "boot" => /\ mem[j] # Absent /\ mem[j].enabled
                              /\ mem[j].next = disk[j].next /\ Due(mem[j], clock)
<1>1. disk[j].next \in Nat /\ disk[j].enabled
  BY StateFields DEF IInv, StoresInv, StoresSane, SaneStore, Sane, Fields, Unmoved, Due
<1>2. ASSUME phase # "boot" PROVE SameSchedule(disk[j], mem[j])
  BY <1>2 DEF IInv, StoresInv, StoresAgree, Unmoved
<1> QED BY <1>1, <1>2 DEF SameSchedule, Unmoved, Due

LEMMA WrittenSlot ==
  ASSUME NEW j \in Jobs, disk[j].next \in Nat, NEW store, Writes(store),
         store[j] # Absent => store[j].next <= disk[j].next
  PROVE  disk'[j] # Absent => disk'[j].next <= disk[j].next
BY DEF Writes

(* A write that fails leaves the disk. *)
LEMMA FailedWrite ==
  ASSUME NEW ok \in BOOLEAN, NEW before, NEW store, ok # TRUE,
         Persist(store, ok) \/ PersistIfChanged(before, store, ok)
  PROVE  disk' = disk
BY DEF Persist, PersistIfChanged

LEMMA ServiceKeepsSlot ==
  ASSUME IInv, NEW ok \in BOOLEAN, ServiceStep(ok), NEW j \in Jobs, Unmoved(j)
  PROVE  disk'[j] # Absent => disk'[j].next <= disk[j].next
<1>1. /\ clock \in Nat /\ runs \subseteq Runs /\ RunsInTime /\ ManualExact /\ BatchesKnown
      /\ StateOK /\ SaneStore(mem, clock, putOff) /\ SaneStore(disk, clock, putOff)
  BY CountsOK DEF IInv, ControlInv, RunsInv, StateOK, StoresInv, StoresSane
<1>2. /\ disk[j].next \in Nat /\ disk[j].enabled /\ disk[j] # Absent /\ Due(disk[j], clock)
      /\ phase # "boot" => /\ mem[j] # Absent /\ mem[j].enabled
                           /\ mem[j].next = disk[j].next
  BY DueRecord DEF Unmoved
<1>3. disk[j].next <= disk[j].next
  BY <1>2
<1>4. CASE Start(ok)
  <2>1. PICK marked : marked = {i \in Jobs : Present(disk, i) /\ disk[i].running # 0}
    OBVIOUS
  <2>2. PICK store :
          store = [i \in Jobs |-> IF i \in marked THEN [disk[i] EXCEPT !.running = 0] ELSE disk[i]]
    OBVIOUS
  <2>3. PersistIfChanged(disk, store, ok)
    BY <1>4, <2>1, <2>2 DEF Start
  <2>4. Writes(store)
    BY <2>3, PersistIfChangedWrites DEF Writes
  <2>5. PICK r : r = disk[j]
    OBVIOUS
  <2>6. r \in JobStates
    BY <1>1, <1>2, <2>5 DEF SaneStore, Sane
  <2>7. PICK q : q = [r EXCEPT !.running = 0]
    OBVIOUS
  <2>8. q.next = r.next
    BY <2>6, <2>7, SetRunning
  <2>9. store[j] \in {q, r}
    BY <2>2, <2>5, <2>7
  <2> QED BY <1>2, <1>3, <2>4, <2>5, <2>8, <2>9, WrittenSlot
<1>5. ASSUME NEW now \in SUBSET Jobs, Plan(now, ok)
      PROVE  disk'[j] # Absent => disk'[j].next <= disk[j].next
  <2>1. PICK store : store = Marked(mem, now)
    OBVIOUS
  <2>2. /\ phase = "plan" /\ (disk' = disk \/ Persist(store, ok)) /\ \A i \in now : mem[i] # Absent
    BY <1>5, <2>1 DEF Plan, Missed, Present
  <2>3. /\ \A i \in Jobs \ now : store[i] = mem[i]
        /\ \A i \in now : store[i].next = mem[i].next
    BY <1>1, <2>1, <2>2, MarkedStore
  <2>4. store[j].next = disk[j].next
    BY <1>2, <2>2, <2>3
  <2> QED BY <1>2, <1>3, <2>2, <2>4, PersistWrites, WrittenSlot
<1>6. ASSUME NEW by \in By, NEW base, base = mem \/ base = disk, phase # "boot", Idle(by),
             runs' = runs \ Results(by),
             NEW applied, applied = ApplyOutcomes(base, Results(by))
      PROVE  SaneStore(applied, clock, putOff) /\ applied[j] = base[j]
  <2>1. \A r \in Results(by) : Ended(r, clock)
    BY <1>1, <1>6 DEF Idle, Results, Ended, RunsInTime
  <2>2. ~\E r \in Results(by) : r.job = j
    BY <1>6 DEF Unmoved, Results
  <2>3. SaneStore(base, clock, putOff)
    BY <1>1, <1>6
  <2> QED BY <1>1, <1>6, <2>1, <2>2, <2>3, ApplyOutcomesStore
<1>7. CASE ApplyCatchup(ok)
  <2>1. PICK applied : applied = ApplyOutcomes(mem, Results("startup"))
    OBVIOUS
  <2>2. PICK later : later = {i \in deferred : Present(applied, i) /\ applied[i].enabled}
    OBVIOUS
  <2>3. PICK staggered : staggered = [i \in Jobs |->
          IF i \in later THEN [applied[i] EXCEPT !.next = clock + 1] ELSE applied[i]]
    OBVIOUS
  <2>4. PICK store : store = Maintained(staggered, FALSE)
    OBVIOUS
  <2>5. /\ phase = "catchup" /\ Idle("startup") /\ Persist(store, ok)
        /\ runs' = runs \ Results("startup")
    BY <1>7, <2>1, <2>2, <2>3, <2>4 DEF ApplyCatchup
  <2>6. applied[j] = mem[j]
    BY <1>6, <2>1, <2>5 DEF By
  <2>18. CASE ok # TRUE
    BY <1>3, <2>5, <2>18, FailedWrite
  <2> SUFFICES ASSUME ok = TRUE PROVE disk'[j] # Absent => disk'[j].next <= disk[j].next
    BY <2>18
  <2>7. j \notin later
    BY <1>7, <2>2 DEF Unmoved, Exempt
  <2>8. staggered[j] = mem[j]
    BY <2>3, <2>6, <2>7
  <2>9. PICK n : n = Normalized(mem[j])
    OBVIOUS
  <2>10. PICK q : q = IF n.enabled /\ (n.next = 0 \/ (FALSE /\ SlotExecuted(j, n)))
                      THEN Recomputed(j, n) ELSE n
    OBVIOUS
  <2>11. store[j] = q
    BY <1>2, <2>4, <2>5, <2>8, <2>9, <2>10 DEF Maintained, Present
  <2>12. PICK r : r = mem[j]
    OBVIOUS
  <2>13. Sane(j, r, clock, putOff) /\ r.enabled /\ n = Normalized(r)
    BY <1>1, <1>2, <2>5, <2>9, <2>12 DEF SaneStore
  <2>14. PICK e \in BOOLEAN : e = FALSE
    OBVIOUS
  <2>15. q = IF n.enabled /\ (n.next = 0 \/ (e /\ SlotExecuted(j, n)))
             THEN Recomputed(j, n) ELSE n
    BY <2>10, <2>14
  <2>16. r.enabled /\ ~e => q.next = r.next
    BY ONLY <1>1, j \in Jobs, <2>13, <2>14, <2>15, MaintainedRecord
  <2>17. store[j].next = disk[j].next
    BY <1>2, <2>5, <2>11, <2>12, <2>13, <2>14, <2>16
  <2> QED BY <1>2, <1>3, <2>5, <2>17, PersistWrites, WrittenSlot
<1>8. CASE ArmFirst(ok)
  <2>1. ok # TRUE
    BY <1>8 DEF Unmoved, Exempt
  <2>2. PersistIfChanged(mem, RecomputeNextRuns(mem), ok)
    BY <1>8 DEF ArmFirst
  <2> QED BY <1>3, <2>1, <2>2, FailedWrite
<1>9. CASE Tick(ok)
  <2>1. PICK due :
          due = {i \in Jobs : Present(disk, i) /\ Due(disk[i], clock) /\ disk[i].running = 0}
    OBVIOUS
  <2>2. PICK kept : kept = Maintained(disk, TRUE)
    OBVIOUS
  <2>3. PICK store : store = Marked(disk, due)
    OBVIOUS
  <2>4. Persist(store, ok) \/ PersistIfChanged(disk, kept, ok)
    BY <1>9, <2>1, <2>2, <2>3 DEF Tick, Reload
  <2>5. Writes(store) \/ Writes(kept)
    BY <2>4, PersistWrites, PersistIfChangedWrites DEF Writes
  <2>6. kept[j].next <= disk[j].next
    BY <1>1, <1>2, <2>2, MaintainedStore
  <2>7. store[j].next = disk[j].next
    <3>1. \A i \in due : disk[i] # Absent
      BY <2>1 DEF Present
    <3> QED BY <1>1, <2>1, <2>3, <3>1, MarkedStore
  <2> QED BY <1>2, <1>3, <2>5, <2>6, <2>7, WrittenSlot
<1>10. CASE FinishTick(ok)
  <2>1. PICK applied : applied = ApplyOutcomes(disk, Results("tick"))
    OBVIOUS
  <2>2. PICK store : store = Maintained(applied, FALSE)
    OBVIOUS
  <2>3. /\ ticking /\ Idle("tick") /\ Persist(store, ok) /\ runs' = runs \ Results("tick")
    BY <1>10, <2>1, <2>2 DEF FinishTick, Reload
  <2>4. phase # "boot"
    BY <1>1, <2>3 DEF BatchesKnown
  <2>5. SaneStore(applied, clock, putOff) /\ applied[j] = disk[j]
    <3>1. "tick" \in By
      BY DEF By
    <3> QED BY <1>6, <2>1, <2>3, <2>4, <3>1
  <2>6. store[j].next = disk[j].next
    <3>1. PICK e \in BOOLEAN : e = FALSE
      OBVIOUS
    <3>2. store = Maintained(applied, e)
      BY <2>2, <3>1
    <3> QED BY <1>1, <1>2, <2>5, <3>1, <3>2, MaintainedStore
  <2> QED BY <1>2, <1>3, <2>3, <2>6, PersistWrites, WrittenSlot
<1>11. CASE Reserve(ok)
  <2>1. phase # "boot"
    BY <1>1, <1>11 DEF Reserve, BatchesKnown, NoManual
  <2>2. PICK store : store = [mem EXCEPT ![manual.job].running = manual.now]
    OBVIOUS
  <2>3. Persist(store, ok) \/ disk' = disk
    BY <1>11, <2>2 DEF Reserve
  <2>4. PICK r : r = mem[j]
    OBVIOUS
  <2>5. r \in JobStates /\ mem \in Stores
    BY <1>1, <1>2, <2>1, <2>4 DEF SaneStore, Sane
  <2>6. PICK q : q = [r EXCEPT !.running = manual.now]
    OBVIOUS
  <2>7. store[j] \in {q, r} /\ q.next = r.next
    BY <2>2, <2>4, <2>5, <2>6 DEF Stores, JobStates
  <2> QED BY <1>2, <1>3, <2>1, <2>3, <2>4, <2>7, PersistWrites, WrittenSlot
<1>12. CASE FinishManual(ok)
  <2>1. PICK run : run = CHOOSE r \in runs : r.by = "manual"
    OBVIOUS
  <2>2. PICK applied : applied = ApplyOutcome(mem, run)
    OBVIOUS
  <2>3. PICK merged :
          merged = IF Present(applied, manual.job) /\ ~Present(disk, manual.job) THEN disk
                   ELSE Replace(disk, manual.job, applied[manual.job])
    OBVIOUS
  <2>4. PICK store : store = Maintained(merged, TRUE)
    OBVIOUS
  <2>5. /\ manual.step = "run" /\ runs' = runs \ {run} /\ ~Running(run)
        /\ Persist(store, ok) \/ disk' = disk
    BY <1>12, <2>1, <2>2, <2>3, <2>4 DEF FinishManual, Replace
  <2>6. run \in runs /\ run.by = "manual" /\ run.job = manual.job
    BY <1>1, <2>1, <2>5 DEF ManualExact
  <2>7. j # manual.job /\ manual.job \in Jobs
    BY <1>1, <2>5, <2>6 DEF Unmoved, Runs
  <2>8. SaneStore(applied, clock, putOff)
    <3>1. Ended(run, clock)
      BY <1>1, <2>5, <2>6 DEF Ended, RunsInTime
    <3> QED BY <1>1, <2>2, <3>1, ApplyOutcomeStore
  <2>9. SaneStore(merged, clock, putOff) /\ merged[j] = disk[j]
    <3>1. CASE merged = disk
      BY <1>1, <3>1
    <3>2. CASE merged = Replace(disk, manual.job, applied[manual.job])
      <4>1. PICK r : r = applied[manual.job]
        OBVIOUS
      <4>2. r = Absent \/ Sane(manual.job, r, clock, putOff)
        BY <2>7, <2>8, <4>1 DEF SaneStore
      <4> QED BY <1>1, <2>7, <3>2, <4>1, <4>2, ReplacedStore
    <3> QED BY <2>3, <3>1, <3>2
  <2>10. store[j].next <= disk[j].next
    BY <1>1, <1>2, <2>4, <2>9, MaintainedStore
  <2> QED BY <1>2, <1>3, <2>5, <2>10, PersistWrites, WrittenSlot
<1> QED BY <1>4, <1>5, <1>7, <1>8, <1>9, <1>10, <1>11, <1>12 DEF ServiceStep

LEMMA RequestKeepsSlot ==
  ASSUME IInv, NEW ok \in BOOLEAN, RequestStep(ok), NEW j \in Jobs, Unmoved(j)
  PROVE  disk'[j] # Absent => disk'[j].next <= disk[j].next
<1>1. clock \in Nat /\ SaneStore(mem, clock, putOff)
  BY CountsOK DEF IInv, ControlInv, StoresInv, StoresSane
<1>2. /\ disk[j].next \in Nat /\ disk[j].next <= disk[j].next
      /\ phase # "boot" => /\ mem[j] # Absent /\ mem[j].enabled /\ mem[j].next = disk[j].next
                           /\ Due(mem[j], clock)
  BY DueRecord
<1>3. CASE List(ok)
  <2>0. PICK e \in BOOLEAN : e = FALSE
    OBVIOUS
  <2>1. PICK store : store = Maintained(mem, e)
    OBVIOUS
  <2>2. phase # "boot" /\ PersistIfChanged(mem, store, ok)
    BY <1>3, <2>0, <2>1 DEF List, Serving
  <2>3. store[j].next = mem[j].next
    BY <1>1, <1>2, <2>0, <2>1, <2>2, MaintainedStore
  <2>4. store[j].next <= disk[j].next
    BY <1>2, <2>2, <2>3
  <2>5. Writes(store) \/ disk' = disk
    BY <2>2, PersistIfChangedWrites
  <2> QED BY <1>2, <2>4, <2>5, WrittenSlot
<1>4. ASSUME NEW store, Change(store, ok), store[j] # Absent => store[j].next <= disk[j].next
      PROVE  disk'[j] # Absent => disk'[j].next <= disk[j].next
  <2>1. Writes(store)
    BY <1>4, PersistWrites DEF Change
  <2> QED BY <1>2, <1>4, <2>1, WrittenSlot
<1>5. ASSUME NEW k \in Jobs, RemoveJob(k, ok)
      PROVE  disk'[j] # Absent => disk'[j].next <= disk[j].next
  <2>1. PICK store : store = [mem EXCEPT ![k] = Absent]
    OBVIOUS
  <2>2. Change(store, ok) /\ phase # "boot"
    BY <1>5, <2>1 DEF RemoveJob, Change, Serving
  <2>3. store[j] \in {mem[j], Absent}
    BY <1>1, <2>1 DEF SaneStore, Stores
  <2> QED BY <1>2, <1>4, <2>2, <2>3
<1>6. ASSUME NEW k \in Jobs, NEW delete \in BOOLEAN, Add(k, delete, ok)
      PROVE  disk'[j] # Absent => disk'[j].next <= disk[j].next
  <2>1. ok # TRUE
    BY <1>6 DEF Unmoved, Exempt
  <2>2. PICK store : Persist(store, ok)
    BY <1>6 DEF Add, Change
  <2> QED BY <1>2, <2>1, <2>2, FailedWrite
<1>7. ASSUME NEW k \in Jobs, NEW patch \in {"enable", "disable", "other"}, Update(k, patch, ok)
      PROVE  disk'[j] # Absent => disk'[j].next <= disk[j].next
  <2>1. PICK store : store = [mem EXCEPT ![k] = Patched(k, mem[k], patch)]
    OBVIOUS
  <2>2. Change(store, ok) /\ phase # "boot"
    BY <1>7, <2>1 DEF Update, Change, Serving
  <2>3. CASE k # j
    <3>1. store[j] = mem[j]
      BY <2>1, <2>3
    <3> QED BY <1>2, <1>4, <2>2, <3>1
  <2>4. CASE ok # TRUE
    BY <1>2, <2>2, <2>4, FailedWrite DEF Change
  <2>5. CASE k = j /\ ok = TRUE
    <3>1. patch # "enable"
      BY <1>7, <2>5 DEF Unmoved, Exempt
    <3>2. PICK r : r = mem[j]
      OBVIOUS
    <3>3. r \in JobStates /\ mem \in Stores
      BY <1>1, <1>2, <2>2, <3>2 DEF SaneStore, Sane
    <3>4. store[j] = Patched(j, r, patch)
      BY <2>1, <2>5, <3>2, <3>3 DEF Stores
    <3>5. CASE patch = "other"
      <4>1. r.next # 0
        BY <1>2, <2>2, <3>2 DEF Due
      <4>2. store[j] = r
        BY <3>4, <3>5, <4>1 DEF Patched
      <4> QED BY <1>2, <1>4, <2>2, <3>2, <4>2
    <3>6. CASE patch = "disable"
      <4>1. store[j].next = 0
        BY <3>3, <3>4, <3>6 DEF Patched, JobStates
      <4>2. store[j].next <= disk[j].next
        BY <1>2, <4>1
      <4> QED BY <1>4, <2>2, <4>2
    <3> QED BY <3>1, <3>5, <3>6
  <2> QED BY <2>3, <2>4, <2>5
<1> QED BY <1>3, <1>5, <1>6, <1>7 DEF RequestStep

(* While writes succeed a due slot is not advanced without a run: no tick,  *)
(* no result of another job and no list moves it                            *)
(* (recomputeNextRunsForMaintenance).  The last section of start and add    *)
(* (recomputeNextRuns) do, and so do the stagger of the jobs the catch-up   *)
(* deferred and the enabling of the job.                                    *)
THEOREM DueSlotsStay == Spec => DueSlotsKept
<1> DEFINE Slot(j) == SilentlyAdvanced(j) => Exempt(j)
<1>1. ASSUME IInv, IInv', Next, NEW j \in Jobs PROVE Slot(j)
  <2> SUFFICES ASSUME SilentlyAdvanced(j), ~Exempt(j) PROVE FALSE
    OBVIOUS
  <2>0. Unmoved(j) /\ disk'[j] # Absent /\ disk'[j].next > disk[j].next
    BY DEF SilentlyAdvanced, Unmoved, Present
  <2>1. disk[j].next \in Nat /\ disk'[j].next \in Nat
    <3>1. disk[j] \in JobStates /\ disk'[j] \in JobStates
      BY <1>1, <2>0 DEF Unmoved, IInv, StoresInv, StoresSane, SaneStore, Sane
    <3>2. Fields(disk[j]) /\ Fields(disk'[j])
      BY <3>1, StateFields
    <3> QED BY <3>2 DEF Fields
  <2>2. ~(disk'[j].next <= disk[j].next)
    BY <2>0, <2>1
  <2>3. disk' # disk
    BY <2>0, <2>1
  <2>4. PICK ok \in BOOLEAN : ServiceStep(ok) \/ RequestStep(ok)
    BY <1>1, <2>3 DEF Next, StartRun, Preflight, EndRun, RecheckLater, Crash, SlotPasses
  <2>5. ~ServiceStep(ok)
    BY <1>1, <2>0, <2>2, ServiceKeepsSlot
  <2> QED BY <1>1, <2>0, <2>2, <2>4, <2>5, RequestKeepsSlot
<1>2. ASSUME IInv, IInv', [Next]_vars
      PROVE  [\A j \in Jobs : Slot(j)]_vars
  BY <1>1, <1>2
<1> QED BY <1>2, InvariantHolds, PTL DEF Spec, DueSlotsKept, Exempt

=============================================================================
