------------------------------ MODULE ReplyRuns -----------------------------
(***************************************************************************)
(* The registry of reply runs, src/auto-reply/reply/reply-run-registry.ts:  *)
(* one operation per session key at a time, found by its key and by its     *)
(* current session id, aborted by the user or for a restart, and awaited by *)
(* key or by any session id it has had.                                     *)
(*                                                                          *)
(* Actors: the code of each operation (agent-runner, followup-runner), that *)
(* holds its operation object until its finally has called complete, even   *)
(* after an abort removed the operation from the registry; callers that     *)
(* abort; callers that wait.  Every call is synchronous, so it is one step. *)
(*                                                                          *)
(* Abstractions.  preflight_compacting and memory_flushing are one phase,   *)
(* told apart nowhere.  A session id is made for one session key (ids are   *)
(* fresh UUIDs of a session entry).  A backend reports nothing but whether  *)
(* it is compacting, which is any answer while it runs.                     *)
(***************************************************************************)
EXTENDS Naturals, FiniteSets

CONSTANTS Ops,        \* operations, each created once
          Keys,       \* session keys
          SessionIds, \* session ids
          KeyOf,      \* the session key each id was made for
          Waiters,    \* callers of waitForIdle and waitForReplyRunEndBySessionId
          None        \* no operation, key or id

ASSUME KeysAssumption ==
  /\ None \notin Ops \cup Keys \cup SessionIds
  /\ KeyOf \in [SessionIds -> Keys]
  /\ Keys \cap {"new", "ended", "timed_out"} = {}

VARIABLES code,        \* whether the code of an operation runs
          key, sid,    \* key and current session id of each operation
          phase, result,
          stateCleared,
          backend,     \* the backend of each operation
          signal,      \* operations whose abort signal has fired
          activeRunsByKey,
          activeSessionIdsByKey,
          activeKeysBySessionId,
          waitKeysBySessionId,
          waiting,     \* the key each waiter waits for, or how its wait ended
          hadIds       \* session ids an operation has had

registry == <<activeRunsByKey, activeSessionIdsByKey, activeKeysBySessionId,
              waitKeysBySessionId, waiting>>
operation == <<key, sid, phase, result, stateCleared, signal, hadIds>>
vars == <<code, operation, backend, registry>>

Phases == {"queued", "compacting", "running", "completed", "failed", "aborted"}
Results == {"none", "completed", "failed", "aborted_by_user", "aborted_for_restart"}
Aborts == {"aborted_by_user", "aborted_for_restart"}

(* Every variable has the type the code gives it. *)
TypeOK ==
  /\ code \in [Ops -> {"new", "runs", "done"}]
  /\ key \in [Ops -> Keys \cup {None}] /\ sid \in [Ops -> SessionIds \cup {None}]
  /\ phase \in [Ops -> Phases] /\ result \in [Ops -> Results]
  /\ stateCleared \subseteq Ops /\ signal \subseteq Ops
  /\ backend \in [Ops -> {"none", "live", "cancelled"}]
  /\ activeRunsByKey \in [Keys -> Ops \cup {None}]
  /\ activeSessionIdsByKey \in [Keys -> SessionIds \cup {None}]
  /\ activeKeysBySessionId \in [SessionIds -> Keys \cup {None}]
  /\ waitKeysBySessionId \in [SessionIds -> Keys \cup {None}]
  /\ waiting \in [Waiters -> Keys \cup {"new", "ended", "timed_out"}]
  /\ hadIds \in [Ops -> SUBSET SessionIds]

Init ==
  /\ code = [o \in Ops |-> "new"]
  /\ key = [o \in Ops |-> None] /\ sid = [o \in Ops |-> None]
  /\ phase = [o \in Ops |-> "queued"] /\ result = [o \in Ops |-> "none"]
  /\ stateCleared = {} /\ signal = {}
  /\ backend = [o \in Ops |-> "none"]
  /\ activeRunsByKey = [k \in Keys |-> None]
  /\ activeSessionIdsByKey = [k \in Keys |-> None]
  /\ activeKeysBySessionId = [s \in SessionIds |-> None]
  /\ waitKeysBySessionId = [s \in SessionIds |-> None]
  /\ waiting = [w \in Waiters |-> "new"]
  /\ hadIds = [o \in Ops |-> {}]

-----------------------------------------------------------------------------
(* The registry *)

(* createReplyOperation: refused while the key has a run. *)
CreateReplyOperation(o, s) ==
  LET k == KeyOf[s] IN
  /\ code[o] = "new"
  /\ activeRunsByKey[k] = None
  /\ code' = [code EXCEPT ![o] = "runs"]
  /\ key' = [key EXCEPT ![o] = k]
  /\ sid' = [sid EXCEPT ![o] = s]
  /\ hadIds' = [hadIds EXCEPT ![o] = {s}]
  /\ activeRunsByKey' = [activeRunsByKey EXCEPT ![k] = o]
  /\ activeSessionIdsByKey' = [activeSessionIdsByKey EXCEPT ![k] = s]
  /\ activeKeysBySessionId' = [activeKeysBySessionId EXCEPT ![s] = k]
  /\ waitKeysBySessionId' = [waitKeysBySessionId EXCEPT ![s] = k]
  /\ UNCHANGED <<phase, result, stateCleared, backend, signal, waiting>>

(* notifyReplyRunEnded, for the keys whose run has ended. *)
NotifyReplyRunEnded(cleared) ==
  waiting' = [w \in Waiters |-> IF waiting[w] \in cleared THEN "ended" ELSE waiting[w]]

(* clearReplyRunState, with clearWaitSessionIds, for a set of operations. *)
ClearReplyRunState(ended) ==
  LET cleared == {key[o] : o \in ended} IN
  /\ activeRunsByKey' =
       [k \in Keys |-> IF k \in cleared THEN None ELSE activeRunsByKey[k]]
  /\ activeSessionIdsByKey' =
       [k \in Keys |-> IF k \in cleared THEN None ELSE activeSessionIdsByKey[k]]
  /\ activeKeysBySessionId' =
       [s \in SessionIds |->
          IF \E o \in ended : sid[o] = s /\ activeKeysBySessionId[s] = key[o]
          THEN None ELSE activeKeysBySessionId[s]]
  /\ waitKeysBySessionId' =
       [s \in SessionIds |->
          IF waitKeysBySessionId[s] \in cleared THEN None ELSE waitKeysBySessionId[s]]
  /\ NotifyReplyRunEnded(cleared)

Mut_ClearTwice(ended) ==
  /\ stateCleared' = stateCleared \cup ended
  /\ ClearReplyRunState(ended)

(* clearState of an operation: only the first time. *)
ClearState(ended) ==
  /\ stateCleared' = stateCleared \cup ended
  /\ ClearReplyRunState(ended \ stateCleared)

Runs(o) == code[o] = "runs"

-----------------------------------------------------------------------------
(* The code of an operation *)

(* setPhase: before the run (preflight compaction, memory flush), then      *)
(* "running"; without effect once there is a result.                        *)
SetPhase(o) ==
  /\ Runs(o) /\ result[o] = "none" /\ backend[o] = "none"
  /\ \/ phase[o] = "queued" /\ phase' = [phase EXCEPT ![o] = "compacting"]
     \/ phase[o] \in {"queued", "compacting"} /\ phase' = [phase EXCEPT ![o] = "running"]
  /\ UNCHANGED <<code, key, sid, result, stateCleared, signal, hadIds, backend, registry>>

(* The lookups once an operation has a new session id. *)
LookupRebound(o, s) == [activeKeysBySessionId EXCEPT ![sid[o]] = None, ![s] = key[o]]

Mut_ForgetOldId(o, s) ==
  [waitKeysBySessionId EXCEPT ![sid[o]] = None, ![s] = key[o]]

(* Both ids lead a waiter to the operation. *)
WaitKeysRebound(o, s) ==
  [waitKeysBySessionId EXCEPT ![sid[o]] = key[o], ![s] = key[o]]

(* updateSessionId: a compaction or a memory flush has given the session a  *)
(* new id.  Refused if another key's run has it.                            *)
UpdateSessionId(o, s) ==
  /\ Runs(o) /\ result[o] = "none" /\ backend[o] = "none" /\ phase[o] = "compacting"
  /\ KeyOf[s] = key[o] /\ s # sid[o]
  /\ activeKeysBySessionId[s] \in {None, key[o]}
  /\ sid' = [sid EXCEPT ![o] = s]
  /\ hadIds' = [hadIds EXCEPT ![o] = @ \cup {s}]
  /\ activeSessionIdsByKey' = [activeSessionIdsByKey EXCEPT ![key[o]] = s]
  /\ activeKeysBySessionId' = LookupRebound(o, s)
  /\ waitKeysBySessionId' = WaitKeysRebound(o, s)
  /\ UNCHANGED <<code, key, phase, result, stateCleared, signal, backend,
                 activeRunsByKey, waiting>>

Mut_AttachAlways(o) ==
  /\ Runs(o) /\ backend[o] = "none"
  /\ phase[o] # "queued"
  /\ backend' = [backend EXCEPT ![o] = "live"]
  /\ UNCHANGED <<code, operation, registry>>

(* attachBackend, by the memory flush or by the run: a backend that comes   *)
(* after the result, or after the abort signal, is cancelled at once.       *)
AttachBackend(o) ==
  /\ Runs(o) /\ backend[o] = "none"
  /\ phase[o] # "queued"
  /\ backend' = [backend EXCEPT ![o] =
       IF result[o] # "none" \/ o \in signal THEN "cancelled" ELSE "live"]
  /\ UNCHANGED <<code, operation, registry>>

(* The backend returns and is detached. *)
DetachBackend(o) ==
  /\ Runs(o) /\ backend[o] # "none"
  /\ backend' = [backend EXCEPT ![o] = "none"]
  /\ UNCHANGED <<code, operation, registry>>

(* fail, after the backend has returned; the code goes on to its finally. *)
Fail(o) ==
  /\ Runs(o) /\ backend[o] = "none"
  /\ result[o] = "none"
  /\ result' = [result EXCEPT ![o] = "failed"]
  /\ phase' = [phase EXCEPT ![o] = "failed"]
  /\ ClearState({o})
  /\ UNCHANGED <<code, key, sid, signal, hadIds, backend>>

(* complete, in the finally: the result stands if there is one. *)
Complete(o) ==
  /\ Runs(o) /\ backend[o] = "none"
  /\ code' = [code EXCEPT ![o] = "done"]
  /\ IF result[o] = "none"
       THEN /\ result' = [result EXCEPT ![o] = "completed"]
            /\ phase' = [phase EXCEPT ![o] = "completed"]
       ELSE UNCHANGED <<result, phase>>
  /\ ClearState({o})
  /\ UNCHANGED <<key, sid, signal, hadIds, backend>>

-----------------------------------------------------------------------------
(* Callers *)

(* getAttachedBackend(operation)?.cancel(reason) *)
Cancelled(aborted) ==
  [o \in Ops |-> IF o \in aborted /\ backend[o] = "live" THEN "cancelled" ELSE backend[o]]

(* abortByUser or abortForRestart of operations in the registry: the result *)
(* is set, the signal fires, an attached backend is cancelled.  Only an     *)
(* operation that was still queued leaves the registry at once.             *)
AbortOps(aborted, as) ==
  /\ result' = [o \in Ops |-> IF o \in aborted /\ result[o] = "none" THEN as ELSE result[o]]
  /\ phase' = [o \in Ops |-> IF o \in aborted THEN "aborted" ELSE phase[o]]
  /\ signal' = signal \cup aborted
  /\ backend' = Cancelled(aborted)
  /\ ClearState({o \in aborted : phase[o] = "queued"})
  /\ UNCHANGED <<code, key, sid, hadIds>>

(* replyRunRegistry.abort *)
Abort(k) ==
  /\ activeRunsByKey[k] # None
  /\ AbortOps({activeRunsByKey[k]}, "aborted_by_user")

(* abortReplyRunBySessionId: through the current session id. *)
AbortBySessionId(s) ==
  /\ activeKeysBySessionId[s] # None
  /\ activeRunsByKey[activeKeysBySessionId[s]] # None
  /\ AbortOps({activeRunsByKey[activeKeysBySessionId[s]]}, "aborted_by_user")

Active == {o \in Ops : \E k \in Keys : activeRunsByKey[k] = o}

(* abortActiveReplyRuns: every run, or those that are compacting; a live    *)
(* backend may be compacting too.                                           *)
AbortActiveReplyRuns ==
  \E aborted \in {Active} \cup
      {{o \in Active : phase[o] = "compacting"} \cup b :
         b \in SUBSET {o \in Active : phase[o] = "running" /\ backend[o] # "none"}} :
    /\ aborted # {}
    /\ AbortOps(aborted, "aborted_for_restart")

(* The caller's own abort signal fires. *)
UpstreamAbort(o) ==
  /\ Runs(o) /\ o \notin signal
  /\ signal' = signal \cup {o}
  /\ UNCHANGED <<code, key, sid, phase, result, stateCleared, hadIds, backend, registry>>

(* resolveReplyRunWaitKey: by the current id, else by an earlier one. *)
WaitKey(s) ==
  IF activeKeysBySessionId[s] # None THEN activeKeysBySessionId[s]
  ELSE waitKeysBySessionId[s]

(* What a wait for a key, if there is one, returns or waits for. *)
WaitFor(k) == IF k = None THEN "ended"
              ELSE IF activeRunsByKey[k] = None THEN "ended" ELSE k

Wait(w, k) ==
  /\ waiting[w] = "new"
  /\ waiting' = [waiting EXCEPT ![w] = WaitFor(k)]
  /\ UNCHANGED <<code, operation, backend, activeRunsByKey, activeSessionIdsByKey,
                 activeKeysBySessionId, waitKeysBySessionId>>

(* waitForIdle *)
WaitForIdle(w, k) == Wait(w, k)

(* waitForReplyRunEndBySessionId *)
WaitBySessionId(w, s) == Wait(w, WaitKey(s))

WaitTimesOut(w) ==
  /\ waiting[w] \in Keys
  /\ waiting' = [waiting EXCEPT ![w] = "timed_out"]
  /\ UNCHANGED <<code, operation, backend, activeRunsByKey, activeSessionIdsByKey,
                 activeKeysBySessionId, waitKeysBySessionId>>

-----------------------------------------------------------------------------

Code(o) ==
  \/ SetPhase(o) \/ AttachBackend(o) \/ DetachBackend(o) \/ Fail(o) \/ Complete(o)

Next ==
  \/ \E o \in Ops :
       \/ Code(o) \/ UpstreamAbort(o)
       \/ \E s \in SessionIds : CreateReplyOperation(o, s) \/ UpdateSessionId(o, s)
  \/ \E k \in Keys : Abort(k)
  \/ \E s \in SessionIds : AbortBySessionId(s)
  \/ AbortActiveReplyRuns
  \/ \E w \in Waiters :
       \/ WaitTimesOut(w)
       \/ \E k \in Keys : WaitForIdle(w, k)
       \/ \E s \in SessionIds : WaitBySessionId(w, s)

Spec == Init /\ [][Next]_vars

-----------------------------------------------------------------------------

(* The registry holds exactly the operations that have not ended: an        *)
(* operation that was aborted while queued, and whose code ends after a     *)
(* successor has begun, does not take the successor with it.                *)
RegistryExact ==
  \A o \in Ops :
    (code[o] # "new" /\ o \notin stateCleared) <=> \E k \in Keys : activeRunsByKey[k] = o

(* A lookup by session id finds the run that has this id now, and finds it  *)
(* whenever there is one.                                                   *)
LookupsExact ==
  \A s \in SessionIds, k \in Keys :
    activeKeysBySessionId[s] = k <=>
      (activeRunsByKey[k] # None /\ sid[activeRunsByKey[k]] = s
         /\ activeSessionIdsByKey[k] = s)

(* The registry is consistent: its types, its operations and its lookups. *)
RegistryConsistent == TypeOK /\ RegistryExact /\ LookupsExact

(* At most one backend works for a session key, whatever was aborted and    *)
(* started again in between.                                                *)
OneBackendPerKey ==
  \A o, q \in Ops :
    backend[o] = "live" /\ backend[q] = "live" /\ key[o] = key[q] => o = q

(* No backend of an aborted operation keeps working, whether it was         *)
(* attached before or after the abort.                                      *)
AbortStopsBackend == \A o \in Ops : result[o] \in Aborts => backend[o] # "live"

(* Aborted work stops: one backend per key, none of an aborted operation. *)
BackendsStop == OneBackendPerKey /\ AbortStopsBackend

(* A wait by any session id a run has had finds that run. *)
OldIdsFindTheRun ==
  \A o \in Active : \A s \in hadIds[o] : WaitKey(s) = key[o]

(* Who waits for a key waits for a run, and hears of its end. *)
WaitersHearTheEnd ==
  \A w \in Waiters : waiting[w] \in Keys => activeRunsByKey[waiting[w]] # None

(* Waiters find the run they mean, by any id, and hear of its end. *)
WaitersServed == OldIdsFindTheRun /\ WaitersHearTheEnd
=============================================================================
