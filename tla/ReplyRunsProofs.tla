--------------------------- MODULE ReplyRunsProofs --------------------------
(***************************************************************************)
(* Theorems about ReplyRuns, for every set of operations, session keys,     *)
(* session ids and waiters.                                                 *)
(***************************************************************************)
EXTENDS ReplyRuns, TLAPS

-----------------------------------------------------------------------------
(* The inductive invariant *)

Started(o) == code[o] # "new"

(* An operation has the key and an id of its session, and its code ends     *)
(* only after it has cleared its state.                                     *)
OperationsAgree ==
  \A o \in Ops :
    /\ Started(o) => key[o] \in Keys /\ sid[o] \in SessionIds /\ sid[o] \in hadIds[o]
    /\ \A s \in hadIds[o] : KeyOf[s] = key[o]
    /\ code[o] = "done" => o \in stateCleared
    /\ ~Started(o) => o \notin stateCleared /\ backend[o] = "none"
    /\ o \in stateCleared => result[o] # "none"

(* A key leads to the one operation of that key whose state is not cleared. *)
KeysExact ==
  /\ \A o \in Ops : Started(o) /\ o \notin stateCleared => activeRunsByKey[key[o]] = o
  /\ \A k \in Keys, o \in Ops : activeRunsByKey[k] = o =>
       /\ Started(o) /\ o \notin stateCleared /\ key[o] = k
       /\ activeSessionIdsByKey[k] = sid[o]

(* Session ids lead to the key they were made for, if anywhere, and the ids *)
(* an active operation has had lead to it.                                  *)
WaitKeysExact ==
  /\ \A s \in SessionIds : waitKeysBySessionId[s] \in {None, KeyOf[s]}
  /\ \A o \in Ops : Started(o) /\ o \notin stateCleared =>
       \A s \in hadIds[o] : waitKeysBySessionId[s] = key[o]

(* A backend works only for an operation without a result. *)
LiveBackends == \A o \in Ops : backend[o] = "live" => result[o] = "none"

IInv ==
  /\ TypeOK /\ OperationsAgree /\ KeysExact /\ LookupsExact /\ WaitKeysExact
  /\ WaitersHearTheEnd /\ LiveBackends

-----------------------------------------------------------------------------
(* Type correctness *)

(* What clearing the state of operations leaves has its types. *)
LEMMA ClearTypes ==
  ASSUME TypeOK, NEW ended \in SUBSET Ops, ClearState(ended)
  PROVE  /\ stateCleared' \subseteq Ops
         /\ activeRunsByKey' \in [Keys -> Ops \cup {None}]
         /\ activeSessionIdsByKey' \in [Keys -> SessionIds \cup {None}]
         /\ activeKeysBySessionId' \in [SessionIds -> Keys \cup {None}]
         /\ waitKeysBySessionId' \in [SessionIds -> Keys \cup {None}]
         /\ waiting' \in [Waiters -> Keys \cup {"new", "ended", "timed_out"}]
BY DEF TypeOK, ClearState, ClearReplyRunState, NotifyReplyRunEnded

(* What an abort leaves has its types. *)
LEMMA AbortTypes ==
  ASSUME TypeOK, NEW aborted \in SUBSET Ops, NEW as \in Aborts, AbortOps(aborted, as)
  PROVE  TypeOK'
<1>1. /\ stateCleared' \subseteq Ops
      /\ activeRunsByKey' \in [Keys -> Ops \cup {None}]
      /\ activeSessionIdsByKey' \in [Keys -> SessionIds \cup {None}]
      /\ activeKeysBySessionId' \in [SessionIds -> Keys \cup {None}]
      /\ waitKeysBySessionId' \in [SessionIds -> Keys \cup {None}]
      /\ waiting' \in [Waiters -> Keys \cup {"new", "ended", "timed_out"}]
  <2>1. {o \in aborted : phase[o] = "queued"} \in SUBSET Ops
    OBVIOUS
  <2> QED BY <2>1, ClearTypes DEF AbortOps
<1>2. result' \in [Ops -> Results] /\ phase' \in [Ops -> Phases]
  BY DEF AbortOps, TypeOK, Results, Phases, Aborts
<1>3. signal' \subseteq Ops /\ backend' \in [Ops -> {"none", "live", "cancelled"}]
  BY DEF AbortOps, TypeOK, Cancelled
<1> QED BY <1>1, <1>2, <1>3 DEF AbortOps, TypeOK

(* A step of the specification keeps the type invariant. *)
LEMMA TypeStep == TypeOK /\ [Next]_vars => TypeOK'
<1> SUFFICES ASSUME TypeOK, [Next]_vars PROVE TypeOK'
  OBVIOUS
<1>1. ASSUME NEW o \in Ops, SetPhase(o) PROVE TypeOK'
  BY <1>1 DEF SetPhase, TypeOK, Phases, registry
<1>2. ASSUME NEW o \in Ops, AttachBackend(o) PROVE TypeOK'
  BY <1>2 DEF AttachBackend, TypeOK, operation, registry
<1>3. ASSUME NEW o \in Ops, DetachBackend(o) PROVE TypeOK'
  BY <1>3 DEF DetachBackend, TypeOK, operation, registry
<1>4. ASSUME NEW o \in Ops, Fail(o) PROVE TypeOK'
  <2>1. ClearState({o})
    BY <1>4 DEF Fail
  <2>2. {o} \in SUBSET Ops
    OBVIOUS
  <2> QED BY <1>4, <2>1, <2>2, ClearTypes DEF Fail, TypeOK, Results, Phases
<1>5. ASSUME NEW o \in Ops, Complete(o) PROVE TypeOK'
  <2>1. ClearState({o})
    BY <1>5 DEF Complete
  <2>2. {o} \in SUBSET Ops
    OBVIOUS
  <2> QED BY <1>5, <2>1, <2>2, ClearTypes DEF Complete, TypeOK, Results, Phases
<1>6. ASSUME NEW o \in Ops, UpstreamAbort(o) PROVE TypeOK'
  BY <1>6 DEF UpstreamAbort, TypeOK, registry
<1>7. ASSUME NEW o \in Ops, NEW s \in SessionIds, CreateReplyOperation(o, s) PROVE TypeOK'
  BY <1>7, KeysAssumption DEF CreateReplyOperation, TypeOK
<1>8. ASSUME NEW o \in Ops, NEW s \in SessionIds, UpdateSessionId(o, s) PROVE TypeOK'
  BY <1>8, KeysAssumption DEF UpdateSessionId, LookupRebound, WaitKeysRebound, TypeOK
<1>9. ASSUME NEW k \in Keys, Abort(k) PROVE TypeOK'
  <2>1. {activeRunsByKey[k]} \in SUBSET Ops /\ "aborted_by_user" \in Aborts
    BY <1>9 DEF Abort, TypeOK, Aborts
  <2> QED BY <1>9, <2>1, AbortTypes DEF Abort
<1>10. ASSUME NEW s \in SessionIds, AbortBySessionId(s) PROVE TypeOK'
  <2>1. {activeRunsByKey[activeKeysBySessionId[s]]} \in SUBSET Ops /\ "aborted_by_user" \in Aborts
    BY <1>10 DEF AbortBySessionId, TypeOK, Aborts
  <2> QED BY <1>10, <2>1, AbortTypes DEF AbortBySessionId
<1>11. ASSUME AbortActiveReplyRuns PROVE TypeOK'
  <2>1. PICK aborted \in SUBSET Ops : AbortOps(aborted, "aborted_for_restart")
    BY <1>11 DEF AbortActiveReplyRuns, Active
  <2>2. "aborted_for_restart" \in Aborts
    BY DEF Aborts
  <2> QED BY <2>1, <2>2, AbortTypes
<1>12. ASSUME NEW w \in Waiters, NEW k \in Keys \cup {None}, Wait(w, k) PROVE TypeOK'
  BY <1>12 DEF Wait, WaitFor, TypeOK, operation
<1>13. ASSUME NEW w \in Waiters, WaitTimesOut(w) PROVE TypeOK'
  BY <1>13 DEF WaitTimesOut, TypeOK, operation
<1>14. ASSUME NEW s \in SessionIds PROVE WaitKey(s) \in Keys \cup {None}
  BY DEF WaitKey, TypeOK
<1>15. CASE UNCHANGED vars
  BY <1>15 DEF vars, operation, registry, TypeOK
<1> QED
  BY <1>1, <1>2, <1>3, <1>4, <1>5, <1>6, <1>7, <1>8, <1>9, <1>10, <1>11, <1>12, <1>13,
     <1>14, <1>15 DEF Next, Code, WaitForIdle, WaitBySessionId

-----------------------------------------------------------------------------
(* The invariant is inductive *)

LEMMA InitIInv == Init => IInv
<1> SUFFICES ASSUME Init PROVE IInv
  OBVIOUS
<1> USE KeysAssumption DEF Init
<1>1. TypeOK
  BY DEF TypeOK, Phases, Results
<1>2. OperationsAgree /\ KeysExact /\ WaitKeysExact /\ LiveBackends
  BY DEF OperationsAgree, KeysExact, WaitKeysExact, LiveBackends, Started
<1>3. LookupsExact
  BY DEF LookupsExact
<1>4. WaitersHearTheEnd
  BY DEF WaitersHearTheEnd
<1> QED BY <1>1, <1>2, <1>3, <1>4 DEF IInv

(* Clearing the state of operations keeps the registry exact: those already *)
(* cleared are left alone, so a successor under the same key stays, and     *)
(* whoever waits for the key of one that is cleared now is told.            *)
LEMMA ClearKeeps ==
  ASSUME IInv, TypeOK', NEW ended \in SUBSET Ops, \A o \in ended : Started(o),
         ClearState(ended), UNCHANGED <<key, sid, hadIds>>,
         \A o \in Ops : Started(o)' <=> Started(o)
  PROVE  KeysExact' /\ LookupsExact' /\ WaitKeysExact' /\ WaitersHearTheEnd'
<1> DEFINE now == ended \ stateCleared
           cleared == {key[o] : o \in now}
<1>1. /\ stateCleared' = stateCleared \cup ended
      /\ \A k \in Keys :
           /\ activeRunsByKey'[k] = IF k \in cleared THEN None ELSE activeRunsByKey[k]
           /\ activeSessionIdsByKey'[k] =
                IF k \in cleared THEN None ELSE activeSessionIdsByKey[k]
      /\ \A s \in SessionIds :
           /\ activeKeysBySessionId'[s] =
                IF \E o \in now : sid[o] = s /\ activeKeysBySessionId[s] = key[o]
                THEN None ELSE activeKeysBySessionId[s]
           /\ waitKeysBySessionId'[s] =
                IF waitKeysBySessionId[s] \in cleared THEN None ELSE waitKeysBySessionId[s]
      /\ \A w \in Waiters :
           waiting'[w] = IF waiting[w] \in cleared THEN "ended" ELSE waiting[w]
  BY DEF ClearState, ClearReplyRunState, NotifyReplyRunEnded
<1>2. \A o \in now : o \in Ops /\ key[o] \in Keys /\ activeRunsByKey[key[o]] = o
  BY DEF IInv, OperationsAgree, KeysExact
<1>3. \A o \in Ops : Started(o) /\ o \notin stateCleared' => key[o] \in Keys \ cleared
  BY <1>1, <1>2 DEF IInv, OperationsAgree, KeysExact
<1> HIDE DEF now, cleared
<1>4. \A k \in Keys : activeRunsByKey'[k] # None =>
         k \notin cleared /\ activeRunsByKey'[k] = activeRunsByKey[k]
  BY <1>1
<1>5. \A k \in Keys \ cleared : activeRunsByKey[k] # None => activeRunsByKey[k] \notin stateCleared'
  BY <1>1, <1>2 DEF IInv, KeysExact, TypeOK, now, cleared
<1>6. KeysExact'
  <2>1. ASSUME NEW o \in Ops, Started(o)', o \notin stateCleared'
        PROVE  activeRunsByKey'[key'[o]] = o
    BY <2>1, <1>1, <1>3 DEF IInv, KeysExact
  <2>2. ASSUME NEW k \in Keys, NEW o \in Ops, activeRunsByKey'[k] = o
        PROVE  /\ Started(o)' /\ o \notin stateCleared' /\ key'[o] = k
               /\ activeSessionIdsByKey'[k] = sid'[o]
    BY <2>2, <1>1, <1>4, <1>5, KeysAssumption DEF IInv, KeysExact
  <2> QED BY <2>1, <2>2 DEF KeysExact
<1>7. LookupsExact'
  <2> SUFFICES ASSUME NEW s \in SessionIds, NEW k \in Keys
               PROVE  activeKeysBySessionId'[s] = k <=>
                        (activeRunsByKey'[k] # None /\ sid[activeRunsByKey'[k]] = s
                           /\ activeSessionIdsByKey'[k] = s)
    BY DEF LookupsExact
  <2>1. CASE k \in cleared
    <3>1. PICK o \in now : key[o] = k
      BY <2>1 DEF cleared
    <3>2. activeRunsByKey'[k] = None
      BY <2>1, <1>1
    <3>3. activeKeysBySessionId[s] = k => sid[o] = s
      BY <3>1, <1>2 DEF IInv, LookupsExact
    <3>4. activeKeysBySessionId'[s] # k
      BY <3>1, <3>3, <1>1, KeysAssumption
    <3> QED BY <3>2, <3>4
  <2>2. CASE k \notin cleared
    <3>1. activeKeysBySessionId'[s] = k <=> activeKeysBySessionId[s] = k
      BY <2>2, <1>1, KeysAssumption DEF cleared
    <3> QED BY <2>2, <3>1, <1>1 DEF IInv, LookupsExact
  <2> QED BY <2>1, <2>2
<1>8. WaitKeysExact'
  <2>1. ASSUME NEW s \in SessionIds PROVE waitKeysBySessionId'[s] \in {None, KeyOf[s]}
    BY <1>1 DEF IInv, WaitKeysExact
  <2>2. ASSUME NEW o \in Ops, Started(o)', o \notin stateCleared', NEW s \in hadIds'[o]
        PROVE  waitKeysBySessionId'[s] = key'[o]
    <3>1. Started(o) /\ o \notin stateCleared /\ s \in hadIds[o] /\ s \in SessionIds
      BY <2>2, <1>1 DEF IInv, TypeOK
    <3>2. waitKeysBySessionId[s] = key[o]
      BY <3>1 DEF IInv, WaitKeysExact
    <3> QED BY <2>2, <3>1, <3>2, <1>1, <1>3
  <2> QED BY <2>1, <2>2 DEF WaitKeysExact
<1>9. WaitersHearTheEnd'
  <2> SUFFICES ASSUME NEW w \in Waiters, waiting'[w] \in Keys
               PROVE  activeRunsByKey'[waiting'[w]] # None
    BY DEF WaitersHearTheEnd
  <2>1. waiting[w] \notin cleared /\ waiting'[w] = waiting[w]
    BY <1>1, KeysAssumption
  <2> QED BY <2>1, <1>1 DEF IInv, WaitersHearTheEnd
<1> QED BY <1>6, <1>7, <1>8, <1>9

(* An abort of operations in the registry. *)
LEMMA AbortKeeps ==
  ASSUME IInv, NEW aborted \in SUBSET Active, NEW as \in Aborts, AbortOps(aborted, as)
  PROVE  IInv'
<1> DEFINE ended == {o \in aborted : phase[o] = "queued"}
<1>1. aborted \in SUBSET Ops /\ ended \in SUBSET Ops /\ \A o \in aborted : Started(o)
  BY DEF Active, IInv, KeysExact
<1>2. TypeOK'
  BY <1>1, AbortTypes DEF IInv
<1>3. ClearState(ended) /\ UNCHANGED <<key, sid, hadIds>>
      /\ \A o \in Ops : Started(o)' <=> Started(o)
  BY DEF AbortOps, Started
<1>4. KeysExact' /\ LookupsExact' /\ WaitKeysExact' /\ WaitersHearTheEnd'
  <2> HIDE DEF ended
  <2> QED BY <1>1, <1>2, <1>3, ClearKeeps DEF ended
<1>5. OperationsAgree'
  BY <1>1, <1>3 DEF IInv, OperationsAgree, AbortOps, ClearState, Cancelled, Started, Aborts,
     TypeOK
<1>6. LiveBackends'
  BY DEF IInv, LiveBackends, AbortOps, Cancelled, TypeOK
<1> QED BY <1>2, <1>4, <1>5, <1>6 DEF IInv

(* A step of the specification keeps the invariant. *)
LEMMA StepIInv == IInv /\ [Next]_vars => IInv'
<1> SUFFICES ASSUME IInv, [Next]_vars PROVE IInv'
  OBVIOUS
<1>0. TypeOK'
  BY TypeStep DEF IInv
<1>1. ASSUME NEW o \in Ops, SetPhase(o) PROVE IInv'
  BY <1>0, <1>1 DEF SetPhase, IInv, OperationsAgree, KeysExact, LookupsExact, WaitKeysExact,
     WaitersHearTheEnd, LiveBackends, Started, registry
<1>2. ASSUME NEW o \in Ops, AttachBackend(o) \/ DetachBackend(o) PROVE IInv'
  <2>1. OperationsAgree' /\ LiveBackends'
    BY <1>2 DEF AttachBackend, DetachBackend, IInv, OperationsAgree, LiveBackends, Started,
       Runs, TypeOK, operation
  <2> QED BY <1>0, <1>2, <2>1 DEF AttachBackend, DetachBackend, IInv, KeysExact,
         LookupsExact, WaitKeysExact, WaitersHearTheEnd, Started, operation, registry
<1>3. ASSUME NEW o \in Ops, Fail(o) \/ Complete(o) PROVE IInv'
  <2>1. ClearState({o}) /\ UNCHANGED <<key, sid, hadIds>> /\ Started(o)
        /\ {o} \in SUBSET Ops /\ \A q \in Ops : Started(q)' <=> Started(q)
    BY <1>3 DEF Fail, Complete, Runs, Started, IInv, TypeOK
  <2>2. KeysExact' /\ LookupsExact' /\ WaitKeysExact' /\ WaitersHearTheEnd'
    BY <1>0, <2>1, ClearKeeps
  <2>3. OperationsAgree'
    BY <1>3 DEF Fail, Complete, Runs, ClearState, IInv, OperationsAgree, Started, TypeOK
  <2>4. LiveBackends'
    BY <1>3 DEF Fail, Complete, IInv, LiveBackends, TypeOK
  <2> QED BY <1>0, <2>2, <2>3, <2>4 DEF IInv
<1>4. ASSUME NEW o \in Ops, UpstreamAbort(o) PROVE IInv'
  BY <1>0, <1>4 DEF UpstreamAbort, IInv, OperationsAgree, KeysExact, LookupsExact,
     WaitKeysExact, WaitersHearTheEnd, LiveBackends, Started, registry
<1>5. ASSUME NEW o \in Ops, NEW s \in SessionIds, CreateReplyOperation(o, s) PROVE IInv'
  <2> USE <1>5, KeysAssumption DEF CreateReplyOperation
  <2> DEFINE k == KeyOf[s]
  <2>1. k \in Keys /\ activeRunsByKey[k] = None /\ ~Started(o) /\ o \notin stateCleared
    BY DEF Started, IInv, OperationsAgree
  <2>2. \A q \in Ops : Started(q) /\ q \notin stateCleared => key[q] # k
    BY <2>1 DEF IInv, KeysExact
  <2>3. OperationsAgree' /\ LiveBackends'
    BY DEF IInv, OperationsAgree, LiveBackends, Started, TypeOK
  <2>4. KeysExact'
    BY <2>1, <2>2 DEF IInv, KeysExact, OperationsAgree, Started, TypeOK
  <2>5. LookupsExact'
    <3> SUFFICES ASSUME NEW t \in SessionIds, NEW l \in Keys
                 PROVE  activeKeysBySessionId'[t] = l <=>
                          (activeRunsByKey'[l] # None /\ sid'[activeRunsByKey'[l]] = t
                             /\ activeSessionIdsByKey'[l] = t)
      BY DEF LookupsExact
    <3>1. CASE l = k
      <4>1. activeRunsByKey'[l] = o /\ sid'[o] = s /\ activeSessionIdsByKey'[l] = s
        BY <3>1 DEF IInv, TypeOK
      <4>2. activeKeysBySessionId[t] # k
        BY <2>1 DEF IInv, LookupsExact
      <4> QED BY <3>1, <4>1, <4>2 DEF IInv, TypeOK
    <3>2. CASE l # k
      <4>1. activeRunsByKey'[l] = activeRunsByKey[l] /\ activeRunsByKey[l] # o
            /\ activeSessionIdsByKey'[l] = activeSessionIdsByKey[l]
        BY <3>2, <2>1 DEF IInv, KeysExact, TypeOK
      <4>2. activeRunsByKey[l] # None => sid'[activeRunsByKey[l]] = sid[activeRunsByKey[l]]
        BY <4>1 DEF IInv, TypeOK
      <4>3. t = s => activeKeysBySessionId'[t] = k /\ activeKeysBySessionId[t] # l
        <5>1. ASSUME t = s, activeKeysBySessionId[t] = l PROVE FALSE
          <6>1. activeRunsByKey[l] \in Ops /\ sid[activeRunsByKey[l]] = s
            BY <5>1 DEF IInv, LookupsExact, TypeOK
          <6>2. KeyOf[s] = l
            BY <6>1 DEF IInv, KeysExact, OperationsAgree
          <6> QED BY <3>2, <6>2
        <5> QED BY <5>1 DEF IInv, TypeOK
      <4>4. t # s => activeKeysBySessionId'[t] = activeKeysBySessionId[t]
        BY DEF IInv, TypeOK
      <4> QED BY <3>2, <4>1, <4>2, <4>3, <4>4 DEF IInv, LookupsExact
    <3> QED BY <3>1, <3>2
  <2>6. WaitKeysExact'
    BY <2>1, <2>2 DEF IInv, WaitKeysExact, OperationsAgree, Started, TypeOK
  <2>7. WaitersHearTheEnd'
    BY DEF IInv, WaitersHearTheEnd, TypeOK
  <2> QED BY <1>0, <2>3, <2>4, <2>5, <2>6, <2>7 DEF IInv
<1>6. ASSUME NEW o \in Ops, NEW s \in SessionIds, UpdateSessionId(o, s) PROVE IInv'
  <2> USE <1>6, KeysAssumption DEF UpdateSessionId
  <2> DEFINE k == key[o]
  <2>1. /\ k \in Keys /\ KeyOf[s] = k /\ Started(o) /\ o \notin stateCleared
        /\ sid[o] \in SessionIds /\ KeyOf[sid[o]] = k /\ activeRunsByKey[k] = o
    BY DEF Runs, Started, IInv, OperationsAgree, KeysExact
  <2>2. \A q \in Ops : q # o /\ Started(q) /\ q \notin stateCleared => key[q] # k
    BY <2>1 DEF IInv, KeysExact
  <2>3. OperationsAgree' /\ LiveBackends'
    BY <2>1 DEF IInv, OperationsAgree, LiveBackends, Started, TypeOK
  <2>4. KeysExact'
    BY <2>1, <2>2 DEF IInv, KeysExact, OperationsAgree, Started, TypeOK
  <2>5. LookupsExact'
    <3> SUFFICES ASSUME NEW t \in SessionIds, NEW l \in Keys
                 PROVE  activeKeysBySessionId'[t] = l <=>
                          (activeRunsByKey[l] # None /\ sid'[activeRunsByKey[l]] = t
                             /\ activeSessionIdsByKey'[l] = t)
      BY DEF LookupsExact
    <3>0. activeKeysBySessionId'[t] = IF t = s THEN k ELSE IF t = sid[o] THEN None
                                      ELSE activeKeysBySessionId[t]
      BY <2>1 DEF LookupRebound, IInv, TypeOK
    <3>1. CASE l = k
      <4>1. activeRunsByKey[l] = o /\ sid'[o] = s /\ activeSessionIdsByKey'[l] = s
        BY <3>1, <2>1 DEF IInv, TypeOK
      <4>2. t # sid[o] => activeKeysBySessionId[t] # k
        BY <2>1 DEF IInv, LookupsExact
      <4> QED BY <3>0, <3>1, <4>1, <4>2
    <3>2. CASE l # k
      <4>1. activeRunsByKey[l] # o /\ activeSessionIdsByKey'[l] = activeSessionIdsByKey[l]
        BY <3>2, <2>1 DEF IInv, KeysExact, TypeOK
      <4>2. activeRunsByKey[l] # None =>
              /\ activeRunsByKey[l] \in Ops
              /\ sid'[activeRunsByKey[l]] = sid[activeRunsByKey[l]]
        BY <4>1 DEF IInv, TypeOK
      <4>3. activeRunsByKey[l] # None => KeyOf[sid[activeRunsByKey[l]]] = l
        BY <4>2 DEF IInv, KeysExact, OperationsAgree
      <4>4. t \in {s, sid[o]} => activeKeysBySessionId'[t] # l
        BY <3>0, <3>2
      <4> QED BY <2>1, <3>0, <3>2, <4>1, <4>2, <4>3, <4>4 DEF IInv, LookupsExact
    <3> QED BY <3>1, <3>2
  <2>6. WaitKeysExact'
    <3>1. \A t \in SessionIds : waitKeysBySessionId'[t] =
            IF t \in {s, sid[o]} THEN k ELSE waitKeysBySessionId[t]
      BY <2>1 DEF WaitKeysRebound, IInv, TypeOK
    <3> QED BY <2>1, <3>1 DEF IInv, WaitKeysExact, OperationsAgree, Started, TypeOK
  <2>7. WaitersHearTheEnd'
    BY DEF IInv, WaitersHearTheEnd
  <2> QED BY <1>0, <2>3, <2>4, <2>5, <2>6, <2>7 DEF IInv
<1>7. ASSUME NEW k \in Keys, activeRunsByKey[k] # None PROVE {activeRunsByKey[k]} \in SUBSET Active
  BY <1>7 DEF Active, IInv, TypeOK
<1>8. "aborted_by_user" \in Aborts /\ "aborted_for_restart" \in Aborts
  BY DEF Aborts
<1>9. ASSUME NEW k \in Keys, Abort(k) PROVE IInv'
  BY <1>7, <1>8, <1>9, AbortKeeps DEF Abort
<1>10. ASSUME NEW s \in SessionIds, AbortBySessionId(s) PROVE IInv'
  <2>1. activeKeysBySessionId[s] \in Keys
    BY <1>10 DEF AbortBySessionId, IInv, TypeOK
  <2> QED BY <1>7, <1>8, <1>10, <2>1, AbortKeeps DEF AbortBySessionId
<1>11. ASSUME AbortActiveReplyRuns PROVE IInv'
  <2>1. PICK aborted \in SUBSET Active : AbortOps(aborted, "aborted_for_restart")
    BY <1>11 DEF AbortActiveReplyRuns
  <2> QED BY <1>8, <2>1, AbortKeeps
<1>12. ASSUME NEW w \in Waiters, WaitTimesOut(w) \/ \E k \in Keys \cup {None} : Wait(w, k)
       PROVE IInv'
  <2>1. WaitersHearTheEnd'
    BY <1>12, KeysAssumption DEF WaitTimesOut, Wait, WaitFor, IInv, WaitersHearTheEnd, TypeOK
  <2> QED BY <1>0, <1>12, <2>1 DEF WaitTimesOut, Wait, IInv, OperationsAgree, KeysExact,
         LookupsExact, WaitKeysExact, LiveBackends, Started, operation
<1>13. ASSUME NEW s \in SessionIds PROVE WaitKey(s) \in Keys \cup {None}
  BY DEF WaitKey, IInv, TypeOK
<1>14. CASE UNCHANGED vars
  BY <1>0, <1>14 DEF vars, operation, registry, IInv, OperationsAgree, KeysExact,
     LookupsExact, WaitKeysExact, WaitersHearTheEnd, LiveBackends, Started
<1> QED
  BY <1>1, <1>2, <1>3, <1>4, <1>5, <1>6, <1>9, <1>10, <1>11, <1>12, <1>13, <1>14
     DEF Next, Code, WaitForIdle, WaitBySessionId

LEMMA Invariance == Spec => []IInv
BY InitIInv, StepIInv, PTL DEF Spec

-----------------------------------------------------------------------------
(* Theorems *)

(* The registry holds exactly the operations that have not ended, and a     *)
(* session id finds the run that has it now: rebinds, late ends of aborted  *)
(* operations and restarts in between do not disturb a successor.           *)
THEOREM RegistryIsConsistent == Spec => []RegistryConsistent
<1>1. IInv => RegistryExact
  <2> SUFFICES ASSUME IInv, NEW o \in Ops
               PROVE  (code[o] # "new" /\ o \notin stateCleared)
                        <=> \E k \in Keys : activeRunsByKey[k] = o
    BY DEF RegistryExact
  <2>1. ASSUME code[o] # "new", o \notin stateCleared
        PROVE  key[o] \in Keys /\ activeRunsByKey[key[o]] = o
    BY <2>1 DEF IInv, OperationsAgree, KeysExact, Started
  <2>2. ASSUME NEW k \in Keys, activeRunsByKey[k] = o
        PROVE  code[o] # "new" /\ o \notin stateCleared
    BY <2>2 DEF IInv, KeysExact, Started
  <2> QED BY <2>1, <2>2
<1>2. IInv => RegistryConsistent
  BY <1>1 DEF IInv, RegistryConsistent
<1> QED BY <1>2, Invariance, PTL

(* At most one backend works for a session key, and none for an operation   *)
(* that was aborted, whenever it was attached.                              *)
THEOREM AbortedWorkStops == Spec => []BackendsStop
<1>1. IInv => AbortStopsBackend
  BY DEF IInv, LiveBackends, AbortStopsBackend, Aborts
<1>2. IInv => OneBackendPerKey
  <2>1. ASSUME IInv, NEW o \in Ops, backend[o] = "live"
        PROVE  activeRunsByKey[key[o]] = o
    BY <2>1 DEF IInv, LiveBackends, OperationsAgree, KeysExact
  <2> QED BY <2>1 DEF OneBackendPerKey
<1> QED BY <1>1, <1>2, Invariance, PTL DEF BackendsStop

(* A waiter finds the run by any session id it has had, and never waits for *)
(* a key whose run has ended.                                               *)
THEOREM WaitersAreServed == Spec => []WaitersServed
<1>1. IInv => OldIdsFindTheRun
  <2> SUFFICES ASSUME IInv, NEW o \in Active, NEW s \in hadIds[o]
               PROVE  WaitKey(s) = key[o]
    BY DEF OldIdsFindTheRun
  <2>1. o \in Ops /\ Started(o) /\ o \notin stateCleared
    BY DEF Active, IInv, KeysExact
  <2>2. s \in SessionIds /\ KeyOf[s] = key[o] /\ waitKeysBySessionId[s] = key[o]
    BY <2>1 DEF IInv, TypeOK, OperationsAgree, WaitKeysExact
  <2>3. ASSUME activeKeysBySessionId[s] # None PROVE activeKeysBySessionId[s] = key[o]
    <3>1. PICK k \in Keys : activeKeysBySessionId[s] = k
      BY <2>2, <2>3 DEF IInv, TypeOK
    <3>2. activeRunsByKey[k] \in Ops /\ sid[activeRunsByKey[k]] = s
      BY <2>2, <3>1 DEF IInv, LookupsExact, TypeOK
    <3>3. KeyOf[s] = k
      BY <3>2 DEF IInv, KeysExact, OperationsAgree
    <3> QED BY <2>2, <3>1, <3>3
  <2> QED BY <2>2, <2>3 DEF WaitKey
<1> QED BY <1>1, Invariance, PTL DEF IInv, WaitersServed
=============================================================================
