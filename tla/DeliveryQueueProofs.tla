------------------------- MODULE DeliveryQueueProofs ------------------------
(***************************************************************************)
(* What holds of the delivery queue for every number of messages, accounts, *)
(* retries and crashes: types, exclusive claims, and the write-ahead        *)
(* promise.                                                                 *)
(***************************************************************************)
EXTENDS DeliveryQueue, SequenceTheorems, FiniteSetTheorems, TLAPS

-----------------------------------------------------------------------------
(* Lists of entries *)

(* A nonempty list has a head among the entries and a tail that is a list. *)
LEMMA ListParts ==
  ASSUME NEW s \in Seq(Entries), s # <<>>
  PROVE  Head(s) \in Entries /\ Tail(s) \in Seq(Entries)
  BY HeadTailProperties

(* The rest of a list is empty exactly when the list has one entry. *)
LEMMA ListEnds ==
  ASSUME NEW s \in Seq(Entries), s # <<>>
  PROVE  Len(s) = 1 <=> Tail(s) = <<>>
  <1>1. Len(Tail(s)) = Len(s) - 1 /\ Len(s) \in Nat /\ Tail(s) \in Seq(Entries)
    BY HeadTailProperties, LenProperties
  <1>2. Tail(s) = <<>> <=> Len(Tail(s)) = 0
    BY <1>1, EmptySeq
  <1> QED BY <1>1, <1>2

(* The entries of a list after one more was appended. *)
LEMMA AppendRange ==
  ASSUME NEW s \in Seq(Entries), NEW e \in Entries
  PROVE  /\ Append(s, e) \in Seq(Entries)
         /\ Range(Append(s, e)) = Range(s) \cup {e}
  BY AppendProperties DEF Range

(* Every sorted list of a set of entries is a list of entries. *)
LEMMA SortedType ==
  ASSUME NEW match \in SUBSET Entries, NEW s \in SortedByAge(match)
  PROVE  s \in Seq(Entries)
  <1>1. IsFiniteSet(match)
    BY EntriesAssumption, FS_Subset
  <1>2. Cardinality(match) \in Nat
    BY <1>1, FS_CardinalityType
  <1>3. s \in [1..Cardinality(match) -> Entries]
    BY DEF SortedByAge
  <1> QED BY <1>2, <1>3, IsASeq DEF SortedByAge

-----------------------------------------------------------------------------
(* Types *)

(* The initial state is typed. *)
LEMMA TypeInit == Init => TypeOK
  <1> SUFFICES ASSUME Init PROVE TypeOK
    OBVIOUS
  <1>1. order \in Seq(Entries)
    <2>1. Cardinality(Pending) \in Nat
      BY EntriesAssumption, FS_Subset, FS_CardinalityType DEF Pending
    <2>2. order \in [1..Cardinality(Pending) -> Entries]
      BY DEF Init, Pending
    <2> QED BY <2>1, <2>2, IsASeq
  <1>2. <<>> \in Seq(Entries)
    BY EmptySeq
  <1>3. json \in [Entries -> Nat \cup {NoFile}]
    BY BoundsAssumption DEF Init
  <1>4. live \in [Entries -> LiveStates]
    BY DEF Init, LiveStates
  <1>5. /\ worker \in [Workers -> [pc : Phases, todo : Seq(Entries)]]
        /\ \A w \in Workers : worker[w].pc = "idle" <=> worker[w].todo = <<>>
    BY <1>2 DEF Init, IdleWorker, Phases
  <1>6. crashes \in 0..MaxCrashes
    <2>1. crashes = 0
      BY DEF Init
    <2> QED BY <2>1, BoundsAssumption
  <1> QED BY <1>1, <1>3, <1>4, <1>5, <1>6, Zenon DEF Init, TypeOK

(* Advancing a running worker leaves every worker typed. *)
LEMMA AdvanceType ==
  ASSUME TypeOK, NEW w \in Workers, worker[w].pc # "idle", Advance(w)
  PROVE  /\ worker' \in [Workers -> [pc : Phases, todo : Seq(Entries)]]
         /\ \A v \in Workers : worker'[v].pc = "idle" <=> worker'[v].todo = <<>>
  <1>1. worker[w].todo \in Seq(Entries) /\ worker[w].todo # <<>>
    BY DEF TypeOK
  <1>2. Tail(worker[w].todo) \in Seq(Entries)
    BY <1>1, ListParts
  <1>3. Len(worker[w].todo) = 1 <=> Tail(worker[w].todo) = <<>>
    BY <1>1, ListEnds
  <1>4. <<>> \in Seq(Entries)
    BY EmptySeq
  <1> QED BY <1>2, <1>3, <1>4 DEF Advance, TypeOK, IdleWorker, Phases

(* Moving a running worker to another running phase leaves it typed. *)
LEMMA GotoType ==
  ASSUME TypeOK, NEW w \in Workers, worker[w].pc # "idle",
         NEW pc \in Phases \ {"idle"}, Goto(w, pc)
  PROVE  /\ worker' \in [Workers -> [pc : Phases, todo : Seq(Entries)]]
         /\ \A v \in Workers : worker'[v].pc = "idle" <=> worker'[v].todo = <<>>
  BY DEF Goto, TypeOK

(* Scanning leaves every worker typed. *)
LEMMA ScanType ==
  ASSUME TypeOK, NEW w \in Workers, NEW match \in SUBSET Entries, Scan(w, match)
  PROVE  /\ worker' \in [Workers -> [pc : Phases, todo : Seq(Entries)]]
         /\ \A v \in Workers : worker'[v].pc = "idle" <=> worker'[v].todo = <<>>
  <1>1. PICK todo \in SortedByAge(match) :
          worker' = [worker EXCEPT ![w] =
            IF todo = <<>> THEN IdleWorker ELSE [pc |-> "loop", todo |-> todo]]
    BY DEF Scan
  <1>2. todo \in Seq(Entries)
    BY SortedType
  <1>3. <<>> \in Seq(Entries)
    BY EmptySeq
  <1> QED BY <1>1, <1>2, <1>3 DEF TypeOK, IdleWorker, Phases

(* The entry a running worker is at. *)
LEMMA EntryType ==
  ASSUME TypeOK, NEW w \in Workers, worker[w].pc # "idle"
  PROVE  Entry(w) \in Entries
  <1>1. worker[w].todo \in Seq(Entries) /\ worker[w].todo # <<>>
    BY DEF TypeOK
  <1> QED BY <1>1, ListParts DEF Entry

(* Every step keeps the types. *)
LEMMA TypeStep == TypeOK /\ [Next]_vars => TypeOK'
  <1> SUFFICES ASSUME TypeOK, [Next]_vars PROVE TypeOK'
    OBVIOUS
  <1>1. ASSUME NEW e \in Entries, Live(e) PROVE TypeOK'
    <2>1. CASE EnqueueDelivery(e)
      BY <2>1, AppendRange DEF EnqueueDelivery, TypeOK, LiveStates, history, NoFile
    <2>2. CASE EnqueueFails(e)
      BY <2>2 DEF EnqueueFails, TypeOK, LiveStates, disk, history
    <2>3. CASE LiveSent(e)
      BY <2>3 DEF LiveSent, TypeOK, LiveStates, disk
    <2>4. CASE LiveAborted(e)
      BY <2>4 DEF LiveAborted, TypeOK, LiveStates, disk
    <2>5. CASE LiveFails(e)
      <3>1. FailCall(e, e) \in FailCalls
        BY DEF FailCall, FailCalls
      <3>2. live' \in [Entries -> LiveStates]
        BY <2>5 DEF LiveFails, TypeOK, LiveStates
      <3>3. fails' \subseteq FailCalls
        BY <2>5, <3>1 DEF LiveFails, TypeOK
      <3> QED BY <2>5, <3>2, <3>3 DEF LiveFails, TypeOK, disk, history
    <2>6. CASE LiveAck(e)
      BY <2>6 DEF LiveAck, RenameToDelivered, TypeOK, LiveStates, NoFile
    <2>7. CASE LiveEnds(e)
      BY <2>7 DEF LiveEnds, TypeOK, LiveStates, history
    <2> QED BY <1>1, <2>1, <2>2, <2>3, <2>4, <2>5, <2>6, <2>7 DEF Live
  <1>2. CASE StartRecovery
    <2>1. Startup \in Workers /\ Pending \in SUBSET Entries
      BY DEF Workers, Pending
    <2>2. Scan(Startup, Pending) /\ recovered' = TRUE
      BY <1>2 DEF StartRecovery
    <2> HIDE DEF Pending
    <2>3. /\ worker' \in [Workers -> [pc : Phases, todo : Seq(Entries)]]
          /\ \A v \in Workers : worker'[v].pc = "idle" <=> worker'[v].todo = <<>>
      BY <2>1, <2>2, ScanType
    <2> QED BY <2>2, <2>3 DEF Scan, TypeOK, history
  <1>3. ASSUME NEW k \in DrainKeys, StartDrain(k) PROVE TypeOK'
    <2>1. PICK match \in SUBSET Pending : Scan(k, match)
      BY <1>3 DEF StartDrain
    <2>2. k \in Workers /\ match \in SUBSET Entries
      BY DEF Workers, Pending
    <2>3. /\ worker' \in [Workers -> [pc : Phases, todo : Seq(Entries)]]
          /\ \A v \in Workers : worker'[v].pc = "idle" <=> worker'[v].todo = <<>>
      BY <2>1, <2>2, ScanType
    <2> QED BY <1>3, <2>1, <2>3 DEF StartDrain, Scan, TypeOK, history
  <1>4. ASSUME NEW w \in Workers, Work(w) PROVE TypeOK'
    <2>1. worker[w].pc # "idle"
      BY <1>4 DEF Work, Claim, Reread, DeliverReturns, DeliverThrows, WorkerAck,
                  WorkerMoves, WorkerReleases
    <2>2. Entry(w) \in Entries
      BY <2>1, EntryType
    <2>3. Advance(w) \/ \E pc \in Phases \ {"idle"} : Goto(w, pc)
      BY <1>4 DEF Work, Claim, Reread, DeliverReturns, DeliverThrows, WorkerAck,
                  WorkerMoves, WorkerReleases, Release, Phases
    <2>4. /\ worker' \in [Workers -> [pc : Phases, todo : Seq(Entries)]]
          /\ \A v \in Workers : worker'[v].pc = "idle" <=> worker'[v].todo = <<>>
      BY <2>1, <2>3, AdvanceType, GotoType
    <2> HIDE DEF Entry, Phases
    <2>5. CASE Claim(w)
      BY <2>5, <2>2, <2>4 DEF Claim, TypeOK, disk, history
    <2>6. CASE Reread(w)
      BY <2>6, <2>2, <2>4 DEF Reread, Release, TypeOK, disk, history
    <2>7. CASE DeliverReturns(w)
      BY <2>7, <2>2, <2>4 DEF DeliverReturns, TypeOK, disk
    <2>8. CASE DeliverThrows(w)
      BY <2>8, <2>2, <2>4 DEF DeliverThrows, TypeOK, disk, history, FailCall, FailCalls, NoFile
    <2>9. CASE WorkerAck(w)
      BY <2>9, <2>2, <2>4 DEF WorkerAck, RenameToDelivered, TypeOK, NoFile
    <2>10. CASE WorkerMoves(w)
      BY <2>10, <2>2, <2>4 DEF WorkerMoves, MoveToFailed, Release, TypeOK, NoFile, history
    <2>11. CASE WorkerReleases(w)
      BY <2>11, <2>2, <2>4 DEF WorkerReleases, Release, TypeOK, history
    <2> QED BY <1>4, <2>5, <2>6, <2>7, <2>8, <2>9, <2>10, <2>11 DEF Work
  <1>5. CASE Storage
    <2>1. PICK f \in fails : FailRead(f) \/ FailWrite(f)
      BY <1>5 DEF Storage
    <2>2. f \in FailCalls
      BY DEF TypeOK
    <2>3. CASE FailRead(f)
      BY <2>2, <2>3 DEF FailRead, TypeOK, FailCalls, disk, history, NoFile
    <2>4. CASE FailWrite(f)
      BY <2>2, <2>4 DEF FailWrite, TypeOK, FailCalls, history, NoFile
    <2> QED BY <2>1, <2>3, <2>4
  <1>6. CASE Defer
    <2>1. Startup \in Workers /\ worker[Startup].pc # "idle" /\ Goto(Startup, "deferring")
      BY <1>6 DEF Defer, Workers
    <2>2. /\ worker' \in [Workers -> [pc : Phases, todo : Seq(Entries)]]
          /\ \A v \in Workers : worker'[v].pc = "idle" <=> worker'[v].todo = <<>>
      BY <2>1, GotoType DEF Phases
    <2>3. Range(worker[Startup].todo) \subseteq Entries
      <3>1. worker[Startup].todo \in Seq(Entries)
        BY <2>1 DEF TypeOK
      <3> QED BY <3>1, ElementOfSeq DEF Range
    <2>4. fails' \subseteq FailCalls
      BY <1>6, <2>1, <2>3 DEF Defer, TypeOK, FailCall, FailCalls, NoFile
    <2>5. deferred' \subseteq Entries
      BY <1>6, <2>3 DEF Defer, TypeOK
    <2> QED BY <1>6, <2>2, <2>4, <2>5 DEF Defer, TypeOK, disk
  <1>7. CASE DeferEnds
    <2>1. Startup \in Workers /\ <<>> \in Seq(Entries)
      BY EmptySeq DEF Workers
    <2> QED BY <1>7, <2>1 DEF DeferEnds, TypeOK, IdleWorker, Phases, disk, history
  <1>8. CASE Crash
    <2>1. <<>> \in Seq(Entries)
      BY EmptySeq
    <2>2. live' \in [Entries -> LiveStates]
      BY <1>8 DEF Crash, TypeOK, LiveStates
    <2>3. /\ worker' \in [Workers -> [pc : Phases, todo : Seq(Entries)]]
          /\ \A v \in Workers : worker'[v].pc = "idle" <=> worker'[v].todo = <<>>
      BY <1>8, <2>1 DEF Crash, IdleWorker, Phases
    <2>4. crashes' \in 0..MaxCrashes
      BY <1>8, BoundsAssumption DEF Crash, TypeOK
    <2> QED BY <1>8, <2>2, <2>3, <2>4 DEF Crash, TypeOK, disk, history
  <1>9. CASE UNCHANGED vars
    BY <1>9 DEF vars, disk, history, TypeOK
  <1> QED BY <1>1, <1>2, <1>3, <1>4, <1>5, <1>6, <1>7, <1>8, <1>9 DEF Next

(* The variables keep the types the code gives them, and a recovery worker  *)
(* has entries left exactly while it runs.                                  *)
THEOREM TypeCorrect == Spec => []TypeOK
  BY TypeInit, TypeStep, PTL DEF Spec

-----------------------------------------------------------------------------
(* Claims *)

(* A step of the workers that leaves the claims and the recovered entries   *)
(* alone: every worker keeps its list and whether it is recovering.         *)
KeepsClaims ==
  /\ entriesInProgress' = entriesInProgress
  /\ \A v \in Workers :
       /\ worker'[v].pc \in Recovering <=> worker[v].pc \in Recovering
       /\ worker[v].pc \in Recovering => worker'[v].todo = worker[v].todo

(* Such a step keeps the claims exact. *)
LEMMA KeepsClaimsExact ==
  ASSUME ClaimsExact, KeepsClaims
  PROVE  ClaimsExact'
  BY DEF ClaimsExact, KeepsClaims, Entry

(* A worker that releases its entry and goes on keeps the claims exact. *)
LEMMA ReleaseExact ==
  ASSUME TypeOK, ClaimsExact, NEW w \in Workers, worker[w].pc \in Recovering, Release(w)
  PROVE  ClaimsExact'
  <1>1. worker'[w].pc \notin Recovering
    BY DEF Release, Advance, TypeOK, IdleWorker, Recovering
  <1>2. \A v \in Workers \ {w} : worker'[v] = worker[v]
    BY DEF Release, Advance, TypeOK
  <1>3. entriesInProgress' = entriesInProgress \ {Entry(w)}
    BY DEF Release
  <1> QED BY <1>1, <1>2, <1>3 DEF ClaimsExact, Entry

(* A process that has not started its recovery has no startup worker. *)
StartupOnce == ~recovered => worker[Startup].pc = "idle"

(* The startup recovery is started only when the worker is idle. *)
LEMMA StartupStep == TypeOK /\ StartupOnce /\ [Next]_vars => StartupOnce'
  <1> SUFFICES ASSUME TypeOK, StartupOnce, [Next]_vars, ~recovered'
               PROVE  worker'[Startup].pc = "idle"
    BY DEF StartupOnce
  <1>1. CASE Crash
    BY <1>1 DEF Crash, IdleWorker, Workers
  <1>2. CASE \E k \in DrainKeys : StartDrain(k)
    BY <1>2, WorkersAssumption DEF StartDrain, Scan, StartupOnce, TypeOK, Workers
  <1>3. CASE \E w \in Workers : Work(w)
    <2>1. PICK w \in Workers : Work(w)
      BY <1>3
    <2>2. worker[w].pc # "idle" /\ recovered' = recovered
      BY <2>1 DEF Work, Claim, Reread, DeliverReturns, DeliverThrows, WorkerAck,
                  WorkerMoves, WorkerReleases
    <2>3. w # Startup
      BY <2>2 DEF StartupOnce
    <2>4. Advance(w) \/ \E pc \in Phases : Goto(w, pc)
      BY <2>1 DEF Work, Claim, Reread, DeliverReturns, DeliverThrows, WorkerAck,
                  WorkerMoves, WorkerReleases, Release, Phases
    <2>5. worker'[Startup] = worker[Startup]
      BY <2>3, <2>4 DEF Advance, Goto, TypeOK, Workers
    <2> QED BY <2>2, <2>5 DEF StartupOnce
  <1>4. CASE \E e \in Entries : Live(e)
    BY <1>4 DEF Live, EnqueueDelivery, EnqueueFails, LiveSent, LiveAborted, LiveFails,
                LiveAck, LiveEnds, StartupOnce
  <1>5. CASE Storage \/ Defer \/ DeferEnds
    BY <1>5 DEF Storage, FailRead, FailWrite, Defer, DeferEnds, StartupOnce, TypeOK, IdleWorker, Workers
  <1>6. CASE UNCHANGED vars
    BY <1>6 DEF vars, StartupOnce
  <1> QED BY <1>1, <1>2, <1>3, <1>4, <1>5, <1>6 DEF Next, StartRecovery

(* Every step keeps the claims exact. *)
LEMMA ClaimsStep == TypeOK /\ StartupOnce /\ ClaimsExact /\ [Next]_vars => ClaimsExact'
  <1> SUFFICES ASSUME TypeOK, StartupOnce, ClaimsExact, [Next]_vars PROVE ClaimsExact'
    OBVIOUS
  <1>1. ASSUME NEW e \in Entries, Live(e) PROVE ClaimsExact'
    <2>1. KeepsClaims
      BY <1>1 DEF Live, EnqueueDelivery, EnqueueFails, LiveSent, LiveAborted, LiveFails,
                  LiveAck, LiveEnds, KeepsClaims
    <2> QED BY <2>1, KeepsClaimsExact
  <1>2. CASE StartRecovery
    <2>1. KeepsClaims
      BY <1>2 DEF StartRecovery, StartupOnce, Scan, KeepsClaims, TypeOK, Recovering, IdleWorker, Workers
    <2> QED BY <2>1, KeepsClaimsExact
  <1>3. ASSUME NEW k \in DrainKeys, StartDrain(k) PROVE ClaimsExact'
    <2>1. KeepsClaims
      BY <1>3 DEF StartDrain, Scan, KeepsClaims, TypeOK, Recovering, IdleWorker, Workers
    <2> QED BY <2>1, KeepsClaimsExact
  <1>4. ASSUME NEW w \in Workers, Work(w) PROVE ClaimsExact'
    <2>1. CASE Claim(w)
      <3>1. CASE Entry(w) \in entriesInProgress
        <4>1. /\ worker[w].pc = "loop" /\ worker'[w].pc \in {"loop", "idle"}
              /\ \A v \in Workers \ {w} : worker'[v] = worker[v]
              /\ entriesInProgress' = entriesInProgress
          BY <2>1, <3>1 DEF Claim, Advance, TypeOK, IdleWorker
        <4>2. KeepsClaims
          BY <4>1 DEF KeepsClaims, Recovering
        <4> QED BY <4>2, KeepsClaimsExact
      <3>2. CASE Entry(w) \notin entriesInProgress
        <4>1. /\ worker'[w].pc \in Recovering /\ worker'[w].todo = worker[w].todo
              /\ \A v \in Workers \ {w} : worker'[v] = worker[v]
              /\ worker[w].pc \notin Recovering
          BY <2>1, <3>2 DEF Claim, Goto, TypeOK, Recovering
        <4>2. entriesInProgress' = entriesInProgress \cup {Entry(w)}
          BY <2>1, <3>2 DEF Claim
        <4> QED BY <3>2, <4>1, <4>2 DEF ClaimsExact, Entry
      <3> QED BY <3>1, <3>2
    <2>2. CASE Reread(w)
      <3>1. worker[w].pc \in Recovering
        BY <2>2 DEF Reread, Recovering
      <3>2. Release(w) \/ KeepsClaims
        BY <2>2 DEF Reread, Goto, KeepsClaims, TypeOK, Recovering
      <3> QED BY <3>1, <3>2, ReleaseExact, KeepsClaimsExact
    <2>3. CASE DeliverReturns(w) \/ DeliverThrows(w) \/ WorkerAck(w)
      <3>1. KeepsClaims
        BY <2>3 DEF DeliverReturns, DeliverThrows, WorkerAck, Goto, KeepsClaims, TypeOK, Recovering
      <3> QED BY <3>1, KeepsClaimsExact
    <2>4. CASE WorkerMoves(w) \/ WorkerReleases(w)
      <3>1. worker[w].pc \in Recovering /\ Release(w)
        BY <2>4 DEF WorkerMoves, WorkerReleases, Recovering
      <3> QED BY <3>1, ReleaseExact
    <2> QED BY <1>4, <2>1, <2>2, <2>3, <2>4 DEF Work
  <1>5. CASE Storage
    <2>1. KeepsClaims
      BY <1>5 DEF Storage, FailRead, FailWrite, KeepsClaims
    <2> QED BY <2>1, KeepsClaimsExact
  <1>6. CASE Defer \/ DeferEnds
    <2>1. KeepsClaims
      BY <1>6 DEF Defer, DeferEnds, Goto, KeepsClaims, TypeOK, Recovering, IdleWorker, Workers
    <2> QED BY <2>1, KeepsClaimsExact
  <1>7. CASE Crash
    BY <1>7 DEF Crash, ClaimsExact, IdleWorker, Recovering
  <1>8. CASE UNCHANGED vars
    BY <1>8 DEF vars, ClaimsExact, Entry
  <1> QED BY <1>1, <1>2, <1>3, <1>4, <1>5, <1>6, <1>7, <1>8 DEF Next

(* Two recoveries never work on one entry at a time, and every claim is     *)
(* released by the recovery that took it, for any number of drains, entries *)
(* and crashes.                                                             *)
THEOREM ClaimsAreExact == Spec => []ClaimsExact
  <1>1. Init => StartupOnce /\ ClaimsExact
    BY DEF Init, StartupOnce, ClaimsExact, IdleWorker, Recovering, Workers
  <1> QED BY <1>1, TypeInit, TypeStep, StartupStep, ClaimsStep, PTL DEF Spec

-----------------------------------------------------------------------------
(* The write-ahead promise *)

(* An entry is acknowledged only when it was sent or aborted, unless it is  *)
(* sent with bestEffort.                                                    *)
AckJustified ==
  /\ \A e \in Entries \ BestEffort : live[e] = "acking" => e \in delivered \cup aborted
  /\ \A w \in Workers : worker[w].pc = "acking" => Entry(w) \in delivered \cup BestEffort

(* A step after which no file is gone and nothing is forgotten. *)
KeepsFiles ==
  /\ order' = order
  /\ \A e \in Entries : json[e] # NoFile => json'[e] # NoFile
  /\ failed \subseteq failed' /\ delivered \subseteq delivered' /\ aborted \subseteq aborted'

(* The entries of the queue's history are entries. *)
LEMMA OrderRange == TypeOK => Range(order) \subseteq Entries
  BY ElementOfSeq DEF TypeOK, Range

(* A step that keeps the files keeps the promise. *)
LEMMA KeepsFilesNoLoss ==
  ASSUME TypeOK, NoLostDelivery, KeepsFiles
  PROVE  NoLostDelivery'
  BY OrderRange DEF NoLostDelivery, KeepsFiles

(* Every step keeps acknowledgements justified. *)
LEMMA AckStep ==
  ASSUME TypeOK, AckJustified, [Next]_vars
  PROVE  AckJustified'
  <1>1. ASSUME NEW e \in Entries, Live(e) PROVE AckJustified'
    BY <1>1 DEF Live, EnqueueDelivery, EnqueueFails, LiveSent, LiveAborted, LiveFails,
                LiveAck, LiveEnds, AckJustified, Entry, TypeOK, history
  <1>2. CASE StartRecovery
    BY <1>2 DEF StartRecovery, Scan, AckJustified, Entry, TypeOK, IdleWorker, history
  <1>3. ASSUME NEW k \in DrainKeys, StartDrain(k) PROVE AckJustified'
    BY <1>3 DEF StartDrain, Scan, AckJustified, Entry, TypeOK, IdleWorker, history
  <1>4. ASSUME NEW w \in Workers, Work(w) PROVE AckJustified'
    <2>1. live' = live /\ delivered \subseteq delivered' /\ aborted' = aborted
      BY <1>4 DEF Work, Claim, Reread, DeliverReturns, DeliverThrows, WorkerAck,
                  WorkerMoves, WorkerReleases, history
    <2>2. \A v \in Workers \ {w} : worker'[v] = worker[v]
      BY <1>4 DEF Work, Claim, Reread, DeliverReturns, DeliverThrows, WorkerAck,
                  WorkerMoves, WorkerReleases, Release, Advance, Goto, TypeOK
    <2>3. worker'[w].pc = "acking" => Entry(w)' \in delivered' \cup BestEffort
      <3>1. Advance(w) => worker'[w].pc # "acking"
        BY DEF Advance, TypeOK, IdleWorker
      <3>2. ASSUME NEW pc \in Phases \ {"acking"}, Goto(w, pc)
            PROVE  worker'[w].pc # "acking"
        BY <3>2 DEF Goto, TypeOK
      <3>3. CASE DeliverReturns(w)
        BY <3>3 DEF DeliverReturns, Goto, TypeOK, Entry
      <3>4. CASE ~DeliverReturns(w)
        BY <1>4, <3>1, <3>2, <3>4 DEF Work, Claim, Reread, DeliverThrows, WorkerAck,
                  WorkerMoves, WorkerReleases, Release, Phases
      <3> QED BY <3>3, <3>4
    <2> QED BY <2>1, <2>2, <2>3 DEF AckJustified, Entry
  <1>5. CASE Storage
    BY <1>5 DEF Storage, FailRead, FailWrite, AckJustified, Entry, history
  <1>6. CASE Defer \/ DeferEnds
    BY <1>6 DEF Defer, DeferEnds, Goto, AckJustified, Entry, TypeOK, IdleWorker, Workers, history
  <1>7. CASE Crash
    BY <1>7 DEF Crash, AckJustified, Entry, TypeOK, IdleWorker
  <1>8. CASE UNCHANGED vars
    BY <1>8 DEF vars, AckJustified, Entry, history
  <1> QED BY <1>1, <1>2, <1>3, <1>4, <1>5, <1>6, <1>7, <1>8 DEF Next

(* Every step keeps the promise while acknowledgements are justified. *)
LEMMA NoLossStep ==
  ASSUME TypeOK, AckJustified, NoLostDelivery, [Next]_vars
  PROVE  NoLostDelivery'
  <1>1. ASSUME NEW e \in Entries, Live(e) PROVE NoLostDelivery'
    <2>1. CASE EnqueueDelivery(e)
      <3>1. Range(order') = Range(order) \cup {e}
        BY <2>1, AppendRange DEF EnqueueDelivery, TypeOK
      <3> QED BY <2>1, <3>1, OrderRange DEF EnqueueDelivery, NoLostDelivery, TypeOK, NoFile, history
    <2>2. CASE LiveAck(e)
      BY <2>2, OrderRange DEF LiveAck, RenameToDelivered, NoLostDelivery, AckJustified, TypeOK
    <2>3. CASE EnqueueFails(e) \/ LiveSent(e) \/ LiveAborted(e) \/ LiveFails(e) \/ LiveEnds(e)
      <3>1. KeepsFiles
        BY <2>3 DEF EnqueueFails, LiveSent, LiveAborted, LiveFails, LiveEnds, KeepsFiles, disk, history
      <3> QED BY <3>1, KeepsFilesNoLoss
    <2> QED BY <1>1, <2>1, <2>2, <2>3 DEF Live
  <1>2. ASSUME NEW w \in Workers, Work(w) PROVE NoLostDelivery'
    <2>1. worker[w].pc # "idle"
      BY <1>2 DEF Work, Claim, Reread, DeliverReturns, DeliverThrows, WorkerAck,
                  WorkerMoves, WorkerReleases
    <2>2. Entry(w) \in Entries
      BY <2>1, EntryType
    <2>3. CASE WorkerAck(w)
      BY <2>2, <2>3, OrderRange DEF WorkerAck, RenameToDelivered, NoLostDelivery, AckJustified, TypeOK
    <2>4. CASE WorkerMoves(w)
      BY <2>2, <2>4, OrderRange DEF WorkerMoves, MoveToFailed, NoLostDelivery, TypeOK, history
    <2>5. CASE Claim(w) \/ Reread(w) \/ DeliverReturns(w) \/ DeliverThrows(w) \/ WorkerReleases(w)
      <3>1. KeepsFiles
        BY <2>5 DEF Claim, Reread, DeliverReturns, DeliverThrows, WorkerReleases, KeepsFiles, disk, history
      <3> QED BY <3>1, KeepsFilesNoLoss
    <2> QED BY <1>2, <2>3, <2>4, <2>5 DEF Work
  <1>3. CASE Storage
    <2>1. KeepsFiles
      BY <1>3 DEF Storage, FailRead, FailWrite, KeepsFiles, TypeOK, FailCalls, NoFile, disk, history
    <2> QED BY <2>1, KeepsFilesNoLoss
  <1>4. CASE StartRecovery \/ (\E k \in DrainKeys : StartDrain(k)) \/ Defer \/ DeferEnds \/ Crash
    <2>1. KeepsFiles
      BY <1>4 DEF StartRecovery, StartDrain, Scan, Defer, DeferEnds, Crash, KeepsFiles, disk, history
    <2> QED BY <2>1, KeepsFilesNoLoss
  <1>5. CASE UNCHANGED vars
    BY <1>5 DEF vars, disk, history, NoLostDelivery
  <1> QED BY <1>1, <1>2, <1>3, <1>4, <1>5 DEF Next

(* A persisted message that is not sent with bestEffort is in the queue or  *)
(* in failed/ until it was sent or aborted, whatever crashes, whatever else *)
(* is sent and however the live path, recovery and drains interleave.       *)
THEOREM NothingIsLost == Spec => []NoLostDelivery
  <1>1. Init => AckJustified /\ NoLostDelivery
    <2> SUFFICES ASSUME Init PROVE AckJustified /\ NoLostDelivery
      OBVIOUS
    <2>1. AckJustified
      BY DEF Init, AckJustified, IdleWorker
    <2>2. \A e \in Range(order) : json[e] # NoFile
      BY DEF Init, Range, Pending
    <2> QED BY <2>1, <2>2 DEF NoLostDelivery
  <1>2. TypeOK /\ AckJustified /\ [Next]_vars => AckJustified'
    BY AckStep
  <1>3. TypeOK /\ AckJustified /\ NoLostDelivery /\ [Next]_vars => NoLostDelivery'
    BY NoLossStep
  <1> QED BY <1>1, <1>2, <1>3, TypeInit, TypeStep, PTL DEF Spec

-----------------------------------------------------------------------------
(* No replay after an acknowledgement *)

(* Every failDelivery call is awaited by the sender of its entry: the live  *)
(* path, the worker that holds the entry's claim, or the startup recovery   *)
(* that ran out of time.                                                    *)
FailsOwned ==
  \A f \in fails :
    \/ f.by \in Entries \ OnDisk /\ f.entry = f.by
    \/ f.by \in Workers /\ worker[f.by].pc = "failing" /\ f.entry = Entry(f.by)
    \/ f.by = Startup /\ worker[Startup].pc = "deferring" /\ f.entry \in deferred

(* No live path sends an entry an earlier process left behind. *)
LeftoversNotLive == \A e \in OnDisk : live[e] = "done"

(* An acknowledged leftover the deadline never touched has no file, and     *)
(* nobody is about to write one.                                            *)
AckedGone ==
  \A e \in (OnDisk \cap acked) \ deferred :
    /\ json[e] = NoFile
    /\ \A f \in fails : f.entry = e => f.read = NoFile

(* A step that starts and reads no failDelivery call keeps calls owned if   *)
(* every worker that awaits one stays where it is.                          *)
LEMMA OwnedKept ==
  ASSUME FailsOwned, fails' \subseteq fails, deferred' = deferred,
         \A w \in Workers : AwaitsFail(w) => worker'[w] = worker[w]
  PROVE  FailsOwned'
  BY DEF FailsOwned, AwaitsFail, Entry, Workers

(* Every step keeps failDelivery calls owned. *)
LEMMA OwnedStep ==
  ASSUME TypeOK, StartupOnce, LeftoversNotLive, FailsOwned, [Next]_vars
  PROVE  FailsOwned' /\ LeftoversNotLive'
  <1>1. ASSUME NEW w \in Workers, worker[w].pc \notin {"failing", "deferring"}
        PROVE  ~AwaitsFail(w)
    BY <1>1, WorkersAssumption DEF FailsOwned, AwaitsFail
  <1>2. ASSUME NEW e \in Entries, Live(e) PROVE FailsOwned' /\ LeftoversNotLive'
    <2>1. live[e] # "done"
      BY <1>2 DEF Live, EnqueueDelivery, EnqueueFails, LiveSent, LiveAborted, LiveFails,
                  LiveAck, LiveEnds
    <2>2. e \notin OnDisk
      BY <2>1 DEF LeftoversNotLive
    <2>3. /\ worker' = worker /\ deferred' = deferred
          /\ \A d \in Entries \ {e} : live'[d] = live[d]
      BY <1>2 DEF Live, EnqueueDelivery, EnqueueFails, LiveSent, LiveAborted, LiveFails,
                  LiveAck, LiveEnds, TypeOK, history
    <2>4. fails' \subseteq fails \cup {FailCall(e, e)}
      BY <1>2 DEF Live, EnqueueDelivery, EnqueueFails, LiveSent, LiveAborted, LiveFails,
                  LiveAck, LiveEnds
    <2>5. FailsOwned'
      BY <2>2, <2>3, <2>4 DEF FailsOwned, FailCall, Entry
    <2>6. LeftoversNotLive'
      BY <2>2, <2>3, EntriesAssumption DEF LeftoversNotLive
    <2> QED BY <2>5, <2>6
  <1>3. ASSUME NEW w \in Workers, Work(w) PROVE FailsOwned' /\ LeftoversNotLive'
    <2>1. \A v \in Workers \ {w} : worker'[v] = worker[v]
      BY <1>3 DEF Work, Claim, Reread, DeliverReturns, DeliverThrows, WorkerAck,
                  WorkerMoves, WorkerReleases, Release, Advance, Goto, TypeOK
    <2>2. live' = live /\ deferred' = deferred /\ ~AwaitsFail(w)
      BY <1>1, <1>3 DEF Work, Claim, Reread, DeliverReturns, DeliverThrows, WorkerAck,
                        WorkerMoves, WorkerReleases, history
    <2>3. CASE DeliverThrows(w) /\ fails' # fails
      <3>1. /\ worker'[w].pc = "failing" /\ worker'[w].todo = worker[w].todo
            /\ fails' = fails \cup {FailCall(w, Entry(w))}
        BY <2>3 DEF DeliverThrows, Goto, TypeOK
      <3> QED BY <2>1, <2>2, <3>1 DEF FailsOwned, AwaitsFail, LeftoversNotLive, FailCall, Entry, Workers
    <2>4. CASE fails' = fails
      BY <2>1, <2>2, <2>4, OwnedKept DEF LeftoversNotLive
    <2> QED BY <1>3, <2>3, <2>4 DEF Work, Claim, Reread, DeliverReturns, WorkerAck,
                                    WorkerMoves, WorkerReleases
  <1>4. CASE Storage
    <2>1. PICK f \in fails : FailRead(f) \/ FailWrite(f)
      BY <1>4 DEF Storage
    <2>2. worker' = worker /\ live' = live /\ deferred' = deferred
      BY <2>1 DEF FailRead, FailWrite, history
    <2>3. \A g \in fails' : \E h \in fails : g.by = h.by /\ g.entry = h.entry
      BY <2>1 DEF FailRead, FailWrite, TypeOK, FailCalls
    <2> QED BY <2>2, <2>3 DEF FailsOwned, LeftoversNotLive, Entry
  <1>5. CASE StartRecovery
    <2>1. ~AwaitsFail(Startup)
      BY <1>1, <1>5 DEF StartRecovery, StartupOnce, Workers
    <2>2. /\ fails' = fails /\ live' = live /\ deferred' = deferred
          /\ \A w \in Workers \ {Startup} : worker'[w] = worker[w]
      BY <1>5 DEF StartRecovery, Scan, TypeOK, history
    <2> QED BY <2>1, <2>2, OwnedKept DEF LeftoversNotLive
  <1>6. ASSUME NEW k \in DrainKeys, StartDrain(k) PROVE FailsOwned' /\ LeftoversNotLive'
    <2>1. ~AwaitsFail(k)
      BY <1>1, <1>6 DEF StartDrain, Workers
    <2>2. /\ fails' = fails /\ live' = live /\ deferred' = deferred
          /\ \A w \in Workers \ {k} : worker'[w] = worker[w]
      BY <1>6 DEF StartDrain, Scan, TypeOK, history
    <2> QED BY <2>1, <2>2, OwnedKept DEF LeftoversNotLive
  <1>7. CASE DeferEnds
    BY <1>7, OwnedKept DEF DeferEnds, LeftoversNotLive, TypeOK, history
  <1>10. CASE Defer
    <2>1. Startup \in Workers /\ ~AwaitsFail(Startup)
      BY <1>1, <1>10 DEF Defer, Workers
    <2>2. /\ worker'[Startup].pc = "deferring" /\ live' = live
          /\ \A w \in Workers \ {Startup} : worker'[w] = worker[w]
          /\ deferred \subseteq deferred'
      BY <1>10, <2>1 DEF Defer, Goto, TypeOK
    <2>3. \A f \in fails' : f \in fails \/ (f.by = Startup /\ f.entry \in deferred')
      BY <1>10 DEF Defer, FailCall
    <2> QED BY <2>1, <2>2, <2>3 DEF FailsOwned, LeftoversNotLive, AwaitsFail, Entry
  <1>8. CASE Crash
    BY <1>8, EntriesAssumption DEF Crash, FailsOwned, LeftoversNotLive
  <1>9. CASE UNCHANGED vars
    BY <1>9 DEF vars, history, FailsOwned, LeftoversNotLive, Entry
  <1> QED BY <1>2, <1>3, <1>4, <1>5, <1>6, <1>7, <1>8, <1>9, <1>10 DEF Next

(* A step that writes no file for a leftover and lets no call read one      *)
(* keeps the acknowledged leftovers gone.                                   *)
LEMMA AckedGoneKept ==
  ASSUME AckedGone, acked' = acked, deferred \subseteq deferred',
         \A e \in OnDisk : json[e] = NoFile => json'[e] = NoFile,
         \A f \in fails' : f \in fails \/ f.read = NoFile \/ json[f.entry] # NoFile
  PROVE  AckedGone'
  BY DEF AckedGone

(* Every step keeps acknowledged leftovers gone: the only sender of a       *)
(* leftover that may write it back holds its claim, so it is not the one    *)
(* that acknowledges it.                                                    *)
LEMMA AckedGoneStep ==
  ASSUME TypeOK, ClaimsExact, LeftoversNotLive, FailsOwned, AckedGone,
         [Next]_vars
  PROVE  AckedGone'
  <1>1. ASSUME NEW e \in Entries, Live(e) PROVE AckedGone'
    <2>1. live[e] # "done"
      BY <1>1 DEF Live, EnqueueDelivery, EnqueueFails, LiveSent, LiveAborted, LiveFails,
                  LiveAck, LiveEnds
    <2>2. e \notin OnDisk
      BY <2>1 DEF LeftoversNotLive
    <2>3. /\ \A d \in Entries \ {e} : json'[d] = json[d]
          /\ acked' \subseteq acked \cup {e} /\ deferred' = deferred
          /\ \A f \in fails' : f \in fails \/ f = FailCall(e, e)
      BY <1>1 DEF Live, EnqueueDelivery, EnqueueFails, LiveSent, LiveAborted, LiveFails,
                  LiveAck, LiveEnds, RenameToDelivered, TypeOK, disk, history
    <2> QED BY <2>2, <2>3, EntriesAssumption DEF AckedGone, FailCall
  <1>2. ASSUME NEW w \in Workers, Work(w) PROVE AckedGone'
    <2>1. worker[w].pc # "idle"
      BY <1>2 DEF Work, Claim, Reread, DeliverReturns, DeliverThrows, WorkerAck,
                  WorkerMoves, WorkerReleases
    <2>2. Entry(w) \in Entries
      BY <2>1, EntryType
    <2>3. CASE WorkerAck(w)
      <3>1. ASSUME NEW f \in fails, f.entry = Entry(w), Entry(w) \in OnDisk \ deferred
            PROVE  FALSE
        <4>1. /\ f.by \in Workers /\ worker[f.by].pc = "failing"
              /\ Entry(f.by) = Entry(w)
          BY <3>1 DEF FailsOwned
        <4>2. worker[f.by].pc \in Recovering /\ worker[w].pc \in Recovering
          BY <2>3, <4>1 DEF WorkerAck, Recovering
        <4>3. f.by = w
          BY <4>1, <4>2 DEF ClaimsExact
        <4> QED BY <2>3, <4>1, <4>3 DEF WorkerAck
      <3>2. fails' = fails /\ json' = [json EXCEPT ![Entry(w)] = NoFile]
            /\ acked' \subseteq acked \cup {Entry(w)} /\ deferred' = deferred
        BY <2>3 DEF WorkerAck, RenameToDelivered
      <3> QED BY <2>2, <3>1, <3>2, EntriesAssumption DEF AckedGone, TypeOK
    <2>4. CASE WorkerMoves(w)
      <3>1. json' = [json EXCEPT ![Entry(w)] = NoFile]
            /\ fails' = fails /\ acked' = acked /\ deferred' = deferred
        BY <2>4 DEF WorkerMoves, MoveToFailed, history
      <3> QED BY <3>1, EntriesAssumption, AckedGoneKept DEF TypeOK
    <2>5. CASE Claim(w) \/ Reread(w) \/ DeliverReturns(w) \/ DeliverThrows(w) \/ WorkerReleases(w)
      <3>1. /\ json' = json /\ acked' = acked /\ deferred' = deferred
            /\ fails' \subseteq fails \cup {FailCall(w, Entry(w))}
        BY <2>5 DEF Claim, Reread, DeliverReturns, DeliverThrows, WorkerReleases, disk, history
      <3> QED BY <3>1, AckedGoneKept DEF FailCall
    <2> QED BY <1>2, <2>3, <2>4, <2>5 DEF Work
  <1>3. CASE Storage
    <2>1. PICK f \in fails : FailRead(f) \/ FailWrite(f)
      BY <1>3 DEF Storage
    <2>2. f \in FailCalls
      BY DEF TypeOK
    <2>3. CASE FailRead(f)
      <3>1. json' = json /\ acked' = acked /\ deferred' = deferred
        BY <2>3 DEF FailRead, disk, history
      <3>2. \A g \in fails' : g \in fails \/ (json[f.entry] # NoFile /\ g.entry = f.entry)
        BY <2>2, <2>3 DEF FailRead, FailCalls
      <3> QED BY <3>1, <3>2, AckedGoneKept
    <2>4. CASE FailWrite(f)
      <3>1. fails' \subseteq fails /\ f.read # NoFile
            /\ acked' = acked /\ deferred' = deferred
            /\ \A e \in Entries \ {f.entry} : json'[e] = json[e]
        BY <2>4 DEF FailWrite, TypeOK, history
      <3>2. f.entry \notin (OnDisk \cap acked) \ deferred
        BY <3>1 DEF AckedGone
      <3> QED BY <3>1, <3>2, EntriesAssumption DEF AckedGone
    <2> QED BY <2>1, <2>3, <2>4
  <1>4. CASE StartRecovery \/ (\E k \in DrainKeys : StartDrain(k)) \/ DeferEnds \/ Crash
    <2>1. json' = json /\ acked' = acked /\ deferred' = deferred /\ fails' \subseteq fails
      BY <1>4 DEF StartRecovery, StartDrain, Scan, DeferEnds, Crash, disk, history
    <2> QED BY <2>1, AckedGoneKept
  <1>5. CASE Defer
    <2>1. /\ json' = json /\ acked' = acked /\ deferred \subseteq deferred'
          /\ \A f \in fails' : f \in fails \/ f.read = NoFile
      BY <1>5 DEF Defer, FailCall, disk
    <2> QED BY <2>1, AckedGoneKept
  <1>6. CASE UNCHANGED vars
    BY <1>6 DEF vars, disk, history, AckedGone
  <1> QED BY <1>1, <1>2, <1>3, <1>4, <1>5, <1>6 DEF Next

(* A worker starts to send only an entry whose file it has just read. *)
LEMMA SendsWhatIsThere ==
  ASSUME TypeOK, [Next]_vars, NEW w \in Workers,
         worker[w].pc # "sending", worker'[w].pc = "sending"
  PROVE  json[Entry(w)] # NoFile
  <1>1. CASE \E v \in Workers : Work(v)
    <2>1. PICK v \in Workers : Work(v)
      BY <1>1
    <2>2. \A u \in Workers \ {v} : worker'[u] = worker[u]
      BY <2>1 DEF Work, Claim, Reread, DeliverReturns, DeliverThrows, WorkerAck,
                  WorkerMoves, WorkerReleases, Release, Advance, Goto, TypeOK
    <2>3. v = w
      BY <2>2
    <2>4. ~Advance(w)
      BY DEF Advance, IdleWorker, TypeOK
    <2>5. \A pc \in Phases \ {"sending"} : ~Goto(w, pc)
      BY DEF Goto, TypeOK
    <2>6. Reread(w) /\ Goto(w, "sending")
      BY <2>1, <2>3, <2>4, <2>5
      DEF Work, Claim, Reread, DeliverReturns, DeliverThrows, WorkerAck,
          WorkerMoves, WorkerReleases, Release, Phases
    <2>7. worker'[w].pc # "moving"
      OBVIOUS
    <2> QED BY <2>4, <2>6, BoundsAssumption DEF Reread, Release, NoFile
  <1>2. CASE StartRecovery \/ \E k \in DrainKeys : StartDrain(k)
    BY <1>2 DEF StartRecovery, StartDrain, Scan, TypeOK, IdleWorker, Workers
  <1>3. CASE Defer \/ DeferEnds \/ Crash
    BY <1>3 DEF Defer, DeferEnds, Goto, Crash, TypeOK, IdleWorker, Workers
  <1>4. CASE Storage \/ (\E e \in Entries : Live(e)) \/ UNCHANGED vars
    BY <1>4 DEF Storage, FailRead, FailWrite, Live, EnqueueDelivery, EnqueueFails, LiveSent,
                LiveAborted, LiveFails, LiveAck, LiveEnds, vars
  <1> QED BY <1>1, <1>2, <1>3, <1>4 DEF Next

(* What the re-read after the claim is for: startup recovery and any number *)
(* of reconnect drains, however stale their lists are, never send a message *)
(* of an earlier process again that one of them acknowledged, across        *)
(* crashes and while other messages are sent live, unless the deadline of a *)
(* startup recovery wrote it back without a claim.                          *)
THEOREM NothingIsReplayed == Spec => NoReplayAfterAck
  <1> DEFINE Inv == /\ TypeOK /\ StartupOnce /\ ClaimsExact
                    /\ LeftoversNotLive /\ FailsOwned /\ AckedGone
             Step == \A w \in Workers :
                       worker[w].pc # "sending" /\ worker'[w].pc = "sending"
                         => Entry(w) \notin (OnDisk \cap acked) \ deferred
  <1>1. Init => Inv
    <2> SUFFICES ASSUME Init PROVE Inv
      OBVIOUS
    <2>1. StartupOnce /\ ClaimsExact
      BY DEF Init, StartupOnce, ClaimsExact, IdleWorker, Recovering, Workers
    <2>2. LeftoversNotLive /\ FailsOwned /\ AckedGone
      BY DEF Init, LeftoversNotLive, FailsOwned, AckedGone
    <2> QED BY <2>1, <2>2, TypeInit
  <1>2. Inv /\ [Next]_vars => Inv'
    BY TypeStep, StartupStep, ClaimsStep, OwnedStep, AckedGoneStep
  <1>3. Inv /\ [Next]_vars => [Step]_vars
    BY SendsWhatIsThere DEF AckedGone
  <1>4. Spec => [][Step]_vars
    BY <1>1, <1>2, <1>3, PTL DEF Spec
  <1> QED BY <1>4 DEF NoReplayAfterAck

=============================================================================
