---------------------------- MODULE DeliveryQueue ---------------------------
(***************************************************************************)
(* The write-ahead queue of outbound messages, src/infra/outbound/: each    *)
(* message is written to <id>.json before it is sent, acknowledged by       *)
(* renaming the file to <id>.delivered and removing that, and replayed from *)
(* disk by the startup recovery and by per-account reconnect drains.        *)
(*                                                                          *)
(* The live path (deliverOutboundPayloads), the startup recovery and the    *)
(* drains run interleaved in one process, a step from one await to the      *)
(* next; a crash ends them all and keeps the files and what was sent.       *)
(*                                                                          *)
(* Abstractions.  A file is the retryCount it holds: lastAttemptAt is set   *)
(* exactly when retryCount > 0, so a backoff window is over at once for 0   *)
(* and at any moment otherwise.  A temporary file renamed into place is one *)
(* write.  readdir and the reads after it are one scan: only the ids are    *)
(* used before the entry is read again.  The restart sentinel's own retries *)
(* of a live send change nothing here.                                      *)
(***************************************************************************)
EXTENDS Integers, Sequences, FiniteSets, Functions

CONSTANTS Entries,       \* messages to deliver
          DrainKeys,     \* accounts whose reconnect drains the queue
          Startup,       \* the startup recovery
          BestEffort,    \* entries sent with bestEffort
          ReportsErrors, \* entries whose live caller passes onError
          OnDisk,        \* entries an earlier process may have left in the queue
          MaxRetries,    \* MAX_RETRIES
          BudgetExpires, \* whether startup recovery may exceed its deadline
          MaxCrashes     \* bound: number of crashes

Workers == DrainKeys \cup {Startup}

ASSUME EntriesAssumption ==
  /\ IsFiniteSet(Entries)
  /\ BestEffort \subseteq Entries /\ ReportsErrors \subseteq Entries
  /\ OnDisk \subseteq Entries
ASSUME WorkersAssumption == Startup \notin DrainKeys /\ Workers \cap Entries = {}
ASSUME BoundsAssumption ==
  /\ MaxRetries \in Nat \ {0} /\ MaxCrashes \in Nat
  /\ BudgetExpires \in BOOLEAN

NoFile == -1

VARIABLES json,              \* retryCount in <id>.json, or NoFile
          marker,            \* entries with an <id>.delivered marker
          failed,            \* entries with a file in failed/
          order,             \* entries by enqueuedAt
          live,              \* where the live path of each entry is
          worker,            \* where each recovery worker is
          entriesInProgress, \* the claims
          fails,             \* failDelivery calls under way
          recovered,         \* startup recovery was started in this process
          crashes,           \* crashes so far
          delivered,         \* entries sent completely at least once
          aborted,           \* entries whose live send was aborted
          acked,             \* entries whose file an ack renamed
          deferred           \* entries written back unclaimed by the deadline

disk == <<json, marker, failed>>
history == <<delivered, aborted, acked, deferred>>
vars == <<disk, order, live, worker, entriesInProgress, fails, recovered,
          crashes, history>>

LiveStates == {"new", "sending", "acking", "unlinking", "failing", "done"}
Phases == {"idle", "loop", "claimed", "sending", "acking", "unlinking",
           "moving", "failing", "deferring"}
(* A worker in one of these phases is recovering the head of its list. *)
Recovering == {"claimed", "sending", "acking", "unlinking", "moving", "failing"}

(* A failDelivery call: who awaits it, its entry, the retryCount it read. *)
FailCalls ==
  [by : Entries \cup Workers, entry : Entries, read : Nat \cup {NoFile}]

(* Every variable has the type the code gives it, and a worker has entries  *)
(* to go through exactly while it runs.                                     *)
TypeOK ==
  /\ json \in [Entries -> Nat \cup {NoFile}]
  /\ marker \subseteq Entries /\ failed \subseteq Entries
  /\ order \in Seq(Entries)
  /\ live \in [Entries -> LiveStates]
  /\ worker \in [Workers -> [pc : Phases, todo : Seq(Entries)]]
  /\ \A w \in Workers : worker[w].pc = "idle" <=> worker[w].todo = <<>>
  /\ entriesInProgress \subseteq Entries
  /\ fails \subseteq FailCalls
  /\ recovered \in BOOLEAN
  /\ crashes \in 0..MaxCrashes
  /\ delivered \subseteq Entries /\ aborted \subseteq Entries
  /\ acked \subseteq Entries /\ deferred \subseteq Entries

Pending == {e \in Entries : json[e] # NoFile}

IdleWorker == [pc |-> "idle", todo |-> <<>>]

(* Which messages the process will send itself is anybody's choice. *)
Init ==
  /\ json \in [Entries -> 0..MaxRetries \cup {NoFile}]
  /\ Pending \subseteq OnDisk
  /\ marker = {} /\ failed = {}
  /\ order \in [1..Cardinality(Pending) -> Pending] /\ IsInjective(order)
  /\ live \in [Entries -> {"new", "done"}]
  /\ \A e \in OnDisk : live[e] = "done"
  /\ worker = [w \in Workers |-> IdleWorker]
  /\ entriesInProgress = {}
  /\ fails = {}
  /\ recovered = FALSE
  /\ crashes = 0
  /\ delivered = {} /\ aborted = {} /\ acked = {} /\ deferred = {}

-----------------------------------------------------------------------------
(* delivery-queue-storage.ts *)

(* ackDelivery, phase 1: rename <id>.json to <id>.delivered, if it is there. *)
RenameToDelivered(e) ==
  /\ json' = [json EXCEPT ![e] = NoFile]
  /\ marker' = IF json[e] # NoFile THEN marker \cup {e} ELSE marker
  /\ acked' = IF json[e] # NoFile THEN acked \cup {e} ELSE acked

(* moveToFailed: rename <id>.json into failed/; ENOENT leaves all as it is. *)
MoveToFailed(e) ==
  /\ json' = [json EXCEPT ![e] = NoFile]
  /\ failed' = IF json[e] # NoFile THEN failed \cup {e} ELSE failed

(* A failDelivery call that has not read its entry yet. *)
FailCall(a, e) == [by |-> a, entry |-> e, read |-> NoFile]

AwaitsFail(a) == \E f \in fails : f.by = a

(* failDelivery reads the entry; ENOENT ends the call. *)
FailRead(f) ==
  /\ f.read = NoFile
  /\ fails' = IF json[f.entry] = NoFile THEN fails \ {f}
              ELSE (fails \ {f}) \cup {[f EXCEPT !.read = json[f.entry]]}
  /\ UNCHANGED <<disk, order, live, worker, entriesInProgress, recovered,
                 crashes, history>>

(* failDelivery writes the entry back, whether or not it is still there. *)
FailWrite(f) ==
  /\ f.read # NoFile
  /\ json' = [json EXCEPT ![f.entry] = f.read + 1]
  /\ fails' = fails \ {f}
  /\ UNCHANGED <<marker, failed, order, live, worker, entriesInProgress,
                 recovered, crashes, history>>

-----------------------------------------------------------------------------
(* The live path: deliverOutboundPayloads *)

(* enqueueDelivery, before the send. *)
EnqueueDelivery(e) ==
  /\ live[e] = "new"
  /\ json' = [json EXCEPT ![e] = 0]
  /\ order' = Append(order, e)
  /\ live' = [live EXCEPT ![e] = "sending"]
  /\ UNCHANGED <<marker, failed, worker, entriesInProgress, fails, recovered,
                 crashes, history>>

(* The queue write fails: the message is sent without an entry. *)
EnqueueFails(e) ==
  /\ live[e] = "new"
  /\ live' = [live EXCEPT ![e] = "done"]
  /\ UNCHANGED <<disk, order, worker, entriesInProgress, fails, recovered,
                 crashes, history>>

(* Everything was sent. *)
LiveSent(e) ==
  /\ live[e] = "sending"
  /\ live' = [live EXCEPT ![e] = "acking"]
  /\ delivered' = delivered \cup {e}
  /\ UNCHANGED <<disk, order, worker, entriesInProgress, fails, recovered,
                 crashes, aborted, acked, deferred>>

(* The caller aborted; with bestEffort the abort is an error like another. *)
LiveAborted(e) ==
  /\ live[e] = "sending"
  /\ e \notin BestEffort
  /\ live' = [live EXCEPT ![e] = "acking"]
  /\ aborted' = aborted \cup {e}
  /\ UNCHANGED <<disk, order, worker, entriesInProgress, fails, recovered,
                 crashes, delivered, acked, deferred>>

(* Something was not sent: the channel could not be opened, or a payload    *)
(* failed.  With bestEffort a payload's error is not thrown, and only the   *)
(* wrapped onError of the caller notices it.                                *)
LiveFails(e) ==
  /\ live[e] = "sending"
  /\ \/ /\ e \in BestEffort \ ReportsErrors
        /\ live' = [live EXCEPT ![e] = "acking"]
        /\ UNCHANGED fails
     \/ /\ live' = [live EXCEPT ![e] = "failing"]
        /\ fails' = fails \cup {FailCall(e, e)}
  /\ UNCHANGED <<disk, order, worker, entriesInProgress, recovered, crashes,
                 history>>

LiveAck(e) ==
  /\ live[e] = "acking"
  /\ RenameToDelivered(e)
  /\ live' = [live EXCEPT ![e] = "unlinking"]
  /\ UNCHANGED <<failed, order, worker, entriesInProgress, fails, recovered,
                 crashes, delivered, aborted, deferred>>

LiveEnds(e) ==
  /\ \/ live[e] = "unlinking" /\ marker' = marker \ {e}
     \/ live[e] = "failing" /\ ~AwaitsFail(e) /\ UNCHANGED marker
  /\ live' = [live EXCEPT ![e] = "done"]
  /\ UNCHANGED <<json, failed, order, worker, entriesInProgress, fails,
                 recovered, crashes, history>>

-----------------------------------------------------------------------------
(* Recovery workers: recoverPendingDeliveries and drainPendingDeliveries *)

Entry(w) == Head(worker[w].todo)

(* The entries of a set, sorted by enqueuedAt. *)
SortedByAge(match) ==
  {s \in [1..Cardinality(match) -> match] :
     \A i, j \in DOMAIN s : i < j =>
       \E p, q \in DOMAIN order : p < q /\ order[p] = s[i] /\ order[q] = s[j]}

(* loadPendingDeliveries: the ids on disk, oldest first; .delivered markers *)
(* are removed.  A worker with nothing to do has ended.                     *)
Scan(w, match) ==
  /\ \E todo \in SortedByAge(match) :
       worker' = [worker EXCEPT ![w] =
                    IF todo = <<>> THEN IdleWorker ELSE [pc |-> "loop", todo |-> todo]]
  /\ marker' = {}
  /\ UNCHANGED <<json, failed, order, live, entriesInProgress, fails, crashes,
                 history>>

StartRecovery ==
  /\ ~recovered
  /\ recovered' = TRUE
  /\ Scan(Startup, Pending)

(* A reconnect drain; selectEntry decides which entries are its own. *)
StartDrain(k) ==
  /\ worker[k].pc = "idle"
  /\ \E match \in SUBSET Pending : Scan(k, match)
  /\ UNCHANGED recovered

Goto(w, pc) == worker' = [worker EXCEPT ![w].pc = pc]

(* Go on with the next entry, or end. *)
Advance(w) ==
  worker' = [worker EXCEPT ![w] =
               IF Len(@.todo) = 1 THEN IdleWorker
               ELSE [pc |-> "loop", todo |-> Tail(@.todo)]]

(* claimRecoveryEntry: skip an entry another worker has. *)
Claim(w) ==
  /\ worker[w].pc = "loop"
  /\ IF Entry(w) \in entriesInProgress
       THEN Advance(w) /\ UNCHANGED entriesInProgress
       ELSE /\ entriesInProgress' = entriesInProgress \cup {Entry(w)}
            /\ Goto(w, "claimed")
  /\ UNCHANGED <<disk, order, live, fails, recovered, crashes, history>>

Mut_ReleaseNothing(w) == Advance(w) /\ UNCHANGED entriesInProgress

(* The finally of an entry: releaseRecoveryEntry. *)
Release(w) ==
  /\ Advance(w)
  /\ entriesInProgress' = entriesInProgress \ {Entry(w)}

Mut_TrustSnapshot(w) ==
  /\ worker[w].pc = "claimed"
  /\ Goto(w, "sending")
  /\ UNCHANGED <<disk, order, live, entriesInProgress, fails, recovered,
                 crashes, history>>

Mut_NoFirstReplay(w) ==
  LET retryCount == json[Entry(w)] IN
  /\ worker[w].pc = "claimed"
  /\ \/ /\ retryCount < MaxRetries
        /\ Release(w)
     \/ /\ retryCount >= MaxRetries
        /\ Goto(w, "moving") /\ UNCHANGED entriesInProgress
     \/ /\ retryCount \in 0..(MaxRetries - 1)
        /\ Goto(w, "sending") /\ UNCHANGED entriesInProgress
  /\ UNCHANGED <<disk, order, live, fails, recovered, crashes, history>>

(* The entry is read again after the claim: it is gone, used up, still in   *)
(* its backoff window, or sent.                                             *)
Reread(w) ==
  LET retryCount == json[Entry(w)] IN
  /\ worker[w].pc = "claimed"
  /\ \/ /\ retryCount = NoFile
        /\ Release(w)
     \/ /\ retryCount >= MaxRetries
        /\ Goto(w, "moving") /\ UNCHANGED entriesInProgress
     \/ /\ retryCount \in 1..(MaxRetries - 1)
        /\ Release(w)
     \/ /\ retryCount \in 0..(MaxRetries - 1)
        /\ Goto(w, "sending") /\ UNCHANGED entriesInProgress
  /\ UNCHANGED <<disk, order, live, fails, recovered, crashes, history>>

(* drainQueuedEntry's deliver returns: all was sent, or bestEffort hid an   *)
(* error, for no onError is passed.                                         *)
DeliverReturns(w) ==
  /\ worker[w].pc = "sending"
  /\ \/ delivered' = delivered \cup {Entry(w)}
     \/ Entry(w) \in BestEffort /\ UNCHANGED delivered
  /\ Goto(w, "acking")
  /\ UNCHANGED <<disk, order, live, entriesInProgress, fails, recovered,
                 crashes, aborted, acked, deferred>>

Mut_ThrowIsAcked(w) ==
  /\ worker[w].pc = "sending"
  /\ Goto(w, "acking")
  /\ UNCHANGED <<disk, order, live, entriesInProgress, fails, recovered,
                 crashes, history>>

(* deliver throws: isPermanentDeliveryError decides what happens next. *)
DeliverThrows(w) ==
  /\ worker[w].pc = "sending"
  /\ \/ Goto(w, "moving") /\ UNCHANGED fails
     \/ Goto(w, "failing") /\ fails' = fails \cup {FailCall(w, Entry(w))}
  /\ UNCHANGED <<disk, order, live, entriesInProgress, recovered, crashes,
                 history>>

WorkerAck(w) ==
  /\ worker[w].pc = "acking"
  /\ RenameToDelivered(Entry(w))
  /\ Goto(w, "unlinking")
  /\ UNCHANGED <<failed, order, live, entriesInProgress, fails, recovered,
                 crashes, delivered, aborted, deferred>>

WorkerMoves(w) ==
  /\ worker[w].pc = "moving"
  /\ MoveToFailed(Entry(w))
  /\ Release(w)
  /\ UNCHANGED <<marker, order, live, fails, recovered, crashes, history>>

WorkerReleases(w) ==
  /\ \/ worker[w].pc = "unlinking" /\ marker' = marker \ {Entry(w)}
     \/ worker[w].pc = "failing" /\ ~AwaitsFail(w) /\ UNCHANGED marker
  /\ Release(w)
  /\ UNCHANGED <<json, failed, order, live, fails, recovered, crashes, history>>

(* The recovery deadline has passed: deferRemainingEntriesForBudget calls   *)
(* failDelivery for every entry left, claimed or not.                       *)
Defer ==
  /\ BudgetExpires
  /\ worker[Startup].pc = "loop"
  /\ Goto(Startup, "deferring")
  /\ fails' = fails \cup {FailCall(Startup, e) : e \in Range(worker[Startup].todo)}
  /\ deferred' = deferred \cup Range(worker[Startup].todo)
  /\ UNCHANGED <<disk, order, live, entriesInProgress, recovered, crashes,
                 delivered, aborted, acked>>

DeferEnds ==
  /\ worker[Startup].pc = "deferring"
  /\ ~AwaitsFail(Startup)
  /\ worker' = [worker EXCEPT ![Startup] = IdleWorker]
  /\ UNCHANGED <<disk, order, live, entriesInProgress, fails, recovered,
                 crashes, history>>

(* The process dies and another one starts. *)
Crash ==
  /\ crashes < MaxCrashes
  /\ crashes' = crashes + 1
  /\ live' = [e \in Entries |-> IF live[e] = "new" THEN "new" ELSE "done"]
  /\ worker' = [w \in Workers |-> IdleWorker]
  /\ entriesInProgress' = {}
  /\ fails' = {}
  /\ recovered' = FALSE
  /\ UNCHANGED <<disk, order, history>>

-----------------------------------------------------------------------------

Live(e) ==
  \/ EnqueueDelivery(e) \/ EnqueueFails(e) \/ LiveSent(e) \/ LiveAborted(e)
  \/ LiveFails(e) \/ LiveAck(e) \/ LiveEnds(e)

Work(w) ==
  \/ Claim(w) \/ Reread(w) \/ DeliverReturns(w) \/ DeliverThrows(w)
  \/ WorkerAck(w) \/ WorkerMoves(w) \/ WorkerReleases(w)

Storage == \E f \in fails : FailRead(f) \/ FailWrite(f)

Next ==
  \/ \E e \in Entries : Live(e)
  \/ StartRecovery
  \/ \E k \in DrainKeys : StartDrain(k)
  \/ \E w \in Workers : Work(w)
  \/ Storage
  \/ Defer
  \/ DeferEnds
  \/ Crash

Spec == Init /\ [][Next]_vars

(* Sends and file operations return, and a started gateway recovers. *)
Fairness ==
  /\ WF_vars(StartRecovery) /\ WF_vars(Storage) /\ WF_vars(DeferEnds)
  /\ \A w \in Workers : WF_vars(Work(w))

FairSpec == Spec /\ Fairness

-----------------------------------------------------------------------------

(* The write-ahead promise: an entry that was persisted is in the queue or  *)
(* in failed/ until it was sent or its sender aborted it, across crashes    *)
(* and whichever of the senders deals with it.  An entry sent with          *)
(* bestEffort has no such promise: a hidden error is acknowledged.          *)
NoLostDelivery ==
  \A e \in Range(order) \ BestEffort :
    json[e] # NoFile \/ e \in failed \cup delivered \cup aborted

(* Two recoveries never work on one entry, and no claim outlives the        *)
(* recovery that took it: a leaked claim would hide the entry from every    *)
(* later drain of this process.                                             *)
ClaimsExact ==
  /\ entriesInProgress = {Entry(w) : w \in {v \in Workers : worker[v].pc \in Recovering}}
  /\ \A v, w \in Workers :
       worker[v].pc \in Recovering /\ worker[w].pc \in Recovering
         /\ Entry(v) = Entry(w) => v = w

(* "This prevents stale startup/reconnect snapshots from re-sending an      *)
(* entry that another recovery path already acked."  Two writers are beyond *)
(* that guard, for they take no claim, and their failDelivery may put back  *)
(* a file after the ack: the live path (so this is about entries of an      *)
(* earlier process) and deferRemainingEntriesForBudget.                     *)
NoReplayAfterAck ==
  [][\A w \in Workers :
       worker[w].pc # "sending" /\ worker'[w].pc = "sending"
         => Entry(w) \notin (OnDisk \cap acked) \ deferred]_vars

(* A message an earlier process left in the queue before any attempt was    *)
(* counted is tried again: it is sent, fails for good, or counts a retry.   *)
LeftoversRetried ==
  \A e \in OnDisk :
    json[e] = 0 ~> json[e] # 0

=============================================================================
