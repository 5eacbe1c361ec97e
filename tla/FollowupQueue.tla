---------------------------- MODULE FollowupQueue ---------------------------
(***************************************************************************)
(* The followup queue of one session key, src/auto-reply/reply/queue/ with  *)
(* src/utils/queue-helpers.ts: messages that arrive while the agent is busy *)
(* are queued, and a drain loop gives them to followup runs.                *)
(*                                                                          *)
(* The map FOLLOWUP_QUEUES refers to at most one queue object of the key,   *)
(* but a drain keeps a reference to the object it was started for; after    *)
(* clearFollowupQueue an old object may still be draining while the map     *)
(* refers to a new one.  A slot of Objects that is neither in the map nor   *)
(* draining is free for reuse.                                              *)
(*                                                                          *)
(* Abstractions.  A message stands for its run, its prompt and its message  *)
(* id; its route stands for resolveCrossChannelKey's result.  Of an overflow *)
(* summary only the number of dropped messages is kept.  Time is left       *)
(* out: a debounce or a dedupe entry may end at any moment.  The remembered *)
(* callback is left out: enqueueFollowupRun's caller sets it before         *)
(* anything needs it.  What runs between two awaits is one step.            *)
(***************************************************************************)
EXTENDS Naturals, Sequences, FiniteSets, Functions

CONSTANTS Messages,  \* inbound messages, each with a message id
          Objects,   \* bound: queue objects alive at once
          Settings,  \* records [mode, cap, dropPolicy] an enqueue may bring
          Routes,    \* reply routes: "none", "cross" or a destination
          MaxClears, \* bound: number of clearFollowupQueue calls
          MaxDropped, \* bound: dropped messages owed a summary at once
          NoObject   \* FOLLOWUP_QUEUES has no entry for the key

ASSUME SettingsAssumption ==
  Settings \subseteq [mode : {"followup", "collect"}, cap : Nat \ {0},
                      dropPolicy : {"summarize", "old", "new"}]
ASSUME NoObjectAssumption == NoObject \notin Objects
ASSUME BoundsAssumption == MaxClears \in Nat /\ MaxDropped \in Nat

VARIABLES obj,        \* the queue objects
          current,    \* the object FOLLOWUP_QUEUES refers to
          recent,     \* RECENT_QUEUE_MESSAGE_IDS
          mainActive, \* a reply run of the session is active
          embedded,   \* an embedded run without reply operation is active
          route,      \* the route of each message
          clears,     \* clearFollowupQueue calls so far
          owed        \* history: messages enqueueFollowupRun returned true
                      \* for, until a run completes with their prompt, the
                      \* overflow policy drops them or the queue is cleared

vars == <<obj, current, recent, mainActive, embedded, route, clears, owed>>

-----------------------------------------------------------------------------

Idle == [kind |-> "idle"]
Debounce(force) == [kind |-> "debounce", force |-> force]
(* drainCollectQueueStep or drainNextQueueItem is done and its await has    *)
(* not come back; next is what the loop does then.                          *)
Returning(force, next) == [kind |-> "returning", force |-> force, next |-> next]
RunHead(force, m) == [kind |-> "head", force |-> force, prompts |-> <<m>>]
RunSummary(force) == [kind |-> "summary", force |-> force, prompts |-> <<>>]
RunBatch(ms, summary) ==
  [kind |-> "batch", force |-> FALSE, prompts |-> ms, summary |-> summary]

(* A queue object as getFollowupQueue creates it. *)
Fresh(s) == [items |-> <<>>, mode |-> s.mode, cap |-> s.cap,
             dropPolicy |-> s.dropPolicy, droppedCount |-> 0,
             lastRun |-> FALSE, drain |-> Idle]

draining(q) == q.drain # Idle
Running(q) == q.drain.kind \in {"head", "summary", "batch"}
Exhausted(q) == q.items = <<>> /\ q.droppedCount = 0

(* Every variable has the type the code gives it. *)
TypeOK ==
  /\ \A o \in Objects :
       /\ obj[o].items \in Seq(Messages)
       /\ [mode |-> obj[o].mode, cap |-> obj[o].cap,
           dropPolicy |-> obj[o].dropPolicy] \in Settings
       /\ obj[o].droppedCount \in Nat
       /\ obj[o].drain.kind \in
            {"idle", "debounce", "returning", "head", "summary", "batch"}
  /\ current \in Objects \cup {NoObject}
  /\ recent \subseteq Messages
  /\ mainActive \in BOOLEAN /\ embedded \in BOOLEAN
  /\ owed \subseteq Messages

Init ==
  /\ \E s \in Settings : obj = [o \in Objects |-> Fresh(s)]
  /\ current = NoObject
  /\ recent = {}
  /\ mainActive = FALSE /\ embedded = FALSE
  /\ route \in [Messages -> Routes]
  /\ clears = 0
  /\ owed = {}

-----------------------------------------------------------------------------
(* Starting and ending drains *)

(* scheduleFollowupDrain, up to its first await: beginQueueDrain on the     *)
(* object in the map; a drain with nothing to do ends at once.              *)
Schedule(objects, cur) ==
  IF cur = NoObject \/ draining(objects[cur])
    THEN [obj |-> objects, current |-> cur]
  ELSE IF Exhausted(objects[cur])
    THEN [obj |-> objects, current |-> NoObject]
  ELSE [obj |-> [objects EXCEPT ![cur].drain = Debounce(FALSE)], current |-> cur]

Mut_FinallyStops(objects, o) ==
  LET idled == [objects EXCEPT ![o].drain = Idle] IN
  [obj |-> idled, current |-> IF Exhausted(idled[o]) THEN NoObject ELSE current]

(* The drain's finally: forget the key's map entry, or drain again. *)
Finally(objects, o) ==
  LET idled == [objects EXCEPT ![o].drain = Idle] IN
  IF Exhausted(idled[o]) THEN [obj |-> idled, current |-> NoObject]
  ELSE Schedule(idled, current)

Become(s) == obj' = s.obj /\ current' = s.current

(* The while condition, after an iteration that left the object as q. *)
NextIteration(q, o, force) ==
  IF Exhausted(q) THEN Become(Finally([obj EXCEPT ![o] = q], o))
  ELSE Become([obj |-> [obj EXCEPT ![o] = [q EXCEPT !.drain = Debounce(force)]],
               current |-> current])

-----------------------------------------------------------------------------
(* Enqueueing *)

(* isRunActive, through isEmbeddedPiRunActive: a reply run, a followup run, *)
(* or an embedded run of the session that has no reply operation.           *)
IsRunActive == mainActive \/ embedded \/ \E o \in Objects : Running(obj[o])

Mut_DropOneLess(q) == Len(q.items) - q.cap

(* applyQueueDropPolicy: how many of the oldest items an enqueue drops. *)
DropCount(q) == Len(q.items) - q.cap + 1

(* applyQueueDropPolicy's effect when it accepts the new item. *)
DropOld(q) ==
  IF Len(q.items) < q.cap THEN q
  ELSE LET kept == SubSeq(q.items, DropCount(q) + 1, Len(q.items)) IN
       IF q.dropPolicy = "summarize"
         THEN [q EXCEPT !.items = kept, !.droppedCount = @ + DropCount(q)]
         ELSE [q EXCEPT !.items = kept]

(* getFollowupQueue: the object in the map, with the settings applied, or a *)
(* new one.                                                                 *)
GetFollowupQueue(o, s) ==
  IF current = NoObject THEN Fresh(s)
  ELSE [obj[o] EXCEPT !.mode = s.mode, !.cap = s.cap, !.dropPolicy = s.dropPolicy]

SlotFor(o) ==
  IF current = NoObject THEN o \in Objects /\ ~draining(obj[o]) ELSE o = current

Mut_RecentOnly(m, q) == m \in recent

(* Dedupe by recent message ids and by what is queued (isRunAlreadyQueued). *)
AlreadyQueued(m, q) == m \in recent \/ m \in Range(q.items)

Mut_RecheckNever(objects, o, restart) ==
  IF restart THEN Schedule(objects, o) ELSE [obj |-> objects, current |-> o]

(* After the push: kickFollowupDrainIfIdle when the caller asked for it,    *)
(* and runReplyAgent's own check that the run it saw active still is.       *)
AfterEnqueue(objects, o, restart) ==
  IF restart \/ ~IsRunActive THEN Schedule(objects, o)
  ELSE [obj |-> objects, current |-> o]

(* enqueueFollowupRun and the lines of runReplyAgent that follow it.  The   *)
(* caller decided to enqueue when it last saw the session busy, which may   *)
(* be out of date.                                                          *)
Enqueue(m, s, o, restart) ==
  LET q == GetFollowupQueue(o, s)
      rejected == Len(q.items) >= q.cap /\ q.dropPolicy = "new"
      pushed == [DropOld(q) EXCEPT !.items = Append(@, m), !.lastRun = TRUE]
  IN
  /\ SlotFor(o)
  /\ pushed.droppedCount <= MaxDropped
  /\ IF AlreadyQueued(m, q)
       THEN /\ Become(AfterEnqueue([obj EXCEPT ![o] = q], o, FALSE))
            /\ UNCHANGED <<recent, owed>>
     ELSE IF rejected
       THEN /\ Become(AfterEnqueue([obj EXCEPT ![o] = [q EXCEPT !.lastRun = TRUE]],
                                   o, FALSE))
            /\ UNCHANGED <<recent, owed>>
     ELSE /\ Become(AfterEnqueue([obj EXCEPT ![o] = pushed], o, restart))
          /\ recent' = recent \cup {m}
          /\ owed' = (owed \ (Range(q.items) \ Range(pushed.items))) \cup {m}
  /\ UNCHANGED <<mainActive, embedded, route, clears>>

(* A message id falls out of the dedupe cache. *)
ForgetMessageId(m) ==
  /\ m \in recent
  /\ recent' = recent \ {m}
  /\ UNCHANGED <<obj, current, mainActive, embedded, route, clears, owed>>

-----------------------------------------------------------------------------
(* The runs that make the session busy *)

StartMain ==
  /\ ~mainActive
  /\ mainActive' = TRUE
  /\ UNCHANGED <<obj, current, recent, embedded, route, clears, owed>>

(* runReplyAgent ends: finalizeWithFollowup, then the run is inactive. *)
EndMain ==
  /\ mainActive
  /\ mainActive' = FALSE
  /\ Become(Schedule(obj, current))
  /\ UNCHANGED <<recent, embedded, route, clears, owed>>

(* A run of the session that is no reply to a message, as the agent command *)
(* and cron jobs start it: setActiveEmbeddedRun.                            *)
StartEmbedded ==
  /\ ~embedded
  /\ embedded' = TRUE
  /\ UNCHANGED <<obj, current, recent, mainActive, route, clears, owed>>

(* Its end schedules no drain. *)
EndEmbedded ==
  /\ embedded
  /\ embedded' = FALSE
  /\ UNCHANGED <<obj, current, recent, mainActive, route, clears, owed>>

(* clearFollowupQueue: empty the object and forget it. *)
ClearFollowupQueue ==
  /\ clears < MaxClears
  /\ current # NoObject
  /\ clears' = clears + 1
  /\ obj' = [obj EXCEPT ![current] =
               [@ EXCEPT !.items = <<>>, !.droppedCount = 0, !.lastRun = FALSE]]
  /\ owed' = owed \ Range(obj[current].items)
  /\ current' = NoObject
  /\ UNCHANGED <<recent, mainActive, embedded, route>>

-----------------------------------------------------------------------------
(* The drain loop *)

(* hasCrossChannelItems: unroutable items, several destinations, or routed  *)
(* and unrouted items together.                                             *)
HasCrossChannelItems(items) ==
  LET routes == {route[m] : m \in Range(items)} IN
  "cross" \in routes \/ Cardinality(routes) > 1

SummaryDue(q) == q.dropPolicy = "summarize" /\ q.droppedCount > 0

(* What an iteration does once the debounce is over; Idle: it breaks.  A    *)
(* batch is only announced: it is sliced when the await is over.            *)
NextRun(q, force) ==
  LET collect == q.mode = "collect" IN
  IF collect /\ ~force /\ ~HasCrossChannelItems(q.items)
    THEN Returning(FALSE, "collect")
  ELSE IF ~collect /\ SummaryDue(q) /\ ~q.lastRun THEN Idle
  ELSE IF q.items = <<>> THEN Returning(force, "leave")
  ELSE IF ~collect /\ SummaryDue(q) THEN RunSummary(force)
  ELSE RunHead(force \/ collect, Head(q.items))

(* waitForQueueDebounce is over: start a followup run, or leave the loop. *)
Iterate(o) ==
  LET q == obj[o]
      run == NextRun(q, q.drain.force)
  IN
  /\ q.drain.kind = "debounce"
  /\ IF run = Idle THEN Become(Finally(obj, o))
     ELSE Become([obj |-> [obj EXCEPT ![o].drain = run], current |-> current])
  /\ UNCHANGED <<recent, mainActive, embedded, route, clears, owed>>

DropFirst(items, n) ==
  IF Len(items) <= n THEN <<>> ELSE SubSeq(items, n + 1, Len(items))

(* clearQueueSummaryState *)
ClearSummary(q) == [q EXCEPT !.droppedCount = 0]

Mut_ConsumeAll(q) == [q EXCEPT !.items = <<>>]

(* What the completed run takes out of the queue: items.shift(), or         *)
(* items.splice(0, n) and the summary the batch delivered.                  *)
Consume(q) ==
  LET run == q.drain
      n == IF run.kind = "batch" THEN Len(run.prompts) ELSE 1
      rest == [q EXCEPT !.items = DropFirst(@, n)]
  IN IF run.kind = "batch" /\ run.summary THEN ClearSummary(rest) ELSE rest

(* The followup run completes.  A run of the head is awaited once more, by  *)
(* the caller of drainNextQueueItem.                                        *)
RunCompletes(o) ==
  LET q == obj[o]
      next == IF q.drain.kind = "summary" THEN "clear" ELSE "loop"
  IN
  /\ Running(q)
  /\ IF q.drain.kind = "batch" THEN NextIteration(Consume(q), o, FALSE)
     ELSE Become([obj |-> [obj EXCEPT ![o] =
                    [Consume(q) EXCEPT !.drain = Returning(q.drain.force, next)]],
                  current |-> current])
  /\ owed' = owed \ (IF q.drain.kind = "summary" THEN {} ELSE Range(q.drain.prompts))
  /\ UNCHANGED <<recent, mainActive, embedded, route, clears>>

(* The await of drainCollectQueueStep comes back: the batch is what is      *)
(* queued now.                                                              *)
SliceBatch(q, o) ==
  IF q.items = <<>> /\ ~q.lastRun THEN Become(Finally(obj, o))
  ELSE Become([obj |-> [obj EXCEPT ![o].drain = RunBatch(q.items, SummaryDue(q))],
               current |-> current])

(* An await comes back and the loop goes on from there. *)
StepReturns(o) ==
  LET q == obj[o] IN
  /\ q.drain.kind = "returning"
  /\ \/ q.drain.next = "collect" /\ SliceBatch(q, o)
     \/ q.drain.next = "loop" /\ NextIteration(q, o, q.drain.force)
     \/ q.drain.next = "clear" /\ NextIteration(ClearSummary(q), o, q.drain.force)
     \/ q.drain.next = "leave" /\ Become(Finally(obj, o))
  /\ UNCHANGED <<recent, mainActive, embedded, route, clears, owed>>

(* The followup run throws: the items stay and the drain is started anew. *)
RunFails(o) ==
  /\ Running(obj[o])
  /\ Become(Finally(obj, o))
  /\ UNCHANGED <<recent, mainActive, embedded, route, clears, owed>>

-----------------------------------------------------------------------------

DrainStep(o) == Iterate(o) \/ RunCompletes(o) \/ StepReturns(o)

Next ==
  \/ \E m \in Messages, s \in Settings, o \in Objects, restart \in BOOLEAN :
       Enqueue(m, s, o, restart)
  \/ \E m \in Messages : ForgetMessageId(m)
  \/ StartMain
  \/ EndMain
  \/ StartEmbedded
  \/ EndEmbedded
  \/ ClearFollowupQueue
  \/ \E o \in Objects : DrainStep(o) \/ RunFails(o)

Spec == Init /\ [][Next]_vars

(* Debounce timers fire, awaits come back, runs end, and a followup run     *)
(* that is tried again and again does not fail for ever.                    *)
Fairness ==
  /\ \A o \in Objects :
       WF_vars(Iterate(o)) /\ WF_vars(StepReturns(o)) /\ SF_vars(RunCompletes(o))
  /\ WF_vars(EndMain)

FairSpec == Spec /\ Fairness

-----------------------------------------------------------------------------

(* Messages some drain, or a drain still to be scheduled, can reach. *)
Reachable ==
  UNION {Range(obj[o].items) : o \in {x \in Objects : x = current \/ draining(obj[x])}}

(* A message that was accepted is queued, was given to a completed run, or  *)
(* was dropped by the overflow policy or a clear; it never disappears.      *)
NoSilentLoss == owed \subseteq Reachable

(* A message id is queued at most once, whatever is redelivered, also after *)
(* the dedupe cache forgot it and while its run is retried.                 *)
NoDuplicateQueued ==
  \A o \in Objects : \A i, j \in DOMAIN obj[o].items :
    obj[o].items[i] = obj[o].items[j] => i = j

(* Queues have their types and hold a message id at most once. *)
QueuesWellFormed == TypeOK /\ NoDuplicateQueued

(* The prompts of the run under way are still the first items. *)
InFlightKept(q) ==
  \A i \in DOMAIN q.drain.prompts :
    i \in DOMAIN q.items /\ q.items[i] = q.drain.prompts[i]

(* The run that ends takes out messages it was not given: it delivered the  *)
(* overflow summary in the turn of the head, or an overflow dropped its own *)
(* messages while it ran.                                                   *)
TakesOthers(o) ==
  RunCompletes(o) /\ (obj[o].drain.kind = "summary" \/ ~InFlightKept(obj[o]))

(* A drain whose object is no longer in the map ends: it deletes the map    *)
(* entry of the object that replaced it, or leaves its own messages behind. *)
StaleDrainEnds ==
  \E o \in Objects \ {current} : draining(obj[o]) /\ ~draining(obj'[o])

(* A message leaves the queue only because a run was given its prompt and   *)
(* completed, because the overflow policy dropped it, or because the queue  *)
(* was cleared: no other step of a drain, an enqueue or a change of mode,   *)
(* cap or policy takes one out.  The exceptions are the two ways in which   *)
(* the code does lose messages.                                             *)
RemovedOnlyIfHandled ==
  [][(Reachable \ Reachable') \cap owed' = {}
     \/ StaleDrainEnds \/ \E o \in Objects : TakesOthers(o)]_vars

(* "If messages target different channels/threads, they drain individually  *)
(* to preserve routing": a batch has one route.                             *)
BatchesShareRoute ==
  \A o \in Objects : obj[o].drain.kind = "batch" =>
    \A m, n \in Range(obj[o].drain.prompts) :
      route[m] = route[n] /\ route[m] # "cross"

(* A queue is never grown beyond its cap, also when the cap was lowered or  *)
(* the drop policy switched while messages were queued, and whatever the    *)
(* drain takes out meanwhile.                                               *)
CapRespected ==
  [][\A o \in Objects :
       Len(obj'[o].items) > Len(obj[o].items)
         => Len(obj'[o].items) <= obj'[o].cap]_vars

(* Somebody who will drain the queue: a reply run, whose end schedules a    *)
(* drain, or a drain.                                                       *)
Drained == mainActive \/ \E o \in Objects : draining(obj[o])

(* An embedded run keeps senders from starting a drain, so while it lasts   *)
(* it is the reason why a queue may wait without one.                       *)
Attended == current = NoObject \/ Drained \/ embedded

(* A queue in the map is left with no drain and no run that would start one *)
(* only by the end of an embedded run, which schedules nothing; never by a  *)
(* message whose sender saw a run that had ended, by a failing run, a clear *)
(* or a drain that ends while messages arrive.                              *)
LeftOnlyByEmbeddedRun == [][Attended => Attended' \/ EndEmbedded]_vars

(* A queued message does not stay for ever in a queue that is being drained *)
(* or will be when the reply run ends.                                      *)
EveryMessageHandled ==
  \A m \in Messages : (m \in Reachable /\ Drained) ~> m \notin Reachable

=============================================================================
