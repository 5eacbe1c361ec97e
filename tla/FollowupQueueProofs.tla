------------------------- MODULE FollowupQueueProofs ------------------------
(***************************************************************************)
(* Theorems about FollowupQueue, for every set of messages, queue objects,  *)
(* settings and routes and any number of clears.                            *)
(***************************************************************************)
EXTENDS FollowupQueue, FiniteSetTheorems, SequenceTheorems, TLAPS

-----------------------------------------------------------------------------
(* The inductive invariant *)

RunDrains ==
  [kind : {"head"}, force : BOOLEAN, prompts : {s \in Seq(Messages) : Len(s) = 1}]
    \cup [kind : {"summary"}, force : BOOLEAN, prompts : Seq(Messages)]
    \cup [kind : {"batch"}, force : {FALSE}, prompts : Seq(Messages), summary : BOOLEAN]
WaitDrains ==
  [kind : {"debounce"}, force : BOOLEAN]
    \cup [kind : {"returning"}, force : BOOLEAN, next : {"collect", "loop", "clear", "leave"}]
Drains == {Idle} \cup WaitDrains \cup RunDrains

Queues ==
  [items : Seq(Messages), mode : {"followup", "collect"}, cap : Nat \ {0},
   dropPolicy : {"summarize", "old", "new"}, droppedCount : Nat,
   lastRun : BOOLEAN, drain : Drains]

SettingsOf(q) == [mode |-> q.mode, cap |-> q.cap, dropPolicy |-> q.dropPolicy]

Distinct(s) == \A i, j \in DOMAIN s : s[i] = s[j] => i = j

(* A queue object by itself. *)
WellFormed(q) ==
  /\ q \in Queues
  /\ SettingsOf(q) \in Settings
  /\ Distinct(q.items)

ObjectsOK == obj \in [Objects -> Queues] /\ \A o \in Objects : WellFormed(obj[o])

RestOK ==
  /\ current \in Objects \cup {NoObject}
  /\ recent \subseteq Messages
  /\ mainActive \in BOOLEAN /\ embedded \in BOOLEAN
  /\ owed \subseteq Messages

IInv == ObjectsOK /\ RestOK

-----------------------------------------------------------------------------
(* Sequences *)

(* What is left of a sequence without its first n elements. *)
LEMMA SuffixProperties ==
  ASSUME NEW s \in Seq(Messages), NEW n \in 0..Len(s)
  PROVE  LET t == SubSeq(s, n + 1, Len(s)) IN
         /\ t \in Seq(Messages) /\ Len(t) = Len(s) - n
         /\ \A i \in DOMAIN t : n + i \in DOMAIN s /\ t[i] = s[n + i]
         /\ Range(t) \subseteq Range(s)
         /\ Distinct(s) => Distinct(t)
<1> DEFINE t == SubSeq(s, n + 1, Len(s))
<1>1. Len(s) \in Nat /\ DOMAIN s = 1..Len(s) /\ n \in Nat
  OBVIOUS
<1>2. /\ t \in Seq(Messages) /\ Len(t) = Len(s) - n
      /\ \A i \in 1..Len(s) - n : t[i] = s[n + i]
  BY <1>1
<1>3. DOMAIN t = 1..Len(s) - n
  BY <1>2
<1> HIDE DEF t
<1>4. \A i \in DOMAIN t : n + i \in DOMAIN s /\ t[i] = s[n + i] /\ i \in Nat
  BY <1>1, <1>2, <1>3
<1>5. Range(t) \subseteq Range(s)
  BY <1>4 DEF Range
<1>6. ASSUME Distinct(s) PROVE Distinct(t)
  <2> SUFFICES ASSUME NEW i \in DOMAIN t, NEW j \in DOMAIN t, t[i] = t[j] PROVE i = j
    BY DEF Distinct
  <2>1. n + i = n + j
    BY <1>4, <1>6 DEF Distinct
  <2> QED BY <1>1, <1>4, <2>1
<1> QED BY <1>2, <1>4, <1>5, <1>6 DEF t

(* items.shift and items.splice(0, n). *)
LEMMA DropFirstProperties ==
  ASSUME NEW s \in Seq(Messages), NEW n \in Nat
  PROVE  /\ DropFirst(s, n) \in Seq(Messages)
         /\ Len(DropFirst(s, n)) <= Len(s)
         /\ Distinct(s) => Distinct(DropFirst(s, n))
         /\ \A i \in DOMAIN s : i > n => s[i] \in Range(DropFirst(s, n))
<1>1. CASE Len(s) <= n
  BY <1>1 DEF DropFirst, Distinct
<1>2. CASE ~(Len(s) <= n)
  <2> DEFINE t == SubSeq(s, n + 1, Len(s))
  <2>1. n \in 0..Len(s) /\ DropFirst(s, n) = t
    BY <1>2 DEF DropFirst
  <2>2. /\ t \in Seq(Messages) /\ Len(t) = Len(s) - n
        /\ \A i \in DOMAIN t : n + i \in DOMAIN s /\ t[i] = s[n + i]
        /\ Distinct(s) => Distinct(t)
    BY <2>1, SuffixProperties
  <2>3. DOMAIN t = 1..Len(s) - n /\ DOMAIN s = 1..Len(s) /\ Len(s) \in Nat
    BY <2>2
  <2> HIDE DEF t
  <2>4. ASSUME NEW i \in DOMAIN s, i > n PROVE s[i] \in Range(t)
    <3>1. i - n \in DOMAIN t /\ t[i - n] = s[n + (i - n)] /\ n + (i - n) = i
      BY <2>2, <2>3, <2>4
    <3> QED BY <3>1 DEF Range
  <2> QED BY <2>1, <2>2, <2>3, <2>4
<1> QED BY <1>1, <1>2

(* A message pushed to a queue that does not hold it. *)
LEMMA PushedMessage ==
  ASSUME NEW s \in Seq(Messages), NEW m \in Messages
  PROVE  /\ Append(s, m) \in Seq(Messages) /\ Len(Append(s, m)) = Len(s) + 1
         /\ Range(Append(s, m)) = Range(s) \cup {m}
         /\ \A i \in DOMAIN s : i \in DOMAIN Append(s, m) /\ Append(s, m)[i] = s[i]
         /\ Distinct(s) /\ m \notin Range(s) => Distinct(Append(s, m))
<1> DEFINE t == Append(s, m)
<1>1. /\ Len(s) \in Nat /\ DOMAIN s = 1..Len(s) /\ DOMAIN t = 1..Len(s) + 1
      /\ t \in Seq(Messages) /\ Len(t) = Len(s) + 1
      /\ t[Len(s) + 1] = m /\ \A i \in 1..Len(s) : t[i] = s[i]
  OBVIOUS
<1> HIDE DEF t
<1>2. Range(t) = Range(s) \cup {m}
  BY <1>1 DEF Range
<1>3. ASSUME Distinct(s), m \notin Range(s) PROVE Distinct(t)
  <2>1. \A i \in DOMAIN s : s[i] # m
    BY <1>3 DEF Range
  <2> QED BY <1>1, <1>3, <2>1 DEF Distinct
<1>4. \A i \in DOMAIN s : i \in DOMAIN t /\ t[i] = s[i]
  BY <1>1
<1> QED BY <1>1, <1>2, <1>3, <1>4 DEF t

-----------------------------------------------------------------------------
(* Queue objects *)

(* The drains the code makes. *)
LEMMA DrainTypes ==
  /\ Idle \in Drains /\ Idle.kind = "idle"
  /\ \A f \in BOOLEAN : Debounce(f) \in Drains /\ Debounce(f).kind = "debounce"
  /\ \A f \in BOOLEAN, n \in {"collect", "loop", "clear", "leave"} :
       Returning(f, n) \in Drains /\ Returning(f, n).kind = "returning"
  /\ \A f \in BOOLEAN : RunSummary(f) \in Drains /\ RunSummary(f).kind = "summary"
  /\ \A ms \in Seq(Messages), s \in BOOLEAN :
       /\ RunBatch(ms, s) \in Drains /\ RunBatch(ms, s).kind = "batch"
       /\ RunBatch(ms, s).prompts = ms
  /\ \A f \in BOOLEAN, m \in Messages :
       /\ RunHead(f, m) \in Drains /\ RunHead(f, m).kind = "head"
       /\ RunHead(f, m).prompts = <<m>>
<1>1. Idle \in Drains /\ Idle.kind = "idle"
  BY DEF Drains, Idle
<1>2. \A f \in BOOLEAN : Debounce(f) \in Drains /\ Debounce(f).kind = "debounce"
  BY DEF Drains, WaitDrains, Debounce
<1>3. \A f \in BOOLEAN, n \in {"collect", "loop", "clear", "leave"} :
        Returning(f, n) \in Drains /\ Returning(f, n).kind = "returning"
  BY DEF Drains, WaitDrains, Returning
<1>4. \A f \in BOOLEAN : RunSummary(f) \in Drains /\ RunSummary(f).kind = "summary"
  <2>1. <<>> \in Seq(Messages)
    BY EmptySeq
  <2> QED BY <2>1 DEF Drains, RunDrains, RunSummary
<1>5. \A ms \in Seq(Messages), s \in BOOLEAN :
        /\ RunBatch(ms, s) \in Drains /\ RunBatch(ms, s).kind = "batch"
        /\ RunBatch(ms, s).prompts = ms
  BY DEF Drains, RunDrains, RunBatch
<1>6. \A f \in BOOLEAN, m \in Messages :
        /\ RunHead(f, m) \in Drains /\ RunHead(f, m).kind = "head"
        /\ RunHead(f, m).prompts = <<m>>
  <2>1. \A m \in Messages : <<m>> \in Seq(Messages) /\ Len(<<m>>) = 1
    OBVIOUS
  <2> QED BY <2>1 DEF Drains, RunDrains, RunHead
<1> QED BY <1>1, <1>2, <1>3, <1>4, <1>5, <1>6

(* What a drain's kind tells. *)
LEMMA DrainKinds ==
  ASSUME NEW d \in Drains
  PROVE  /\ d.kind \in {"debounce", "returning"} => d.force \in BOOLEAN
         /\ d.kind \in {"head", "summary", "batch"} =>
              d \in RunDrains /\ d.force \in BOOLEAN /\ d.prompts \in Seq(Messages)
         /\ d.kind = "head" => Len(d.prompts) = 1
         /\ d.kind \in {"idle", "debounce", "returning", "head", "summary", "batch"}
         /\ d # Idle <=> d.kind # "idle"
<1>1. d \in RunDrains => /\ d.kind \in {"head", "summary", "batch"}
                         /\ d.force \in BOOLEAN /\ d.prompts \in Seq(Messages)
                         /\ d.kind = "head" => Len(d.prompts) = 1
  BY DEF RunDrains
<1>2. d = Idle \/ d \in WaitDrains \/ d \in RunDrains
  BY DEF Drains
<1>3. d = Idle => d.kind = "idle"
  BY DrainTypes
<1>4. d \in WaitDrains => d.kind \in {"debounce", "returning"} /\ d.force \in BOOLEAN
  BY DEF WaitDrains
<1> QED BY <1>1, <1>2, <1>3, <1>4

(* Two queue objects that differ in nothing but their drains and lastRun. *)
SameQueue(p, q) ==
  /\ p.items = q.items /\ p.cap = q.cap /\ p.dropPolicy = q.dropPolicy
  /\ p.droppedCount = q.droppedCount

(* A queue object whose drain moves on. *)
LEMMA DrainChanged ==
  ASSUME NEW q, WellFormed(q), NEW d \in Drains
  PROVE  LET p == [q EXCEPT !.drain = d] IN
         WellFormed(p) /\ SameQueue(p, q) /\ p.drain = d
BY DEF WellFormed, Queues, SettingsOf, SameQueue

(* A queue object as getFollowupQueue creates it. *)
LEMMA FreshProperties ==
  ASSUME NEW s \in Settings
  PROVE  /\ WellFormed(Fresh(s)) /\ Fresh(s).items = <<>> /\ Fresh(s).drain = Idle
         /\ Fresh(s).droppedCount = 0 /\ Fresh(s).dropPolicy = s.dropPolicy
<1>1. s \in [mode : {"followup", "collect"}, cap : Nat \ {0},
             dropPolicy : {"summarize", "old", "new"}]
  BY SettingsAssumption
<1>2. Fresh(s) \in Queues
  BY <1>1, DrainTypes DEF Fresh, Queues
<1>3. SettingsOf(Fresh(s)) = s
  BY <1>1 DEF Fresh, SettingsOf
<1> QED BY <1>2, <1>3 DEF Fresh, WellFormed, Distinct

(* A queue object the settings of an enqueue are applied to. *)
LEMMA SettingsApplied ==
  ASSUME NEW q, WellFormed(q), NEW s \in Settings
  PROVE  LET p == [q EXCEPT !.mode = s.mode, !.cap = s.cap, !.dropPolicy = s.dropPolicy] IN
         /\ WellFormed(p) /\ p.items = q.items /\ p.drain = q.drain
         /\ p.droppedCount = q.droppedCount /\ p.dropPolicy = s.dropPolicy
<1> DEFINE p == [q EXCEPT !.mode = s.mode, !.cap = s.cap, !.dropPolicy = s.dropPolicy]
<1>1. s \in [mode : {"followup", "collect"}, cap : Nat \ {0},
             dropPolicy : {"summarize", "old", "new"}]
  BY SettingsAssumption
<1>2. /\ p \in Queues /\ p.mode = s.mode /\ p.cap = s.cap /\ p.dropPolicy = s.dropPolicy
      /\ p.items = q.items /\ p.drain = q.drain /\ p.droppedCount = q.droppedCount
  BY <1>1 DEF WellFormed, Queues
<1> HIDE DEF p
<1>3. SettingsOf(p) = s
  BY <1>1, <1>2 DEF SettingsOf
<1>4. WellFormed(p)
  BY <1>2, <1>3 DEF WellFormed
<1> QED BY <1>2, <1>4 DEF p

(* getFollowupQueue *)
LEMMA GetProperties ==
  ASSUME ObjectsOK, NEW o \in Objects, NEW s \in Settings
  PROVE  LET q == GetFollowupQueue(o, s) IN
         /\ WellFormed(q) /\ q.dropPolicy = s.dropPolicy
         /\ current = NoObject => q.items = <<>> /\ q.drain = Idle /\ q.droppedCount = 0
         /\ current # NoObject => /\ q.items = obj[o].items /\ q.drain = obj[o].drain
                                  /\ q.droppedCount = obj[o].droppedCount
<1>1. CASE current = NoObject
  BY <1>1, FreshProperties DEF GetFollowupQueue
<1>2. CASE current # NoObject
  <2>1. WellFormed(obj[o])
    BY DEF ObjectsOK
  <2> QED BY <1>2, <2>1, SettingsApplied DEF GetFollowupQueue
<1> QED BY <1>1, <1>2

(* applyQueueDropPolicy makes room for one message. *)
LEMMA DropOldProperties ==
  ASSUME NEW q, WellFormed(q)
  PROVE  /\ WellFormed(DropOld(q))
         /\ Range(DropOld(q).items) \subseteq Range(q.items)
         /\ Len(DropOld(q).items) < DropOld(q).cap
         /\ DropOld(q).drain = q.drain /\ DropOld(q).dropPolicy = q.dropPolicy
         /\ Len(q.items) < q.cap => DropOld(q) = q
<1>1. /\ q \in Queues /\ q.items \in Seq(Messages) /\ Len(q.items) \in Nat
      /\ q.cap \in Nat \ {0} /\ q.droppedCount \in Nat
  BY DEF WellFormed, Queues
<1>2. CASE Len(q.items) < q.cap
  BY <1>1, <1>2 DEF DropOld
<1>3. CASE ~(Len(q.items) < q.cap)
  <2> DEFINE n == DropCount(q)
             kept == SubSeq(q.items, n + 1, Len(q.items))
  <2>1. n \in 0..Len(q.items) /\ n \in Nat /\ Len(q.items) - n < q.cap
    BY <1>1, <1>3 DEF DropCount
  <2> HIDE DEF n
  <2>2. /\ kept \in Seq(Messages) /\ Len(kept) = Len(q.items) - n
        /\ Range(kept) \subseteq Range(q.items) /\ Distinct(kept)
    BY <1>1, <2>1, SuffixProperties DEF WellFormed
  <2> HIDE DEF kept
  <2>3. DropOld(q) = IF q.dropPolicy = "summarize"
                     THEN [q EXCEPT !.items = kept, !.droppedCount = q.droppedCount + n]
                     ELSE [q EXCEPT !.items = kept]
    BY <1>1, <1>3 DEF DropOld, kept, n, Queues
  <2>4. q.droppedCount + n \in Nat
    BY <1>1, <2>1
  <2>5. CASE q.dropPolicy = "summarize"
    BY <1>1, <1>3, <2>1, <2>2, <2>3, <2>4, <2>5 DEF WellFormed, Queues, SettingsOf
  <2>6. CASE q.dropPolicy # "summarize"
    BY <1>1, <1>3, <2>1, <2>2, <2>3, <2>6 DEF WellFormed, Queues, SettingsOf
  <2> QED BY <2>5, <2>6
<1> QED BY <1>2, <1>3

(* The push of enqueueFollowupRun. *)
Pushed(q, m) == [DropOld(q) EXCEPT !.items = Append(@, m), !.lastRun = TRUE]

LEMMA PushedProperties ==
  ASSUME NEW q, WellFormed(q), NEW m \in Messages, m \notin Range(q.items)
  PROVE  /\ WellFormed(Pushed(q, m))
         /\ Len(Pushed(q, m).items) <= Pushed(q, m).cap
         /\ Pushed(q, m).drain = q.drain /\ Pushed(q, m).dropPolicy = q.dropPolicy
         /\ Range(Pushed(q, m).items) = Range(DropOld(q).items) \cup {m}
         /\ Len(q.items) < q.cap =>
              Pushed(q, m).items = Append(q.items, m) /\ Pushed(q, m).droppedCount = q.droppedCount
<1> DEFINE d == DropOld(q)
<1>1. /\ WellFormed(d) /\ Range(d.items) \subseteq Range(q.items) /\ Len(d.items) < d.cap
      /\ d.drain = q.drain /\ d.dropPolicy = q.dropPolicy
      /\ Len(q.items) < q.cap => d = q
  BY DropOldProperties
<1> HIDE DEF d
<1>2. /\ d \in Queues /\ d.items \in Seq(Messages) /\ Distinct(d.items) /\ m \notin Range(d.items)
      /\ Len(d.items) \in Nat /\ d.cap \in Nat
  BY <1>1 DEF WellFormed, Queues
<1>3. /\ Append(d.items, m) \in Seq(Messages) /\ Len(Append(d.items, m)) = Len(d.items) + 1
      /\ Range(Append(d.items, m)) = Range(d.items) \cup {m} /\ Distinct(Append(d.items, m))
  <2>1. \A s \in Seq(Messages) :
          /\ Append(s, m) \in Seq(Messages) /\ Len(Append(s, m)) = Len(s) + 1
          /\ Range(Append(s, m)) = Range(s) \cup {m}
          /\ Distinct(s) /\ m \notin Range(s) => Distinct(Append(s, m))
    BY PushedMessage
  <2> QED BY <1>2, <2>1
<1>4. /\ Pushed(q, m) = [d EXCEPT !.items = Append(d.items, m), !.lastRun = TRUE]
  BY <1>2 DEF Pushed, d, Queues
<1>5. /\ Pushed(q, m) \in Queues /\ Pushed(q, m).items = Append(d.items, m)
      /\ Pushed(q, m).cap = d.cap /\ Pushed(q, m).drain = d.drain
      /\ Pushed(q, m).dropPolicy = d.dropPolicy /\ Pushed(q, m).mode = d.mode
      /\ Pushed(q, m).droppedCount = d.droppedCount
  BY <1>2, <1>3, <1>4 DEF Queues
<1>6. WellFormed(Pushed(q, m))
  BY <1>1, <1>3, <1>5 DEF WellFormed, SettingsOf
<1> QED BY <1>1, <1>2, <1>3, <1>5, <1>6 DEF d

(* A queue object whose summary was delivered. *)
LEMMA SummaryCleared ==
  ASSUME NEW q, WellFormed(q)
  PROVE  /\ WellFormed(ClearSummary(q)) /\ ClearSummary(q).items = q.items
         /\ ClearSummary(q).drain = q.drain /\ ClearSummary(q).droppedCount = 0
         /\ ClearSummary(q).dropPolicy = q.dropPolicy
BY DEF WellFormed, Queues, SettingsOf, ClearSummary

(* What a completed run leaves in the queue. *)
LEMMA ConsumeProperties ==
  ASSUME NEW q, WellFormed(q), Running(q)
  PROVE  /\ WellFormed(Consume(q)) /\ Consume(q).drain = q.drain
         /\ Len(Consume(q).items) <= Len(q.items)
         /\ Consume(q).dropPolicy = q.dropPolicy
         /\ Consume(q).droppedCount \in {0, q.droppedCount}
         /\ Consume(q).items =
              DropFirst(q.items, IF q.drain.kind = "batch" THEN Len(q.drain.prompts) ELSE 1)
         /\ q.drain.prompts \in Seq(Messages) /\ q.drain.force \in BOOLEAN
<1> DEFINE n == IF q.drain.kind = "batch" THEN Len(q.drain.prompts) ELSE 1
           rest == [q EXCEPT !.items = DropFirst(q.items, n)]
<1>1. q \in Queues /\ q.items \in Seq(Messages) /\ q.drain \in RunDrains
  <2>1. q \in Queues /\ q.items \in Seq(Messages) /\ q.drain \in Drains
    BY DEF WellFormed, Queues
  <2> QED BY <2>1, DrainKinds DEF Running
<1>2. q.drain.prompts \in Seq(Messages) /\ q.drain.force \in BOOLEAN /\ n \in Nat
  <2>1. q.drain.prompts \in Seq(Messages) /\ q.drain.force \in BOOLEAN
    BY <1>1 DEF RunDrains
  <2> QED BY <2>1
<1> HIDE DEF n
<1>3. /\ DropFirst(q.items, n) \in Seq(Messages) /\ Len(DropFirst(q.items, n)) <= Len(q.items)
      /\ Distinct(DropFirst(q.items, n))
  BY <1>1, <1>2, DropFirstProperties DEF WellFormed
<1>4. /\ WellFormed(rest) /\ rest.items = DropFirst(q.items, n) /\ rest.drain = q.drain
      /\ rest.dropPolicy = q.dropPolicy /\ rest.droppedCount = q.droppedCount
  BY <1>1, <1>3 DEF WellFormed, Queues, SettingsOf
<1> HIDE DEF rest
<1>5. Consume(q) = rest \/ Consume(q) = ClearSummary(rest)
  BY <1>1 DEF Consume, rest, n, Queues
<1>6. CASE Consume(q) = rest
  BY <1>2, <1>3, <1>4, <1>6 DEF n
<1>7. CASE Consume(q) = ClearSummary(rest)
  <2>1. /\ WellFormed(Consume(q)) /\ Consume(q).items = rest.items
        /\ Consume(q).drain = rest.drain /\ Consume(q).droppedCount = 0
        /\ Consume(q).dropPolicy = rest.dropPolicy
    BY <1>4, <1>7, SummaryCleared
  <2> QED BY <1>2, <1>3, <1>4, <2>1 DEF n
<1> QED BY <1>5, <1>6, <1>7

-----------------------------------------------------------------------------
(* Starting and ending drains *)

(* A step rearranges queue objects: it moves their drains, but starts no    *)
(* run.                                                                     *)
Rearranged(objects, after) ==
  /\ after \in [Objects -> Queues]
  /\ \A x \in Objects :
       /\ WellFormed(after[x]) /\ SameQueue(after[x], objects[x])
       /\ \/ after[x].drain = objects[x].drain
          \/ after[x].drain.kind \in {"idle", "debounce"}

WellFormedAll(objects) ==
  objects \in [Objects -> Queues] /\ \A x \in Objects : WellFormed(objects[x])

(* One object is replaced. *)
Replaced(objects, after, o, q) ==
  /\ after \in [Objects -> Queues] /\ after[o] = q
  /\ \A x \in Objects \ {o} : after[x] = objects[x]

LEMMA ReplaceOne ==
  ASSUME NEW objects, WellFormedAll(objects), NEW o \in Objects, NEW q, WellFormed(q)
  PROVE  /\ Replaced(objects, [objects EXCEPT ![o] = q], o, q)
         /\ WellFormedAll([objects EXCEPT ![o] = q])
BY DEF WellFormedAll, WellFormed, Replaced

LEMMA ReplaceDrain ==
  ASSUME NEW objects, WellFormedAll(objects), NEW o \in Objects, NEW d \in Drains
  PROVE  Replaced(objects, [objects EXCEPT ![o].drain = d], o, [objects[o] EXCEPT !.drain = d])
BY DEF WellFormedAll, WellFormed, Replaced, Queues

(* One object's drain moves on. *)
LEMMA RedrainOne ==
  ASSUME NEW objects, WellFormedAll(objects), NEW o \in Objects, NEW d \in Drains, NEW after,
         Replaced(objects, after, o, [objects[o] EXCEPT !.drain = d])
  PROVE  /\ WellFormedAll(after) /\ after[o].drain = d /\ SameQueue(after[o], objects[o])
         /\ d.kind \in {"idle", "debounce"} => Rearranged(objects, after)
<1> DEFINE q == [objects[o] EXCEPT !.drain = d]
<1>1. WellFormed(q) /\ SameQueue(q, objects[o]) /\ q.drain = d
  BY DrainChanged DEF WellFormedAll
<1>2. Replaced(objects, after, o, q)
  OBVIOUS
<1> HIDE DEF q
<1>3. WellFormedAll(after) /\ after[o] = q
  BY <1>1, <1>2 DEF Replaced, WellFormedAll
<1>4. d.kind \in {"idle", "debounce"} => Rearranged(objects, after)
  BY <1>1, <1>2, <1>3 DEF Rearranged, Replaced, WellFormedAll, SameQueue
<1> QED BY <1>1, <1>3, <1>4

(* scheduleFollowupDrain *)
LEMMA ScheduleProperties ==
  ASSUME NEW objects, WellFormedAll(objects), NEW cur \in Objects \cup {NoObject}
  PROVE  LET s == Schedule(objects, cur) IN
         /\ Rearranged(objects, s.obj)
         /\ s.current \in {cur, NoObject}
         /\ s.current # cur => Exhausted(objects[cur]) /\ ~draining(objects[cur])
         /\ \A x \in Objects : x # cur => s.obj[x] = objects[x]
         /\ s.current # cur => s.obj = objects
<1>1. CASE cur = NoObject \/ draining(objects[cur])
  BY <1>1 DEF Schedule, Rearranged, WellFormedAll, SameQueue
<1>2. CASE ~(cur = NoObject \/ draining(objects[cur])) /\ Exhausted(objects[cur])
  BY <1>2 DEF Schedule, Rearranged, WellFormedAll, SameQueue
<1>3. CASE ~(cur = NoObject \/ draining(objects[cur])) /\ ~Exhausted(objects[cur])
  <2>1. PICK d \in Drains : d = Debounce(FALSE) /\ d.kind = "debounce"
    BY DrainTypes
  <2>2. PICK after : after = [objects EXCEPT ![cur].drain = d]
    OBVIOUS
  <2>3. cur \in Objects
    BY <1>3
  <2>4. Replaced(objects, after, cur, [objects[cur] EXCEPT !.drain = d])
    BY <2>2, <2>3, ReplaceDrain
  <2>5. Rearranged(objects, after)
    BY <2>1, <2>3, <2>4, RedrainOne
  <2>6. Schedule(objects, cur) = [obj |-> after, current |-> cur]
    BY <1>3, <2>1, <2>2 DEF Schedule
  <2> QED BY <2>4, <2>5, <2>6 DEF Replaced
<1> QED BY <1>1, <1>2, <1>3

LEMMA RearrangedTwice ==
  ASSUME NEW p, NEW q, NEW r, Rearranged(p, q), Rearranged(q, r) PROVE Rearranged(p, r)
BY DEF Rearranged, SameQueue

LEMMA RearrangedWellFormed ==
  ASSUME NEW p, NEW q, Rearranged(p, q) PROVE WellFormedAll(q)
BY DEF Rearranged, WellFormedAll

(* The drain's finally. *)
LEMMA FinallyProperties ==
  ASSUME NEW objects, WellFormedAll(objects), NEW o \in Objects,
         current \in Objects \cup {NoObject}
  PROVE  LET s == Finally(objects, o) IN
         /\ Rearranged(objects, s.obj)
         /\ s.current \in {current, NoObject}
         /\ s.obj[o].drain.kind \in {"idle", "debounce"}
         /\ \A x \in Objects : x # o /\ x # current => s.obj[x] = objects[x]
         /\ o = current /\ s.current # current =>
              Exhausted(objects[o]) /\ ~draining(s.obj[o])
<1>0. PICK idled : idled = [objects EXCEPT ![o].drain = Idle]
  OBVIOUS
<1>1. /\ Rearranged(objects, idled) /\ idled[o].drain = Idle /\ SameQueue(idled[o], objects[o])
      /\ \A x \in Objects \ {o} : idled[x] = objects[x]
  <2>1. Replaced(objects, idled, o, [objects[o] EXCEPT !.drain = Idle]) /\ Idle \in Drains
    BY <1>0, DrainTypes, ReplaceDrain
  <2> QED BY <2>1, DrainTypes, RedrainOne DEF Replaced
<1>2. /\ Finally(objects, o) = IF Exhausted(idled[o]) THEN [obj |-> idled, current |-> NoObject]
                               ELSE Schedule(idled, current)
  BY <1>0 DEF Finally
<1>3. Exhausted(idled[o]) <=> Exhausted(objects[o])
  BY <1>1 DEF Exhausted, SameQueue
<1>4. CASE Exhausted(idled[o])
  BY <1>1, <1>2, <1>3, <1>4, DrainTypes DEF draining
<1>5. CASE ~Exhausted(idled[o])
  <2> DEFINE s == Schedule(idled, current)
  <2>1. /\ Rearranged(idled, s.obj) /\ s.current \in {current, NoObject}
        /\ s.current # current => Exhausted(idled[current]) /\ ~draining(idled[current])
        /\ \A x \in Objects : x # current => s.obj[x] = idled[x]
    BY <1>1, RearrangedWellFormed, ScheduleProperties
  <2> HIDE DEF s
  <2>2. Rearranged(objects, s.obj)
    BY <1>1, <2>1, RearrangedTwice
  <2>3. s.obj[o].drain.kind \in {"idle", "debounce"}
    BY <1>1, <2>1, DrainTypes DEF Rearranged
  <2>4. Finally(objects, o) = s
    BY <1>2, <1>5 DEF s
  <2> QED BY <1>1, <1>5, <2>1, <2>2, <2>3, <2>4
<1> QED BY <1>4, <1>5

-----------------------------------------------------------------------------
(* The steps of a drain *)

(* What a run is given when it starts: the head of the queue or all of it,  *)
(* or the summary that is due.                                              *)
Given(q, d) ==
  /\ d.kind \in {"head", "batch"} =>
       \A i \in DOMAIN d.prompts : i \in DOMAIN q.items /\ q.items[i] = d.prompts[i]
  /\ d.kind = "summary" => SummaryDue(q)

LEMMA BatchGiven ==
  ASSUME NEW q, WellFormed(q)
  PROVE  LET d == RunBatch(q.items, SummaryDue(q)) IN
         d \in Drains /\ d.kind # "idle" /\ Given(q, d)
<1>1. q.items \in Seq(Messages) /\ SummaryDue(q) \in BOOLEAN
  BY DEF WellFormed, Queues, SummaryDue
<1> QED BY <1>1, DrainTypes DEF Given

LEMMA NextRunProperties ==
  ASSUME NEW q, WellFormed(q), NEW force \in BOOLEAN
  PROVE  NextRun(q, force) \in Drains /\ Given(q, NextRun(q, force))
<1>1. q.items \in Seq(Messages)
  BY DEF WellFormed, Queues
<1>2. \/ NextRun(q, force) = Idle
      \/ \E f \in BOOLEAN, n \in {"collect", "leave"} : NextRun(q, force) = Returning(f, n)
      \/ SummaryDue(q) /\ NextRun(q, force) = RunSummary(force)
      \/ q.items # <<>> /\ \E f \in BOOLEAN : NextRun(q, force) = RunHead(f, Head(q.items))
  BY DEF NextRun
<1>3. CASE NextRun(q, force) = Idle
  BY <1>3, DrainTypes DEF Given
<1>4. CASE \E f \in BOOLEAN, n \in {"collect", "leave"} : NextRun(q, force) = Returning(f, n)
  BY <1>4, DrainTypes DEF Given
<1>5. CASE SummaryDue(q) /\ NextRun(q, force) = RunSummary(force)
  BY <1>5, DrainTypes DEF Given
<1>6. CASE q.items # <<>> /\ \E f \in BOOLEAN : NextRun(q, force) = RunHead(f, Head(q.items))
  <2>1. /\ Head(q.items) \in Messages /\ Head(q.items) = q.items[1]
        /\ 1 \in DOMAIN q.items
    BY <1>1, <1>6
  <2>2. PICK d \in Drains : /\ NextRun(q, force) = d /\ d.kind = "head"
                            /\ d.prompts = <<Head(q.items)>>
    BY <1>6, <2>1, DrainTypes
  <2>3. DOMAIN d.prompts = {1} /\ d.prompts[1] = Head(q.items)
    BY <2>2
  <2> QED BY <2>1, <2>2, <2>3 DEF Given
<1> QED BY <1>2, <1>3, <1>4, <1>5, <1>6

(* A step of the drain of o leaves the queue q, and the drain ends or goes  *)
(* on with d.                                                               *)
Ends(o, q) == Become(Finally([obj EXCEPT ![o] = q], o))
GoesOn(o, q, d) ==
  /\ d.kind # "idle" /\ Given(q, d)
  /\ obj' = [obj EXCEPT ![o] = [q EXCEPT !.drain = d]] /\ current' = current

(* q is what the step leaves of the queue: all messages, or what the        *)
(* completed run leaves.                                                    *)
Leaves(o, q) ==
  /\ WellFormed(q) /\ q.drain = obj[o].drain /\ q.dropPolicy = obj[o].dropPolicy
  /\ q.droppedCount \in {0, obj[o].droppedCount}
  /\ \/ q.items = obj[o].items /\ owed' = owed
     \/ RunCompletes(o) /\ q.items = Consume(obj[o]).items

DrainsTo(o, q) ==
  /\ draining(obj[o]) /\ Leaves(o, q)
  /\ UNCHANGED <<recent, mainActive, embedded, route, clears>>
  /\ Ends(o, q) \/ \E d \in Drains : GoesOn(o, q, d)

(* The invariant in terms of the objects. *)
LEMMA InvObjects ==
  ASSUME IInv
  PROVE  /\ WellFormedAll(obj) /\ RestOK
         /\ \A o \in Objects : /\ obj[o] \in Queues /\ obj[o].items \in Seq(Messages)
                               /\ Len(obj[o].items) \in Nat /\ obj[o].cap \in Nat \ {0}
                               /\ obj[o].drain \in Drains /\ WellFormed(obj[o])
<1>1. \A o \in Objects : obj[o] \in Queues
  BY DEF IInv, ObjectsOK
<1> QED BY <1>1 DEF IInv, ObjectsOK, WellFormedAll, Queues

LEMMA SelfReplaced ==
  ASSUME WellFormedAll(obj), NEW o \in Objects
  PROVE  /\ obj = [obj EXCEPT ![o] = obj[o]]
         /\ \A d : [obj EXCEPT ![o].drain = d] = [obj EXCEPT ![o] = [obj[o] EXCEPT !.drain = d]]
BY DEF WellFormedAll

(* The while condition. *)
LEMMA NextIterationForms ==
  ASSUME NEW o \in Objects, NEW q, NEW force \in BOOLEAN, NextIteration(q, o, force)
  PROVE  Ends(o, q) \/ \E d \in Drains : GoesOn(o, q, d)
<1>1. CASE Exhausted(q)
  BY <1>1 DEF NextIteration, Ends
<1>2. CASE ~Exhausted(q)
  <2>1. Debounce(force) \in Drains /\ Debounce(force).kind = "debounce"
    BY DrainTypes
  <2>2. GoesOn(o, q, Debounce(force))
    BY <1>2, <2>1 DEF NextIteration, GoesOn, Given, Become
  <2> QED BY <2>1, <2>2
<1> QED BY <1>1, <1>2

LEMMA IterateForms ==
  ASSUME IInv, NEW o \in Objects, Iterate(o) PROVE DrainsTo(o, obj[o])
<1> USE InvObjects
<1>1. obj[o].drain.kind = "debounce"
  BY DEF Iterate
<1>2. obj[o].drain.force \in BOOLEAN /\ draining(obj[o])
  BY <1>1, DrainKinds DEF draining
<1>3. PICK run \in Drains : run = NextRun(obj[o], obj[o].drain.force) /\ Given(obj[o], run)
  BY <1>2, NextRunProperties
<1>4. CASE run = Idle
  <2>1. Ends(o, obj[o])
    BY <1>3, <1>4, SelfReplaced DEF Iterate, Ends
  <2> QED BY <1>2, <2>1 DEF DrainsTo, Leaves, Iterate
<1>5. CASE run # Idle
  <2>1. obj' = [obj EXCEPT ![o].drain = run] /\ current' = current
    BY <1>3, <1>5 DEF Iterate, Become
  <2>2. GoesOn(o, obj[o], run)
    BY <1>3, <1>5, <2>1, SelfReplaced, DrainKinds DEF GoesOn
  <2> QED BY <1>2, <2>2 DEF DrainsTo, Leaves, Iterate
<1> QED BY <1>4, <1>5

LEMMA RunFailsForms ==
  ASSUME IInv, NEW o \in Objects, RunFails(o) PROVE DrainsTo(o, obj[o])
<1> USE InvObjects
<1>1. draining(obj[o])
  BY DrainKinds DEF RunFails, Running, draining
<1>2. Ends(o, obj[o])
  BY SelfReplaced DEF RunFails, Ends
<1> QED BY <1>1, <1>2 DEF DrainsTo, Leaves, RunFails

LEMMA StepReturnsForms ==
  ASSUME IInv, NEW o \in Objects, StepReturns(o) PROVE \E q \in Queues : DrainsTo(o, q)
<1> USE InvObjects
<1> DEFINE q == obj[o]
<1>1. obj[o].drain.kind = "returning" /\ obj[o].drain.force \in BOOLEAN /\ draining(obj[o])
  BY DrainKinds DEF StepReturns, draining
<1>2. Leaves(o, obj[o]) /\ Leaves(o, ClearSummary(obj[o]))
  BY SummaryCleared DEF Leaves, StepReturns
<1>3. ClearSummary(obj[o]) \in Queues
  BY SummaryCleared DEF WellFormed
<1>4. UNCHANGED <<recent, mainActive, embedded, route, clears>>
  BY DEF StepReturns
<1>5. CASE SliceBatch(obj[o], o)
  <2>1. CASE obj[o].items = <<>> /\ ~obj[o].lastRun
    <3>1. Ends(o, obj[o])
      BY <1>5, <2>1, SelfReplaced DEF SliceBatch, Ends
    <3> QED BY <1>1, <1>2, <1>4, <3>1 DEF DrainsTo
  <2>2. CASE ~(obj[o].items = <<>> /\ ~obj[o].lastRun)
    <3>1. PICK d \in Drains : /\ d = RunBatch(obj[o].items, SummaryDue(obj[o]))
                              /\ d.kind # "idle" /\ Given(obj[o], d)
      BY BatchGiven
    <3>2. obj' = [obj EXCEPT ![o].drain = d] /\ current' = current
      BY <1>5, <2>2, <3>1 DEF SliceBatch, Become
    <3>3. GoesOn(o, obj[o], d)
      BY <3>1, <3>2, SelfReplaced DEF GoesOn
    <3> QED BY <1>1, <1>2, <1>4, <3>3 DEF DrainsTo
  <2> QED BY <2>1, <2>2
<1>6. CASE NextIteration(obj[o], o, obj[o].drain.force)
  BY <1>1, <1>2, <1>4, <1>6, NextIterationForms DEF DrainsTo
<1>7. CASE NextIteration(ClearSummary(obj[o]), o, obj[o].drain.force)
  BY <1>1, <1>2, <1>3, <1>4, <1>7, NextIterationForms DEF DrainsTo
<1>8. CASE Become(Finally(obj, o))
  <2>1. Ends(o, obj[o])
    BY <1>8, SelfReplaced DEF Ends
  <2> QED BY <1>1, <1>2, <1>4, <2>1 DEF DrainsTo
<1> QED BY <1>5, <1>6, <1>7, <1>8 DEF StepReturns

LEMMA RunCompletesForms ==
  ASSUME IInv, NEW o \in Objects, RunCompletes(o) PROVE \E q \in Queues : DrainsTo(o, q)
<1> USE InvObjects
<1>1. Running(obj[o])
  BY DEF RunCompletes
<1>2. PICK q : q = Consume(obj[o])
  OBVIOUS
<1>3. Leaves(o, q) /\ q \in Queues
  BY <1>1, <1>2, ConsumeProperties DEF Leaves, WellFormed
<1>4. draining(obj[o]) /\ obj[o].drain.force \in BOOLEAN
  BY <1>1, DrainKinds DEF Running, draining
<1>5. UNCHANGED <<recent, mainActive, embedded, route, clears>>
  BY DEF RunCompletes
<1>6. CASE obj[o].drain.kind = "batch"
  <2>1. NextIteration(q, o, FALSE)
    BY <1>2, <1>6 DEF RunCompletes
  <2> QED BY <1>3, <1>4, <1>5, <2>1, NextIterationForms DEF DrainsTo
<1>7. CASE obj[o].drain.kind # "batch"
  <2>1. PICK d \in Drains :
          /\ d = Returning(obj[o].drain.force,
                           IF obj[o].drain.kind = "summary" THEN "clear" ELSE "loop")
          /\ d.kind = "returning"
    BY <1>4, DrainTypes
  <2>2. obj' = [obj EXCEPT ![o] = [q EXCEPT !.drain = d]] /\ current' = current
    BY <1>2, <1>7, <2>1 DEF RunCompletes, Become
  <2>3. GoesOn(o, q, d)
    BY <2>1, <2>2 DEF GoesOn, Given
  <2> QED BY <1>3, <1>4, <1>5, <2>3 DEF DrainsTo
<1> QED BY <1>6, <1>7

LEMMA DrainForms ==
  ASSUME IInv, NEW o \in Objects, DrainStep(o) \/ RunFails(o)
  PROVE  \E q \in Queues : DrainsTo(o, q)
BY IterateForms, RunFailsForms, StepReturnsForms, RunCompletesForms, InvObjects DEF DrainStep

-----------------------------------------------------------------------------
(* The invariant is inductive, and no step grows a queue beyond its cap *)

CapStep ==
  \A o \in Objects :
    Len(obj'[o].items) > Len(obj[o].items) => Len(obj'[o].items) <= obj'[o].cap

(* A step that replaces an object or none, then starts or ends drains. *)
LEMMA RearrangedKeeps ==
  ASSUME IInv, NEW objects, WellFormedAll(objects), Rearranged(objects, obj'), RestOK',
         \A x \in Objects : \/ Len(objects[x].items) <= Len(obj[x].items)
                            \/ Len(objects[x].items) <= objects[x].cap
  PROVE  IInv' /\ CapStep
<1>1. ObjectsOK' /\ \A x \in Objects : SameQueue(obj'[x], objects[x])
  BY DEF Rearranged, ObjectsOK
<1>2. CapStep
  <2> SUFFICES ASSUME NEW o \in Objects, Len(obj'[o].items) > Len(obj[o].items)
               PROVE  Len(obj'[o].items) <= obj'[o].cap
    BY DEF CapStep
  <2>1. obj'[o].items = objects[o].items /\ obj'[o].cap = objects[o].cap
    BY <1>1 DEF SameQueue
  <2>2. Len(obj[o].items) \in Nat /\ Len(objects[o].items) \in Nat
    <3>1. objects[o].items \in Seq(Messages)
      BY DEF WellFormedAll, Queues
    <3> QED BY <3>1, InvObjects
  <2> QED BY <2>1, <2>2
<1> QED BY <1>1, <1>2 DEF IInv

(* A step that leaves the objects alone. *)
LEMMA ObjectsKept ==
  ASSUME IInv, RestOK', obj' = obj PROVE IInv' /\ CapStep
<1>1. Rearranged(obj, obj')
  BY InvObjects DEF Rearranged, WellFormedAll, SameQueue
<1>2. \A x \in Objects : Len(obj[x].items) <= Len(obj[x].items)
  BY InvObjects
<1> QED BY <1>1, <1>2, InvObjects, RearrangedKeeps

(* Runs that start, an embedded run that ends, ids that are forgotten. *)
Aside ==
  \/ StartMain \/ StartEmbedded \/ EndEmbedded
  \/ \E m \in Messages : ForgetMessageId(m)
  \/ UNCHANGED vars

LEMMA AsideKeeps == ASSUME IInv, Aside PROVE IInv' /\ CapStep
<1>1. RestOK' /\ obj' = obj
  BY DEF IInv, RestOK, Aside, StartMain, StartEmbedded, EndEmbedded, ForgetMessageId, vars
<1> QED BY <1>1, ObjectsKept

LEMMA EndMainKeeps == ASSUME IInv, EndMain PROVE IInv' /\ CapStep
<1> USE InvObjects
<1>1. current \in Objects \cup {NoObject}
  BY DEF RestOK
<1>2. Rearranged(obj, obj') /\ current' \in {current, NoObject}
  BY <1>1, ScheduleProperties DEF EndMain, Become
<1>3. RestOK'
  BY <1>2 DEF RestOK, EndMain
<1>4. \A x \in Objects : Len(obj[x].items) <= Len(obj[x].items)
  OBVIOUS
<1> QED BY <1>2, <1>3, <1>4, RearrangedKeeps

LEMMA ClearKeeps ==
  ASSUME IInv, ClearFollowupQueue
  PROVE  /\ IInv' /\ CapStep
         /\ \E q : /\ Replaced(obj, obj', current, q) /\ q.items = <<>> /\ q.droppedCount = 0
                   /\ q.drain = obj[current].drain /\ current \in Objects
<1> USE InvObjects
<1>1. PICK o \in Objects : o = current
  BY DEF ClearFollowupQueue, RestOK
<1>2. PICK e \in Seq(Messages) : e = <<>> /\ Len(e) = 0 /\ Distinct(e)
  <2>1. PICK e \in Seq(Messages) : e = <<>> /\ Len(e) = 0
    BY EmptySeq
  <2>2. DOMAIN e = {}
    BY <2>1
  <2> QED BY <2>1, <2>2 DEF Distinct
<1>3. PICK q : q = [obj[o] EXCEPT !.items = e, !.droppedCount = 0, !.lastRun = FALSE]
  OBVIOUS
<1>4. /\ q \in Queues /\ q.items = e /\ q.droppedCount = 0
      /\ q.mode = obj[o].mode /\ q.cap = obj[o].cap /\ q.dropPolicy = obj[o].dropPolicy
      /\ q.drain = obj[o].drain
  BY <1>3 DEF Queues
<1>5. WellFormed(q)
  BY <1>2, <1>4 DEF WellFormed, WellFormedAll, SettingsOf
<1>6. obj' = [obj EXCEPT ![o] = q]
  BY <1>1, <1>2, <1>3 DEF ClearFollowupQueue
<1>7. Replaced(obj, obj', o, q) /\ WellFormedAll(obj')
  BY <1>5, <1>6, ReplaceOne
<1>8. Rearranged(obj', obj')
  BY <1>7 DEF Rearranged, WellFormedAll, SameQueue
<1>9. RestOK'
  BY <1>1 DEF RestOK, ClearFollowupQueue
<1>10. \A x \in Objects : Len(obj'[x].items) <= Len(obj[x].items)
  BY <1>2, <1>4, <1>7 DEF Replaced
<1> QED BY <1>1, <1>2, <1>4, <1>7, <1>8, <1>9, <1>10, RearrangedKeeps

(* Where a drain step leaves the objects. *)
LEMMA DrainLeaves ==
  ASSUME IInv, NEW o \in Objects, NEW q, DrainsTo(o, q), NEW objects,
         objects = [obj EXCEPT ![o] = q]
  PROVE  /\ Replaced(obj, objects, o, q) /\ WellFormedAll(objects)
         /\ Len(q.items) <= Len(obj[o].items)
         /\ owed' \subseteq owed
         /\ current' \in {current, NoObject}
         /\ \/ /\ Rearranged(objects, obj') /\ Become(Finally(objects, o))
            \/ /\ current' = current
               /\ \A x \in Objects \ {o} : obj'[x] = obj[x]
               /\ \E d \in Drains : /\ d.kind # "idle" /\ Given(q, d)
                                    /\ obj'[o].drain = d /\ SameQueue(obj'[o], q)
               /\ WellFormedAll(obj')
<1> USE InvObjects
<1>1. WellFormed(q) /\ q.drain = obj[o].drain
  BY DEF DrainsTo, Leaves
<1>2. Replaced(obj, objects, o, q) /\ WellFormedAll(objects)
  BY <1>1, ReplaceOne
<1>3. Len(q.items) <= Len(obj[o].items) /\ owed' \subseteq owed
  <2>1. CASE q.items = obj[o].items /\ owed' = owed
    BY <2>1
  <2>2. CASE RunCompletes(o) /\ q.items = Consume(obj[o]).items
    BY <2>2, ConsumeProperties DEF RunCompletes
  <2> QED BY <2>1, <2>2 DEF DrainsTo, Leaves
<1>4. CASE Ends(o, q)
  <2>1. current \in Objects \cup {NoObject} /\ Become(Finally(objects, o))
    BY <1>4 DEF RestOK, Ends
  <2>2. Rearranged(objects, obj') /\ current' \in {current, NoObject}
    BY <1>2, <2>1, FinallyProperties DEF Become
  <2> QED BY <1>2, <1>3, <2>1, <2>2
<1>5. ASSUME NEW d \in Drains, GoesOn(o, q, d)
      PROVE  /\ current' = current /\ WellFormedAll(obj')
             /\ \A x \in Objects \ {o} : obj'[x] = obj[x]
             /\ d.kind # "idle" /\ Given(q, d) /\ obj'[o].drain = d /\ SameQueue(obj'[o], q)
  <2>1. PICK p : p = [q EXCEPT !.drain = d]
    OBVIOUS
  <2>2. WellFormed(p) /\ SameQueue(p, q) /\ p.drain = d
    BY <1>1, <2>1, DrainChanged
  <2>3. obj' = [obj EXCEPT ![o] = p]
    BY <1>5, <2>1 DEF GoesOn
  <2>4. Replaced(obj, obj', o, p) /\ WellFormedAll(obj')
    BY <2>2, <2>3, ReplaceOne
  <2> QED BY <1>5, <2>2, <2>4 DEF Replaced, GoesOn
<1> QED BY <1>2, <1>3, <1>4, <1>5 DEF DrainsTo

LEMMA DrainKeeps ==
  ASSUME IInv, NEW o \in Objects, DrainStep(o) \/ RunFails(o) PROVE IInv' /\ CapStep
<1> USE InvObjects
<1>1. PICK q \in Queues : DrainsTo(o, q)
  BY DrainForms
<1>2. PICK objects : objects = [obj EXCEPT ![o] = q]
  OBVIOUS
<1>3. /\ Replaced(obj, objects, o, q) /\ WellFormedAll(objects)
      /\ Len(q.items) <= Len(obj[o].items) /\ owed' \subseteq owed
      /\ current' \in {current, NoObject}
  BY <1>1, <1>2, DrainLeaves
<1>4. RestOK'
  BY <1>1, <1>3 DEF RestOK, DrainsTo
<1>5. \A x \in Objects : Len(objects[x].items) <= Len(obj[x].items)
  BY <1>3 DEF Replaced
<1>6. CASE Rearranged(objects, obj')
  BY <1>3, <1>4, <1>5, <1>6, RearrangedKeeps
<1>7. CASE /\ WellFormedAll(obj') /\ SameQueue(obj'[o], q)
           /\ \A x \in Objects \ {o} : obj'[x] = obj[x]
  <2>1. Rearranged(obj', obj')
    BY <1>7 DEF Rearranged, WellFormedAll, SameQueue
  <2>2. \A x \in Objects : Len(obj'[x].items) <= Len(obj[x].items)
    BY <1>3, <1>7 DEF SameQueue
  <2> QED BY <1>4, <1>7, <2>1, <2>2, RearrangedKeeps
<1> QED BY <1>1, <1>2, <1>6, <1>7, DrainLeaves

(* What follows the push. *)
LEMMA AfterEnqueueProperties ==
  ASSUME NEW objects, WellFormedAll(objects), NEW o \in Objects, NEW restart \in BOOLEAN
  PROVE  LET s == AfterEnqueue(objects, o, restart) IN
         /\ Rearranged(objects, s.obj) /\ s.current \in {o, NoObject}
         /\ \A x \in Objects : x # o => s.obj[x] = objects[x]
         /\ s.current # o => /\ Exhausted(objects[o]) /\ ~draining(objects[o])
                             /\ s.obj = objects
<1>1. Rearranged(objects, objects)
  BY DEF Rearranged, WellFormedAll, SameQueue
<1>2. CASE AfterEnqueue(objects, o, restart) = Schedule(objects, o)
  BY <1>2, ScheduleProperties
<1>3. CASE AfterEnqueue(objects, o, restart) = [obj |-> objects, current |-> o]
  BY <1>1, <1>3
<1> QED BY <1>2, <1>3 DEF AfterEnqueue

(* enqueueFollowupRun, having got the object q, puts p in the slot o: q as  *)
(* it was or only marked, or q with the message pushed to it.               *)
Puts(m, q, o, p, r) ==
  /\ WellFormed(p) /\ p.drain = q.drain /\ p.dropPolicy = q.dropPolicy
  /\ Become(AfterEnqueue([obj EXCEPT ![o] = p], o, r))
  /\ \/ /\ p.items = q.items /\ p.droppedCount = q.droppedCount
        /\ UNCHANGED <<recent, owed>>
     \/ /\ p = Pushed(q, m) /\ Len(p.items) <= p.cap
        /\ m \notin Range(q.items)
        /\ Len(q.items) >= q.cap => q.dropPolicy # "new"
        /\ recent' = recent \cup {m}
        /\ owed' = (owed \ (Range(q.items) \ Range(p.items))) \cup {m}

LEMMA EnqueueForms ==
  ASSUME IInv, NEW m \in Messages, NEW s \in Settings, NEW o \in Objects,
         NEW restart \in BOOLEAN, Enqueue(m, s, o, restart),
         NEW q, q = GetFollowupQueue(o, s)
  PROVE  \E p \in Queues, r \in BOOLEAN : Puts(m, q, o, p, r)
<1>1. q = GetFollowupQueue(o, s)
  OBVIOUS
<1>2. WellFormed(q) /\ q \in Queues
  BY <1>1, GetProperties DEF IInv, WellFormed
<1>3. CASE AlreadyQueued(m, q)
  <2>1. /\ Become(AfterEnqueue([obj EXCEPT ![o] = q], o, FALSE))
        /\ UNCHANGED <<recent, owed>>
    BY <1>1, <1>3 DEF Enqueue
  <2>2. Puts(m, q, o, q, FALSE)
    BY <1>2, <2>1 DEF Puts
  <2> QED BY <1>2, <2>2
<1>4. CASE ~AlreadyQueued(m, q) /\ Len(q.items) >= q.cap /\ q.dropPolicy = "new"
  <2>1. PICK p : p = [q EXCEPT !.lastRun = TRUE]
    OBVIOUS
  <2>2. /\ Become(AfterEnqueue([obj EXCEPT ![o] = p], o, FALSE))
        /\ UNCHANGED <<recent, owed>>
    BY <1>1, <1>4, <2>1 DEF Enqueue
  <2>3. /\ p \in Queues /\ p.items = q.items /\ p.drain = q.drain /\ p.mode = q.mode
        /\ p.cap = q.cap /\ p.dropPolicy = q.dropPolicy /\ p.droppedCount = q.droppedCount
    BY <1>2, <2>1 DEF Queues
  <2>4. WellFormed(p)
    BY <1>2, <2>3 DEF WellFormed, SettingsOf
  <2>5. Puts(m, q, o, p, FALSE)
    BY <2>2, <2>3, <2>4 DEF Puts
  <2> QED BY <2>3, <2>5
<1>5. CASE ~AlreadyQueued(m, q) /\ ~(Len(q.items) >= q.cap /\ q.dropPolicy = "new")
  <2>1. PICK p : p = Pushed(q, m)
    OBVIOUS
  <2>2. m \notin Range(q.items)
    BY <1>5 DEF AlreadyQueued
  <2>3. /\ WellFormed(p) /\ p \in Queues /\ Len(p.items) <= p.cap /\ p.drain = q.drain
        /\ p.dropPolicy = q.dropPolicy
    BY <1>2, <2>1, <2>2, PushedProperties DEF WellFormed
  <2>4. /\ Become(AfterEnqueue([obj EXCEPT ![o] = p], o, restart))
        /\ recent' = recent \cup {m}
        /\ owed' = (owed \ (Range(q.items) \ Range(p.items))) \cup {m}
    BY <1>1, <1>5, <2>1 DEF Enqueue, Pushed
  <2>5. Puts(m, q, o, p, restart)
    BY <1>5, <2>1, <2>2, <2>3, <2>4 DEF Puts
  <2> QED BY <2>3, <2>5
<1> QED BY <1>3, <1>4, <1>5

LEMMA EnqueueKeeps ==
  ASSUME IInv, NEW m \in Messages, NEW s \in Settings, NEW o \in Objects,
         NEW restart \in BOOLEAN, Enqueue(m, s, o, restart)
  PROVE  IInv' /\ CapStep
<1> USE InvObjects
<1>1. PICK q : q = GetFollowupQueue(o, s)
  OBVIOUS
<1>2. /\ WellFormed(q) /\ q.items \in Seq(Messages)
      /\ \/ q.items = <<>> /\ q.drain = Idle
         \/ q.items = obj[o].items /\ q.drain = obj[o].drain
  BY <1>1, GetProperties DEF IInv, WellFormed, Queues
<1>3. PICK p \in Queues, r \in BOOLEAN : Puts(m, q, o, p, r)
  BY <1>1, EnqueueForms
<1>3a. /\ WellFormed(p) /\ p.drain = q.drain
       /\ Become(AfterEnqueue([obj EXCEPT ![o] = p], o, r))
       /\ \/ p.items = q.items /\ UNCHANGED <<recent, owed>>
          \/ /\ Len(p.items) <= p.cap
             /\ recent' = recent \cup {m}
             /\ owed' = (owed \ (Range(q.items) \ Range(p.items))) \cup {m}
  BY <1>3 DEF Puts
<1>4. PICK objects : objects = [obj EXCEPT ![o] = p]
  OBVIOUS
<1>5. Replaced(obj, objects, o, p) /\ WellFormedAll(objects)
  BY <1>3a, <1>4, ReplaceOne
<1>7. Rearranged(objects, obj') /\ current' \in {o, NoObject}
  BY <1>3a, <1>4, <1>5, AfterEnqueueProperties DEF Become
<1>8. RestOK'
  <2>1. recent' \subseteq Messages /\ owed' \subseteq Messages
    BY <1>3a DEF RestOK
  <2> QED BY <1>7, <2>1 DEF RestOK, Enqueue
<1>9. \A x \in Objects : \/ Len(objects[x].items) <= Len(obj[x].items)
                         \/ Len(objects[x].items) <= objects[x].cap
  <2>1. q.items = <<>> => Len(q.items) = 0
    OBVIOUS
  <2>2. \/ Len(p.items) <= Len(obj[o].items) \/ Len(p.items) <= p.cap
    BY <1>2, <1>3a, <2>1
  <2> QED BY <1>5, <2>2 DEF Replaced
<1> QED BY <1>5, <1>7, <1>8, <1>9, RearrangedKeeps

LEMMA Step == ASSUME IInv, [Next]_vars PROVE IInv' /\ CapStep
BY EnqueueKeeps, AsideKeeps, EndMainKeeps, ClearKeeps, DrainKeeps DEF Next, Aside

LEMMA InitIInv == Init => IInv
<1> SUFFICES ASSUME Init PROVE IInv
  OBVIOUS
<1>1. PICK s \in Settings : obj = [o \in Objects |-> Fresh(s)]
  BY DEF Init
<1>2. WellFormed(Fresh(s)) /\ Fresh(s) \in Queues /\ Fresh(s).drain = Idle
  BY FreshProperties DEF WellFormed
<1>3. ObjectsOK
  BY <1>1, <1>2 DEF ObjectsOK
<1> QED BY <1>3 DEF IInv, Init, RestOK

LEMMA Invariant == Spec => []IInv
<1>1. IInv /\ [Next]_vars => IInv'
  BY Step
<1> QED BY <1>1, InitIInv, PTL DEF Spec

(* A message id is queued at most once and every queue has its types,       *)
(* whatever is redelivered, dropped, cleared or retried, for any number of  *)
(* messages, settings and clears.                                           *)
THEOREM QueuesStayWellFormed == Spec => []QueuesWellFormed
<1>1. IInv => QueuesWellFormed
  <2> SUFFICES ASSUME IInv PROVE QueuesWellFormed
    OBVIOUS
  <2>1. ASSUME NEW o \in Objects
        PROVE  /\ obj[o].items \in Seq(Messages)
               /\ SettingsOf(obj[o]) \in Settings
               /\ obj[o].droppedCount \in Nat
               /\ obj[o].drain \in Drains
               /\ Distinct(obj[o].items)
    BY DEF IInv, ObjectsOK, WellFormed, Queues
  <2>2. \A d \in Drains : d.kind \in {"idle", "debounce", "returning", "head", "summary", "batch"}
    BY DrainKinds
  <2> QED BY <2>1, <2>2 DEF QueuesWellFormed, TypeOK, NoDuplicateQueued, IInv, RestOK,
                            SettingsOf, Distinct
<1> QED BY <1>1, Invariant, PTL

(* No step grows a queue beyond its cap, for any caps and however they are  *)
(* lowered while messages are queued.                                       *)
THEOREM CapIsRespected == Spec => CapRespected
<1>1. IInv /\ [Next]_vars => [CapStep]_vars
  BY Step
<1>2. [CapStep]_vars =>
        [\A o \in Objects : Len(obj'[o].items) > Len(obj[o].items)
                              => Len(obj'[o].items) <= obj'[o].cap]_vars
  BY DEF CapStep
<1> QED BY <1>1, <1>2, Invariant, PTL DEF Spec, CapRespected

-----------------------------------------------------------------------------
(* What leaves the queue *)

(* A completed run whose messages are still the first items takes out what  *)
(* it was given and nothing else.                                           *)
LEMMA ConsumeKeeps ==
  ASSUME NEW q, WellFormed(q), Running(q), q.drain.kind # "summary", InFlightKept(q),
         NEW m \in Range(q.items)
  PROVE  m \in Range(Consume(q).items) \/ m \in Range(q.drain.prompts)
<1> DEFINE n == IF q.drain.kind = "batch" THEN Len(q.drain.prompts) ELSE 1
<1>1. /\ q.items \in Seq(Messages) /\ q.drain.prompts \in Seq(Messages) /\ q.drain \in Drains
      /\ Consume(q).items = DropFirst(q.items, n)
  BY ConsumeProperties DEF WellFormed, Queues
<1>2. n \in Nat /\ n = Len(q.drain.prompts)
  <2>1. q.drain.kind = "batch" \/ (q.drain.kind = "head" /\ Len(q.drain.prompts) = 1)
    BY <1>1, DrainKinds DEF Running
  <2>2. Len(q.drain.prompts) \in Nat
    BY <1>1
  <2> QED BY <2>1, <2>2
<1>3. PICK i \in DOMAIN q.items : m = q.items[i]
  BY DEF Range
<1> HIDE DEF n
<1>4. CASE i > n
  BY <1>1, <1>2, <1>3, <1>4, DropFirstProperties
<1>5. CASE ~(i > n)
  <2>1. i \in DOMAIN q.drain.prompts
    BY <1>1, <1>2, <1>3, <1>5
  <2>2. m = q.drain.prompts[i]
    BY <1>3, <2>1 DEF InFlightKept
  <2> QED BY <2>1, <2>2 DEF Range
<1> QED BY <1>4, <1>5

(* What a drain step takes out of its queue and is still owed was taken by  *)
(* a run that was not given it.                                             *)
LEMMA DrainTakes ==
  ASSUME IInv, NEW o \in Objects, NEW q, DrainsTo(o, q), ~TakesOthers(o),
         NEW m \in Range(obj[o].items), m \in owed'
  PROVE  m \in Range(q.items)
<1>1. CASE q.items = obj[o].items
  BY <1>1
<1>2. CASE RunCompletes(o) /\ q.items = Consume(obj[o]).items
  <2>1. /\ Running(obj[o]) /\ obj[o].drain.kind # "summary" /\ InFlightKept(obj[o])
        /\ m \notin Range(obj[o].drain.prompts)
    BY <1>2 DEF TakesOthers, RunCompletes
  <2> QED BY <1>2, <2>1, ConsumeKeeps, InvObjects
<1> QED BY <1>1, <1>2 DEF DrainsTo, Leaves

-----------------------------------------------------------------------------
(* No message is lost when a full queue refuses new messages and nothing    *)
(* clears it.  The other drop policies do lose messages: see the run        *)
(* followup_in_flight.                                                      *)

NeverDrops == MaxClears = 0 /\ \A s \in Settings : s.dropPolicy = "new"

Refusing(q) == q.dropPolicy = "new" /\ q.droppedCount = 0
Unused(q) == Exhausted(q) /\ ~draining(q)

(* What the run under way was given is at the head of the queue. *)
InFlight(q) ==
  Running(q) => q.drain.kind # "summary" /\ InFlightKept(q)

(* Nothing is cleared, only the object in the map is used, and it is        *)
(* refilled only behind what its run was given.                             *)
InFlightFirst ==
  /\ clears = 0
  /\ \A o \in Objects : /\ Refusing(obj[o]) /\ InFlight(obj[o])
                        /\ o # current => Unused(obj[o])

KeepInv == IInv /\ InFlightFirst /\ NoSilentLoss

Holds(objects, m) == \E x \in Objects : m \in Range(objects[x].items)

(* A step that puts its objects in place, then starts or ends drains. *)
LEMMA KeepStep ==
  ASSUME NEW objects, Rearranged(objects, obj'), clears' = 0,
         \A x \in Objects : /\ Refusing(objects[x])
                            /\ \/ InFlight(objects[x])
                               \/ obj'[x].drain.kind \in {"idle", "debounce"}
                            /\ x # current' => Unused(obj'[x]),
         \A m \in owed' : Holds(objects, m)
  PROVE  InFlightFirst' /\ NoSilentLoss'
<1>1. \A x \in Objects :
        /\ obj'[x].items = objects[x].items /\ Refusing(obj'[x])
        /\ obj'[x].drain = objects[x].drain \/ obj'[x].drain.kind \in {"idle", "debounce"}
  BY DEF Rearranged, SameQueue, Refusing
<1>2. \A x \in Objects : InFlight(obj'[x])
  BY <1>1 DEF InFlight, Running, InFlightKept
<1>3. InFlightFirst'
  BY <1>1, <1>2 DEF InFlightFirst
<1>4. \A m : Holds(objects, m) => m \in Reachable'
  <2>1. \A m : Holds(objects, m) => Holds(obj', m)
    BY <1>1 DEF Holds
  <2>2. \A m : Holds(obj', m) => m \in Reachable'
    <3>1. ASSUME NEW m, NEW x \in Objects, m \in Range(obj'[x].items) PROVE x = current'
      <4>1. obj'[x].items # <<>>
        BY <3>1 DEF Range
      <4> QED BY <4>1 DEF Unused, Exhausted
    <3> QED BY <3>1 DEF Reachable, Holds
  <2> QED BY <2>1, <2>2
<1> QED BY <1>3, <1>4 DEF NoSilentLoss

(* What was owed before the step. *)
LEMMA OwedHeld ==
  ASSUME KeepInv, NEW m \in owed PROVE Holds(obj, m)
BY DEF KeepInv, NoSilentLoss, Reachable, Holds

(* A step that leaves the queues and the history alone. *)
LEMMA HistoryKept ==
  ASSUME KeepInv, UNCHANGED <<clears, owed>>
  PROVE  clears' = 0 /\ \A m \in owed' : Holds(obj, m)
BY OwedHeld DEF KeepInv, InFlightFirst

LEMMA KeepAside ==
  ASSUME KeepInv, Aside PROVE InFlightFirst' /\ NoSilentLoss'
<1>1. UNCHANGED <<obj, current, clears, owed>>
  BY DEF Aside, StartMain, StartEmbedded, EndEmbedded, ForgetMessageId, vars
<1>2. Rearranged(obj, obj')
  BY <1>1, InvObjects DEF KeepInv, Rearranged, WellFormedAll, SameQueue
<1>3. \A x \in Objects : /\ Refusing(obj[x]) /\ InFlight(obj[x])
                         /\ x # current' => Unused(obj'[x])
  BY <1>1 DEF KeepInv, InFlightFirst
<1> QED BY <1>1, <1>2, <1>3, HistoryKept, KeepStep

LEMMA KeepEndMain ==
  ASSUME KeepInv, EndMain PROVE InFlightFirst' /\ NoSilentLoss'
<1>1. WellFormedAll(obj) /\ current \in Objects \cup {NoObject}
  BY InvObjects DEF KeepInv, RestOK
<1>2. /\ Rearranged(obj, obj') /\ current' \in {current, NoObject}
      /\ current' # current => Exhausted(obj[current]) /\ ~draining(obj[current]) /\ obj' = obj
      /\ \A x \in Objects : x # current => obj'[x] = obj[x]
  BY <1>1, ScheduleProperties DEF EndMain, Become
<1>3. \A x \in Objects : /\ Refusing(obj[x]) /\ InFlight(obj[x])
                         /\ x # current => Unused(obj[x])
  BY DEF KeepInv, InFlightFirst
<1>4. \A x \in Objects : x # current' => Unused(obj'[x])
  BY <1>2, <1>3 DEF Unused
<1> QED BY <1>2, <1>3, <1>4, HistoryKept, KeepStep DEF EndMain

(* A drain leaves its loop. *)
LEMMA KeepFinally ==
  ASSUME KeepInv, NEW objects, WellFormedAll(objects), NEW o \in Objects, draining(obj[o]),
         Become(Finally(objects, o)), clears' = 0,
         \A x \in Objects : Refusing(objects[x]) /\ (x # o => objects[x] = obj[x]),
         \A m \in owed' : Holds(objects, m)
  PROVE  InFlightFirst' /\ NoSilentLoss'
<1>1. current \in Objects \cup {NoObject}
  BY InvObjects DEF KeepInv, RestOK
<1>2. o = current
  BY DEF KeepInv, InFlightFirst, Unused
<1>3. /\ Rearranged(objects, obj') /\ current' \in {current, NoObject}
      /\ obj'[o].drain.kind \in {"idle", "debounce"}
      /\ \A x \in Objects : x # o /\ x # current => obj'[x] = objects[x]
      /\ o = current /\ current' # current => Exhausted(objects[o]) /\ ~draining(obj'[o])
  BY <1>1, FinallyProperties DEF Become
<1>4. \A x \in Objects : InFlight(obj[x]) /\ (x # current => Unused(obj[x]))
  BY DEF KeepInv, InFlightFirst
<1>5. Exhausted(objects[o]) => Exhausted(obj'[o])
  BY <1>3 DEF Rearranged, SameQueue, Exhausted
<1>6. \A x \in Objects : x # current' => Unused(obj'[x])
  BY <1>2, <1>3, <1>4, <1>5 DEF Unused
<1>7. \A x \in Objects : InFlight(objects[x]) \/ obj'[x].drain.kind \in {"idle", "debounce"}
  BY <1>3, <1>4
<1> QED BY <1>3, <1>6, <1>7, KeepStep

(* A drain step that leaves its loop running. *)
LEMMA KeepRedrain ==
  ASSUME KeepInv, NEW o \in Objects, draining(obj[o]), WellFormedAll(obj'),
         current' = current, clears' = 0,
         \A x \in Objects : x # o => obj'[x] = obj[x],
         Refusing(obj'[o]), InFlight(obj'[o]),
         \A m \in owed' : Holds(obj', m)
  PROVE  InFlightFirst' /\ NoSilentLoss'
<1>1. PICK objects : objects = obj'
  OBVIOUS
<1>2. Rearranged(objects, obj')
  BY <1>1 DEF Rearranged, WellFormedAll, SameQueue
<1>3. \A x \in Objects : /\ Refusing(obj[x]) /\ InFlight(obj[x])
                         /\ x # current => Unused(obj[x])
  BY DEF KeepInv, InFlightFirst
<1>4. o = current
  BY <1>3 DEF Unused
<1>5. \A x \in Objects : /\ Refusing(objects[x]) /\ InFlight(objects[x])
                         /\ x # current' => Unused(obj'[x])
  BY <1>1, <1>3, <1>4
<1>6. \A m \in owed' : Holds(objects, m)
  BY <1>1
<1> QED BY <1>2, <1>5, <1>6, KeepStep

LEMMA KeepDrain ==
  ASSUME KeepInv, NEW o \in Objects, DrainStep(o) \/ RunFails(o)
  PROVE  InFlightFirst' /\ NoSilentLoss'
<1> USE InvObjects DEF KeepInv
<1>1. /\ InFlight(obj[o]) /\ clears = 0
      /\ \A x \in Objects : Refusing(obj[x])
  BY DEF InFlightFirst
<1>2. PICK q \in Queues : DrainsTo(o, q)
  BY DrainForms
<1>3. PICK objects : objects = [obj EXCEPT ![o] = q]
  OBVIOUS
<1>4. Replaced(obj, objects, o, q) /\ WellFormedAll(objects)
  BY <1>2, <1>3, DrainLeaves
<1>5. draining(obj[o]) /\ clears' = 0 /\ Refusing(q)
  BY <1>1, <1>2 DEF DrainsTo, Leaves, Refusing
<1>6. \A x \in Objects : Refusing(objects[x]) /\ (x # o => objects[x] = obj[x])
  BY <1>1, <1>4, <1>5 DEF Replaced
<1>7. \A m \in owed' : Holds(objects, m)
  <2> SUFFICES ASSUME NEW m \in owed' PROVE Holds(objects, m)
    OBVIOUS
  <2>1. m \in owed
    BY <1>2, <1>3, DrainLeaves
  <2>2. PICK x \in Objects : m \in Range(obj[x].items)
    BY <2>1, OwedHeld DEF Holds
  <2>3. ~TakesOthers(o)
    BY <1>1 DEF TakesOthers, InFlight, RunCompletes
  <2>4. x = o => m \in Range(q.items)
    BY <1>2, <2>2, <2>3, DrainTakes
  <2>5. objects[o] = q
    BY <1>4 DEF Replaced
  <2> QED BY <1>6, <2>2, <2>4, <2>5 DEF Holds
<1>8. CASE Become(Finally(objects, o))
  BY <1>4, <1>5, <1>6, <1>7, <1>8, KeepFinally
<1>9. CASE /\ current' = current
           /\ \A x \in Objects \ {o} : obj'[x] = obj[x]
           /\ \E d \in Drains : /\ d.kind # "idle" /\ Given(q, d)
                                /\ obj'[o].drain = d /\ SameQueue(obj'[o], q)
           /\ WellFormedAll(obj')
  <2>1. PICK d \in Drains : /\ d.kind # "idle" /\ Given(q, d)
                            /\ obj'[o].drain = d /\ SameQueue(obj'[o], q)
    BY <1>9
  <2>2. Refusing(obj'[o])
    BY <1>5, <2>1 DEF Refusing, SameQueue
  <2>3. InFlight(obj'[o])
    BY <1>5, <2>1 DEF InFlight, InFlightKept, Running, Given, SameQueue, SummaryDue, Refusing
  <2>4. \A m \in owed' : Holds(obj', m)
    BY <1>4, <1>6, <1>7, <1>9, <2>1 DEF Holds, Replaced, SameQueue
  <2> QED BY <1>5, <1>9, <2>2, <2>3, <2>4, KeepRedrain
<1> QED BY <1>2, <1>3, <1>8, <1>9, DrainLeaves

(* A message pushed behind what is queued. *)
LEMMA PushedBehind ==
  ASSUME NEW s \in Seq(Messages), NEW m \in Messages
  PROVE  /\ Len(Append(s, m)) = Len(s) + 1 /\ Len(s) \in Nat
         /\ \A i \in DOMAIN s : Append(s, m)[i] = s[i]
         /\ Range(s) \subseteq Range(Append(s, m)) /\ m \in Range(Append(s, m))
BY PushedMessage

LEMMA KeepEnqueue ==
  ASSUME KeepInv, NeverDrops, NEW m \in Messages, NEW s \in Settings, NEW o \in Objects,
         NEW restart \in BOOLEAN, Enqueue(m, s, o, restart)
  PROVE  InFlightFirst' /\ NoSilentLoss'
<1>1. PICK q : q = GetFollowupQueue(o, s)
  OBVIOUS
<1>2. /\ WellFormedAll(obj) /\ obj[o].items \in Seq(Messages) /\ obj[o] \in Queues
      /\ \A x \in Objects : /\ Refusing(obj[x]) /\ InFlight(obj[x])
                            /\ x # current => Unused(obj[x])
  BY InvObjects DEF KeepInv, InFlightFirst
<1>3. /\ WellFormed(q) /\ q.dropPolicy = "new" /\ q.droppedCount = 0
      /\ \/ q.items = obj[o].items /\ q.drain = obj[o].drain
         \/ q.items = <<>> /\ q.drain = Idle /\ obj[o].items = <<>>
  <2>1. s.dropPolicy = "new"
    BY DEF NeverDrops
  <2>2. CASE current = NoObject
    <3>1. obj[o].items = <<>>
      BY <1>2, <2>2, NoObjectAssumption DEF Unused, Exhausted
    <3> QED BY <1>1, <2>1, <2>2, <3>1, GetProperties DEF KeepInv, IInv
  <2>3. CASE current # NoObject
    BY <1>1, <1>2, <2>1, <2>3, GetProperties DEF KeepInv, IInv, Refusing
  <2> QED BY <2>2, <2>3
<1>4. PICK p \in Queues, r \in BOOLEAN : Puts(m, q, o, p, r)
  BY <1>1, EnqueueForms DEF KeepInv
<1>5. /\ WellFormed(p) /\ p.drain = q.drain /\ p.dropPolicy = "new"
      /\ Become(AfterEnqueue([obj EXCEPT ![o] = p], o, r))
  BY <1>3, <1>4 DEF Puts
<1>6. \/ /\ p.items = q.items /\ p.droppedCount = q.droppedCount
         /\ UNCHANGED owed
      \/ /\ p.items = Append(q.items, m) /\ p.droppedCount = q.droppedCount
         /\ owed' \subseteq owed \cup {m}
  <2>1. CASE /\ p.items = q.items /\ p.droppedCount = q.droppedCount
             /\ UNCHANGED <<recent, owed>>
    BY <2>1
  <2>2. CASE /\ p = Pushed(q, m) /\ m \notin Range(q.items)
             /\ Len(q.items) >= q.cap => q.dropPolicy # "new"
             /\ owed' = (owed \ (Range(q.items) \ Range(p.items))) \cup {m}
    <3>1. Len(q.items) < q.cap
      BY <1>3, <2>2 DEF WellFormed, Queues
    <3>2. p.items = Append(q.items, m) /\ p.droppedCount = q.droppedCount
      BY <1>3, <2>2, <3>1, PushedProperties
    <3> QED BY <2>2, <3>2
  <2> QED BY <1>4, <2>1, <2>2 DEF Puts
<1>7. /\ Range(obj[o].items) \subseteq Range(p.items) /\ Refusing(p)
      /\ UNCHANGED owed \/ (m \in Range(p.items) /\ owed' \subseteq owed \cup {m})
  <2>1. q.items \in Seq(Messages) /\ q.items = obj[o].items
    BY <1>2, <1>3
  <2> QED BY <1>3, <1>5, <1>6, <2>1, PushedBehind DEF Refusing
<1>8. InFlight(p)
  <2>1. CASE q.drain = Idle
    BY <1>5, <2>1, DrainTypes DEF InFlight, Running
  <2>2. CASE q.items = obj[o].items /\ q.drain = obj[o].drain
    <3>1. \A i \in DOMAIN obj[o].items : i \in DOMAIN p.items /\ p.items[i] = obj[o].items[i]
      BY <1>2, <1>6, <2>2, PushedMessage
    <3> QED BY <1>2, <1>5, <2>2, <3>1 DEF InFlight, InFlightKept, Running
  <2> QED BY <1>3, <2>1, <2>2
<1>9. PICK objects : objects = [obj EXCEPT ![o] = p]
  OBVIOUS
<1>10. Replaced(obj, objects, o, p) /\ WellFormedAll(objects)
  BY <1>2, <1>5, <1>9, ReplaceOne
<1>11. /\ Rearranged(objects, obj') /\ current' \in {o, NoObject}
       /\ \A x \in Objects : x # o => obj'[x] = objects[x]
       /\ current' # o => Exhausted(objects[o]) /\ ~draining(objects[o]) /\ obj' = objects
  <2>1. PICK after : after = AfterEnqueue(objects, o, r)
    OBVIOUS
  <2>2. obj' = after.obj /\ current' = after.current
    BY <1>5, <1>9, <2>1 DEF Become
  <2>3. /\ Rearranged(objects, after.obj) /\ after.current \in {o, NoObject}
        /\ \A x \in Objects : x # o => after.obj[x] = objects[x]
        /\ after.current # o => /\ Exhausted(objects[o]) /\ ~draining(objects[o])
                                /\ after.obj = objects
    BY <1>10, <2>1, AfterEnqueueProperties
  <2> QED BY <2>2, <2>3
<1>12. \A x \in Objects : x # current' => Unused(obj'[x])
  <2>1. \A x \in Objects : x # o => x # current
    BY NoObjectAssumption DEF Enqueue, SlotFor
  <2> QED BY <1>2, <1>10, <1>11, <2>1 DEF Replaced, Unused
<1>13. \A x \in Objects : Refusing(objects[x]) /\ InFlight(objects[x])
  BY <1>2, <1>7, <1>8, <1>10 DEF Replaced
<1>14. \A n \in owed' : Holds(objects, n)
  <2>1. \A n : Holds(obj, n) => Holds(objects, n)
    BY <1>7, <1>10 DEF Holds, Replaced
  <2>2. m \in Range(p.items) => Holds(objects, m)
    BY <1>10 DEF Holds, Replaced
  <2>3. \A n \in owed : Holds(objects, n)
    BY <2>1, OwedHeld
  <2> QED BY <1>7, <2>2, <2>3
<1>15. clears' = 0
  BY DEF Enqueue, KeepInv, InFlightFirst
<1> QED BY <1>11, <1>12, <1>13, <1>14, <1>15, KeepStep

LEMMA KeepNext ==
  ASSUME KeepInv, NeverDrops, [Next]_vars PROVE KeepInv'
<1>1. IInv'
  BY Step DEF KeepInv
<1>2. ~ClearFollowupQueue
  BY DEF NeverDrops, ClearFollowupQueue, KeepInv, InFlightFirst
<1>3. InFlightFirst' /\ NoSilentLoss'
  <2>1. CASE \E m \in Messages, s \in Settings, o \in Objects, restart \in BOOLEAN :
               Enqueue(m, s, o, restart)
    BY <2>1, KeepEnqueue
  <2>2. CASE EndMain
    BY <2>2, KeepEndMain
  <2>3. CASE Aside
    BY <2>3, KeepAside
  <2>4. CASE \E o \in Objects : DrainStep(o) \/ RunFails(o)
    BY <2>4, KeepDrain
  <2> QED BY <1>2, <2>1, <2>2, <2>3, <2>4 DEF Next, Aside
<1> QED BY <1>1, <1>3 DEF KeepInv

LEMMA KeepInit == ASSUME NeverDrops, Init PROVE KeepInv
<1>1. IInv
  BY InitIInv
<1>2. PICK s \in Settings : obj = [o \in Objects |-> Fresh(s)]
  BY DEF Init
<1>3. /\ Fresh(s).items = <<>> /\ Fresh(s).drain = Idle /\ Fresh(s).droppedCount = 0
      /\ Fresh(s).dropPolicy = "new"
  BY FreshProperties DEF NeverDrops
<1>4. Refusing(Fresh(s)) /\ InFlight(Fresh(s)) /\ Unused(Fresh(s))
  BY <1>3, DrainTypes DEF Refusing, InFlight, Running, Unused, Exhausted, draining
<1>5. InFlightFirst
  BY <1>2, <1>4 DEF InFlightFirst, Init
<1> QED BY <1>1, <1>5 DEF KeepInv, NoSilentLoss, Init

(* A message enqueueFollowupRun accepted is still queued, or was given to a *)
(* run that completed: whatever fails, is redelivered or arrives while a    *)
(* run is in flight, for any number of messages, caps and mode switches, as *)
(* long as a full queue refuses new messages and nothing is cleared.        *)
THEOREM NothingIsLost == NeverDrops => (Spec => []NoSilentLoss)
<1> SUFFICES ASSUME NeverDrops PROVE Spec => []NoSilentLoss
  OBVIOUS
<1>1. Init => KeepInv
  BY KeepInit
<1>2. KeepInv /\ [Next]_vars => KeepInv'
  BY KeepNext
<1>3. KeepInv => NoSilentLoss
  BY DEF KeepInv
<1> QED BY <1>1, <1>2, <1>3, PTL DEF Spec

-----------------------------------------------------------------------------
(* A message leaves the queue only when it was handled *)

(* Each object a drain can reach keeps what is owed of its messages. *)
KeepsMessages ==
  \A x \in Objects : \A m \in Range(obj[x].items) \cap owed' :
    x = current \/ draining(obj[x]) =>
      \E y \in Objects : (y = current' \/ draining(obj'[y])) /\ m \in Range(obj'[y].items)

LEMMA KeptReachable == ASSUME KeepsMessages PROVE (Reachable \ Reachable') \cap owed' = {}
<1> SUFFICES ASSUME NEW m \in Reachable, m \in owed' PROVE m \in Reachable'
  OBVIOUS
<1>1. PICK x \in Objects : (x = current \/ draining(obj[x])) /\ m \in Range(obj[x].items)
  BY DEF Reachable
<1>2. PICK y \in Objects : (y = current' \/ draining(obj'[y])) /\ m \in Range(obj'[y].items)
  BY <1>1 DEF KeepsMessages
<1> QED BY <1>2 DEF Reachable

LEMMA EmptyRange == ASSUME NEW q, Exhausted(q) PROVE Range(q.items) = {}
BY DEF Exhausted, Range

(* scheduleFollowupDrain forgets no message. *)
LEMMA ScheduleReaches ==
  ASSUME NEW objects, WellFormedAll(objects), NEW cur \in Objects \cup {NoObject},
         NEW s, s = Schedule(objects, cur),
         NEW x \in Objects, x = cur \/ draining(objects[x]), NEW m \in Range(objects[x].items)
  PROVE  (x = s.current \/ draining(s.obj[x])) /\ m \in Range(s.obj[x].items)
<1>1. /\ Rearranged(objects, s.obj) /\ s.current \in {cur, NoObject}
      /\ s.current # cur => Exhausted(objects[cur]) /\ ~draining(objects[cur])
      /\ \A y \in Objects : y # cur => s.obj[y] = objects[y]
  BY ScheduleProperties
<1>2. m \in Range(s.obj[x].items)
  BY <1>1 DEF Rearranged, SameQueue
<1>3. CASE x = cur
  BY <1>1, <1>2, <1>3, EmptyRange
<1>4. CASE x # cur
  BY <1>1, <1>2, <1>4
<1> QED BY <1>3, <1>4

LEMMA EndMainRemoves == ASSUME IInv, EndMain PROVE KeepsMessages
<1>1. WellFormedAll(obj) /\ current \in Objects \cup {NoObject}
  BY InvObjects DEF RestOK
<1>2. PICK s : s = Schedule(obj, current)
  OBVIOUS
<1>3. obj' = s.obj /\ current' = s.current
  BY <1>2 DEF EndMain, Become
<1> QED BY <1>1, <1>2, <1>3, ScheduleReaches DEF KeepsMessages

LEMMA ClearRemoves == ASSUME IInv, ClearFollowupQueue PROVE KeepsMessages
<1>1. PICK q : /\ Replaced(obj, obj', current, q) /\ q.items = <<>>
               /\ q.drain = obj[current].drain /\ current \in Objects
  BY ClearKeeps
<1>2. owed' \cap Range(obj[current].items) = {}
  BY DEF ClearFollowupQueue
<1> QED BY <1>1, <1>2 DEF KeepsMessages, Replaced

LEMMA EnqueueRemoves ==
  ASSUME IInv, NEW m \in Messages, NEW s \in Settings, NEW o \in Objects,
         NEW restart \in BOOLEAN, Enqueue(m, s, o, restart)
  PROVE  KeepsMessages
<1> USE InvObjects
<1>1. PICK q : q = GetFollowupQueue(o, s)
  OBVIOUS
<1>2. PICK p \in Queues, r \in BOOLEAN : Puts(m, q, o, p, r)
  BY <1>1, EnqueueForms
<1>3. WellFormed(p) /\ p.drain = q.drain /\ Become(AfterEnqueue([obj EXCEPT ![o] = p], o, r))
  BY <1>2 DEF Puts
<1>4. PICK objects : objects = [obj EXCEPT ![o] = p]
  OBVIOUS
<1>5. Replaced(obj, objects, o, p) /\ WellFormedAll(objects)
  BY <1>3, <1>4, ReplaceOne
<1>6. /\ Rearranged(objects, obj') /\ current' \in {o, NoObject}
      /\ \A x \in Objects : x # o => obj'[x] = objects[x]
      /\ current' # o => Exhausted(objects[o])
  <2>1. PICK after : after = AfterEnqueue(objects, o, r)
    OBVIOUS
  <2>2. obj' = after.obj /\ current' = after.current
    BY <1>3, <1>4, <2>1 DEF Become
  <2> QED BY <1>5, <2>1, <2>2, AfterEnqueueProperties
<1>7. /\ current # NoObject => o = current
      /\ current = NoObject => ~draining(obj[o])
      /\ NoObject \notin Objects
  BY NoObjectAssumption DEF Enqueue, SlotFor
<1>8. ASSUME NEW x \in Objects, x # o, draining(obj[x]), NEW n \in Range(obj[x].items)
      PROVE  draining(obj'[x]) /\ n \in Range(obj'[x].items)
  BY <1>5, <1>6, <1>8 DEF Replaced
<1>9. ASSUME current = o, NEW n \in Range(obj[o].items), n \in owed'
      PROVE  o = current' /\ n \in Range(obj'[o].items)
  <2>1. q.items = obj[o].items
    BY <1>1, <1>7, <1>9, GetProperties DEF IInv
  <2>2. n \in Range(p.items)
    <3>1. CASE p.items = q.items
      BY <1>9, <2>1, <3>1
    <3>2. CASE /\ p = Pushed(q, m) /\ m \notin Range(q.items)
               /\ owed' = (owed \ (Range(q.items) \ Range(p.items))) \cup {m}
      BY <1>9, <2>1, <3>2
    <3> QED BY <1>2, <3>1, <3>2 DEF Puts
  <2>3. objects[o] = p
    BY <1>5 DEF Replaced
  <2>4. current' = o
    BY <1>6, <2>2, <2>3, EmptyRange
  <2> QED BY <1>6, <2>2, <2>3, <2>4 DEF Rearranged, SameQueue
<1>10. SUFFICES ASSUME NEW x \in Objects, NEW n \in Range(obj[x].items) \cap owed',
                       x = current \/ draining(obj[x])
                PROVE  (x = current' \/ draining(obj'[x])) /\ n \in Range(obj'[x].items)
  BY DEF KeepsMessages
<1>11. CASE x = o
  BY <1>7, <1>9, <1>10, <1>11
<1>12. CASE x # o
  BY <1>7, <1>8, <1>10, <1>12
<1> QED BY <1>11, <1>12

(* A drain step: what it takes out was run, unless the run took others, or  *)
(* its object is not in the map and its drain ends.                         *)
LEMMA DrainRemoves ==
  ASSUME IInv, NEW o \in Objects, DrainStep(o) \/ RunFails(o)
  PROVE  KeepsMessages \/ StaleDrainEnds \/ TakesOthers(o)
<1> USE InvObjects
<1> SUFFICES ASSUME ~TakesOthers(o), ~StaleDrainEnds PROVE KeepsMessages
  OBVIOUS
<1>1. PICK q \in Queues : DrainsTo(o, q)
  BY DrainForms
<1>2. PICK objects : objects = [obj EXCEPT ![o] = q]
  OBVIOUS
<1>3. Replaced(obj, objects, o, q) /\ WellFormedAll(objects)
  BY <1>1, <1>2, DrainLeaves
<1>4. \A x \in Objects : \A m \in Range(obj[x].items) \cap owed' : m \in Range(objects[x].items)
  BY <1>1, <1>3, DrainTakes DEF Replaced
<1>5. draining(obj[o]) /\ objects[o].drain = obj[o].drain
  BY <1>1, <1>3 DEF DrainsTo, Leaves, Replaced
<1>6. CASE Become(Finally(objects, o))
  <2>1. current \in Objects \cup {NoObject}
    BY DEF RestOK
  <2>2. /\ Rearranged(objects, obj') /\ current' \in {current, NoObject}
        /\ \A x \in Objects : x # o /\ x # current => obj'[x] = objects[x]
        /\ o = current /\ current' # current => Exhausted(objects[o]) /\ ~draining(obj'[o])
    BY <1>3, <1>6, <2>1, FinallyProperties DEF Become
  <2>3. \A x \in Objects : obj'[x].items = objects[x].items
    BY <2>2 DEF Rearranged, SameQueue
  <2>4. CASE o = current
    <3>1. current' # current => Range(objects[o].items) = {}
      BY <2>2, <2>4, EmptyRange
    <3>2. \A x \in Objects : x # o => obj'[x] = obj[x]
      BY <1>3, <2>2, <2>4 DEF Replaced
    <3> QED BY <1>4, <2>3, <2>4, <3>1, <3>2 DEF KeepsMessages
  <2>5. CASE o # current
    <3>1. draining(obj'[o])
      BY <1>5, <2>5 DEF StaleDrainEnds
    <3>2. FALSE
      <4>1. PICK idled : idled = [objects EXCEPT ![o].drain = Idle]
        OBVIOUS
      <4>2. Replaced(objects, idled, o, [objects[o] EXCEPT !.drain = Idle]) /\ Idle \in Drains
        BY <1>3, <4>1, DrainTypes, ReplaceDrain
      <4>3. WellFormedAll(idled) /\ idled[o].drain = Idle
        BY <1>3, <4>2, RedrainOne
      <4>4. obj' = idled \/ obj' = Schedule(idled, current).obj
        BY <1>6, <4>1 DEF Finally, Become
      <4>5. obj'[o] = idled[o]
        BY <2>1, <2>5, <4>3, <4>4, ScheduleProperties
      <4> QED BY <3>1, <4>3, <4>5 DEF draining
    <3> QED BY <3>2
  <2> QED BY <2>4, <2>5
<1>7. CASE /\ current' = current
           /\ \A x \in Objects \ {o} : obj'[x] = obj[x]
           /\ \E d \in Drains : /\ d.kind # "idle" /\ Given(q, d)
                                /\ obj'[o].drain = d /\ SameQueue(obj'[o], q)
           /\ WellFormedAll(obj')
  <2>1. draining(obj'[o]) /\ obj'[o].items = q.items
    BY <1>7, DrainKinds DEF draining, SameQueue
  <2>2. objects[o] = q
    BY <1>3 DEF Replaced
  <2> QED BY <1>4, <1>7, <2>1, <2>2 DEF KeepsMessages
<1> QED BY <1>1, <1>2, <1>6, <1>7, DrainLeaves

(* A message leaves the queue only because a run completed with its prompt, *)
(* the overflow policy dropped it or the queue was cleared, but for the two *)
(* ways of losing messages that the property names: for any messages,       *)
(* settings, policies, failures, clears and queue objects.                  *)
THEOREM NothingJustDisappears == Spec => RemovedOnlyIfHandled
<1> DEFINE Removal == \/ (Reachable \ Reachable') \cap owed' = {}
                      \/ StaleDrainEnds \/ \E o \in Objects : TakesOthers(o)
<1>1. IInv /\ [Next]_vars => [Removal]_vars
  <2> SUFFICES ASSUME IInv, Next PROVE Removal
    OBVIOUS
  <2>1. KeepsMessages => Removal
    BY KeptReachable
  <2>2. CASE Aside
    <3>1. UNCHANGED <<obj, current>>
      BY <2>2 DEF Aside, StartMain, StartEmbedded, EndEmbedded, ForgetMessageId, vars
    <3> QED BY <2>1, <3>1 DEF KeepsMessages
  <2>3. ASSUME NEW o \in Objects, DrainStep(o) \/ RunFails(o) PROVE Removal
    BY <2>1, <2>3, DrainRemoves
  <2> HIDE DEF Removal
  <2> QED BY <2>1, <2>2, <2>3, EndMainRemoves, ClearRemoves, EnqueueRemoves DEF Next, Aside
<1> QED BY <1>1, Invariant, PTL DEF Spec, RemovedOnlyIfHandled

-----------------------------------------------------------------------------
(* Nothing waits for nobody *)

(* scheduleFollowupDrain leaves the map without an entry, or with one that  *)
(* drains.                                                                  *)
LEMMA ScheduleAttends ==
  ASSUME NEW objects, WellFormedAll(objects), NEW cur \in Objects \cup {NoObject},
         Schedule(objects, cur).current # NoObject
  PROVE  LET s == Schedule(objects, cur) IN
         s.current \in Objects /\ draining(s.obj[s.current])
<1>1. CASE cur = NoObject \/ draining(objects[cur])
  BY <1>1 DEF Schedule
<1>2. CASE ~(cur = NoObject \/ draining(objects[cur])) /\ Exhausted(objects[cur])
  BY <1>2 DEF Schedule
<1>3. CASE ~(cur = NoObject \/ draining(objects[cur])) /\ ~Exhausted(objects[cur])
  <2>1. PICK d \in Drains : d = Debounce(FALSE) /\ d.kind = "debounce"
    BY DrainTypes
  <2>2. PICK after : after = [objects EXCEPT ![cur].drain = d]
    OBVIOUS
  <2>3. cur \in Objects
    BY <1>3
  <2>4. Replaced(objects, after, cur, [objects[cur] EXCEPT !.drain = d])
    BY <2>2, <2>3, ReplaceDrain
  <2>5. after[cur].drain = d
    BY <2>3, <2>4, RedrainOne
  <2>6. draining(after[cur])
    BY <2>1, <2>5, DrainTypes DEF draining
  <2>7. Schedule(objects, cur) = [obj |-> after, current |-> cur]
    BY <1>3, <2>1, <2>2 DEF Schedule
  <2> QED BY <2>3, <2>6, <2>7
<1> QED BY <1>1, <1>2, <1>3

(* So does the drain's finally. *)
LEMMA FinallyAttends ==
  ASSUME NEW objects, WellFormedAll(objects), NEW o \in Objects,
         current \in Objects \cup {NoObject}, Become(Finally(objects, o))
  PROVE  Attended'
<1>1. PICK idled : idled = [objects EXCEPT ![o].drain = Idle]
  OBVIOUS
<1>2. WellFormedAll(idled)
  <2>1. Replaced(objects, idled, o, [objects[o] EXCEPT !.drain = Idle]) /\ Idle \in Drains
    BY <1>1, DrainTypes, ReplaceDrain
  <2> QED BY <2>1, RedrainOne
<1>3. Finally(objects, o) = IF Exhausted(idled[o]) THEN [obj |-> idled, current |-> NoObject]
                            ELSE Schedule(idled, current)
  BY <1>1 DEF Finally
<1>4. CASE Exhausted(idled[o])
  BY <1>3, <1>4 DEF Become, Attended
<1>5. CASE ~Exhausted(idled[o])
  <2>1. obj' = Schedule(idled, current).obj /\ current' = Schedule(idled, current).current
    BY <1>3, <1>5 DEF Become
  <2> QED BY <1>2, <2>1, ScheduleAttends DEF Attended, Drained
<1> QED BY <1>4, <1>5

(* An enqueue that leaves the drain to others has seen a run: the reply     *)
(* run, which will drain, a followup run, whose drain goes on, or an        *)
(* embedded run.                                                            *)
LEMMA EnqueueAttends ==
  ASSUME IInv, NEW m \in Messages, NEW s \in Settings, NEW o \in Objects,
         NEW restart \in BOOLEAN, Enqueue(m, s, o, restart)
  PROVE  Attended'
<1> USE InvObjects
<1>1. PICK q : q = GetFollowupQueue(o, s)
  OBVIOUS
<1>2. PICK p \in Queues, r \in BOOLEAN : Puts(m, q, o, p, r)
  BY <1>1, EnqueueForms
<1>3. WellFormed(p) /\ p.drain = q.drain /\ Become(AfterEnqueue([obj EXCEPT ![o] = p], o, r))
  BY <1>2 DEF Puts
<1>4. PICK objects : objects = [obj EXCEPT ![o] = p]
  OBVIOUS
<1>5. Replaced(obj, objects, o, p) /\ WellFormedAll(objects)
  BY <1>3, <1>4, ReplaceOne
<1>6. CASE r \/ ~IsRunActive
  <2>1. obj' = Schedule(objects, o).obj /\ current' = Schedule(objects, o).current
    BY <1>3, <1>4, <1>6 DEF AfterEnqueue, Become
  <2> QED BY <1>5, <2>1, ScheduleAttends DEF Attended, Drained
<1>7. CASE ~r /\ IsRunActive
  <2>1. obj' = objects /\ current' = o /\ UNCHANGED <<mainActive, embedded>>
    BY <1>3, <1>4, <1>7 DEF AfterEnqueue, Become, Enqueue
  <2>2. CASE mainActive \/ embedded
    BY <2>1, <2>2 DEF Attended, Drained
  <2>3. ASSUME NEW x \in Objects, Running(obj[x]) PROVE Attended'
    <3>1. draining(obj[x])
      BY <2>3, DrainKinds DEF Running, draining
    <3>2. CASE x # o
      BY <1>5, <2>1, <3>1, <3>2 DEF Replaced, Attended, Drained, draining
    <3>3. CASE x = o
      <4>1. current # NoObject
        BY <3>1, <3>3 DEF Enqueue, SlotFor
      <4>2. q.drain = obj[o].drain
        BY <1>1, <4>1 DEF GetFollowupQueue, WellFormedAll, WellFormed, Queues
      <4>3. objects[o].drain = obj[o].drain
        BY <1>3, <1>5, <4>2 DEF Replaced
      <4> QED BY <2>1, <3>1, <3>3, <4>3 DEF Attended, Drained, draining
    <3> QED BY <3>2, <3>3
  <2> QED BY <1>7, <2>2, <2>3 DEF IsRunActive
<1> QED BY <1>6, <1>7

(* A drain step either leaves its drain going on or ends it properly. *)
LEMMA DrainAttends ==
  ASSUME IInv, NEW o \in Objects, DrainStep(o) \/ RunFails(o) PROVE Attended'
<1> USE InvObjects
<1>1. PICK q \in Queues : DrainsTo(o, q)
  BY DrainForms
<1>2. PICK objects : objects = [obj EXCEPT ![o] = q]
  OBVIOUS
<1>3. WellFormedAll(objects) /\ current \in Objects \cup {NoObject}
  BY <1>1, <1>2, DrainLeaves DEF RestOK
<1>4. CASE Become(Finally(objects, o))
  BY <1>3, <1>4, FinallyAttends
<1>5. ASSUME NEW d \in Drains, d.kind # "idle", obj'[o].drain = d PROVE Attended'
  BY <1>5, DrainKinds DEF Attended, Drained, draining
<1> QED BY <1>1, <1>2, <1>4, <1>5, DrainLeaves

(* Each step but the end of an embedded run keeps the queue attended. *)
LEMMA AttendStep ==
  ASSUME IInv, Attended, [Next]_vars PROVE Attended' \/ EndEmbedded
<1> USE InvObjects
<1>1. CASE EndMain
  <2>1. current \in Objects \cup {NoObject}
    BY DEF RestOK
  <2> QED BY <1>1, <2>1, ScheduleAttends DEF EndMain, Become, Attended, Drained
<1>2. CASE \/ StartMain \/ StartEmbedded \/ (\E m \in Messages : ForgetMessageId(m))
           \/ UNCHANGED vars
  BY <1>2 DEF StartMain, StartEmbedded, ForgetMessageId, vars, Attended, Drained
<1>3. CASE ClearFollowupQueue
  BY <1>3 DEF ClearFollowupQueue, Attended
<1> QED BY <1>1, <1>2, <1>3, DrainAttends, EnqueueAttends DEF Next

(* A queue is left with messages and nobody to drain it only by the end of  *)
(* an embedded run, whoever enqueues, whatever run ends, fails or is        *)
(* cleared meanwhile: for any settings and any number of messages, objects  *)
(* and clears.                                                              *)
THEOREM OnlyEmbeddedRunsStrand == Spec => LeftOnlyByEmbeddedRun
<1>1. IInv /\ [Next]_vars => [Attended => Attended' \/ EndEmbedded]_vars
  BY AttendStep
<1> QED BY <1>1, Invariant, PTL DEF Spec, LeftOnlyByEmbeddedRun

=============================================================================
