------------------------- MODULE CommandQueueProofs -------------------------
(***************************************************************************)
(* Theorems about CommandQueue, for every set of lanes, commands and       *)
(* waiters and every bound, and about AgentRunLanes, its user, for every   *)
(* set of runs and sessions.  Everything up to the part about agent runs   *)
(* speaks of CommandQueue alone and cites no assumption of AgentRunLanes.  *)
(***************************************************************************)
EXTENDS AgentRunLanes, FiniteSetTheorems, SequenceTheorems, TLAPS

-----------------------------------------------------------------------------
(* Sequences seen through the set of their elements *)

(* What pushing on top of a sequence (a call) does to its elements. *)
LEMMA PushProperties ==
  ASSUME NEW S, NEW s \in Seq(S), NEW f \in S
  PROVE  /\ <<f>> \o s \in Seq(S)
         /\ <<f>> \o s # <<>>
         /\ Range(<<f>> \o s) = {f} \cup Range(s)
<1> DEFINE t == <<f>> \o s
<1>1. /\ t \in Seq(S)
      /\ Len(t) = 1 + Len(s)
      /\ t[1] = f
      /\ \A i \in 1..Len(s) : t[i + 1] = s[i]
  OBVIOUS
<1>2. DOMAIN t = 1..Len(s) + 1 /\ DOMAIN s = 1..Len(s) /\ Len(s) \in Nat
  BY <1>1
<1>3. Range(t) \subseteq {f} \cup Range(s)
  BY <1>1, <1>2 DEF Range
<1>4. {f} \cup Range(s) \subseteq Range(t)
  <2>1. f \in Range(t)
    BY <1>1, <1>2 DEF Range
  <2>2. ASSUME NEW i \in 1..Len(s) PROVE s[i] \in Range(t)
    <3>1. i + 1 \in DOMAIN t /\ t[i + 1] = s[i]
      BY <1>1, <1>2
    <3> QED BY <3>1 DEF Range
  <2> QED BY <1>2, <2>1, <2>2 DEF Range
<1>5. t # <<>>
  BY <1>1, <1>2
<1> QED BY <1>1, <1>3, <1>4, <1>5

(* What popping the head of a sequence (a return) does to its elements. *)
LEMMA PopProperties ==
  ASSUME NEW S, NEW s \in Seq(S), s # <<>>
  PROVE  /\ Head(s) \in S
         /\ Tail(s) \in Seq(S)
         /\ Range(s) = {Head(s)} \cup Range(Tail(s))
<1>1. /\ Head(s) \in S
      /\ Tail(s) \in Seq(S)
      /\ Len(s) \in Nat \ {0}
      /\ Len(Tail(s)) = Len(s) - 1
      /\ Head(s) = s[1]
      /\ \A i \in 1..Len(s) - 1 : Tail(s)[i] = s[i + 1]
  BY EmptySeq
<1>2. DOMAIN s = 1..Len(s) /\ DOMAIN Tail(s) = 1..Len(s) - 1
  BY <1>1
<1>3. ASSUME NEW i \in 1..Len(s) PROVE s[i] \in {Head(s)} \cup Range(Tail(s))
  <2>1. CASE i = 1
    BY <1>1, <2>1
  <2>2. CASE i # 1
    <3>1. i - 1 \in DOMAIN Tail(s) /\ Tail(s)[i - 1] = s[i]
      BY <1>1, <1>2, <2>2
    <3> QED BY <3>1 DEF Range
  <2> QED BY <2>1, <2>2
<1>4. ASSUME NEW i \in 1..Len(s) - 1 PROVE Tail(s)[i] \in Range(s)
  <2>1. i + 1 \in DOMAIN s /\ Tail(s)[i] = s[i + 1]
    BY <1>1, <1>2
  <2> QED BY <2>1 DEF Range
<1>5. Head(s) \in Range(s)
  BY <1>1, <1>2 DEF Range
<1> QED BY <1>1, <1>2, <1>3, <1>4, <1>5 DEF Range

(* What appending to a queue does to its elements. *)
LEMMA AppendRange ==
  ASSUME NEW S, NEW s \in Seq(S), NEW e \in S
  PROVE  /\ Append(s, e) \in Seq(S)
         /\ Append(s, e) # <<>>
         /\ Range(Append(s, e)) = {e} \cup Range(s)
<1> DEFINE t == Append(s, e)
<1>1. /\ t \in Seq(S)
      /\ Len(s) \in Nat
      /\ DOMAIN t = 1..Len(s) + 1
      /\ DOMAIN s = 1..Len(s)
      /\ t[Len(s) + 1] = e
      /\ \A i \in 1..Len(s) : t[i] = s[i]
  OBVIOUS
<1>2. Range(t) \subseteq {e} \cup Range(s)
  BY <1>1 DEF Range
<1>3. {e} \cup Range(s) \subseteq Range(t)
  BY <1>1 DEF Range
<1>4. t # <<>>
  BY <1>1
<1> QED BY <1>1, <1>2, <1>3, <1>4

(* The frames the actions push are frames. *)
LEMMA FrameTypes ==
  /\ \A l \in Lanes : Drain(l) \in Frame /\ Pump(l) \in Frame
  /\ \A e \in Entries : Task(e) \in Frame
  /\ \A ls \in SUBSET Lanes : Reset(ls) \in Frame
BY DEF Drain, Pump, Task, Reset, Frame, LaneFrame, TaskFrame, ResetFrame

(* resetAllLanes replaces its frame by two. *)
LEMMA PushTwoFrames ==
  \A s \in Seq(Frame) : \A f, g \in Frame :
    /\ <<f>> \o (<<g>> \o s) \in Seq(Frame)
    /\ Range(<<f>> \o (<<g>> \o s)) = {f, g} \cup Range(s)
<1>1. \A t \in Seq(Frame) : \A f \in Frame :
        <<f>> \o t \in Seq(Frame) /\ Range(<<f>> \o t) = {f} \cup Range(t)
  BY PushProperties
<1> SUFFICES ASSUME NEW s \in Seq(Frame), NEW f \in Frame, NEW g \in Frame
             PROVE  /\ <<f>> \o (<<g>> \o s) \in Seq(Frame)
                    /\ Range(<<f>> \o (<<g>> \o s)) = {f, g} \cup Range(s)
  OBVIOUS
<1>2. <<g>> \o s \in Seq(Frame) /\ Range(<<g>> \o s) = {g} \cup Range(s)
  BY <1>1
<1>3. /\ <<f>> \o (<<g>> \o s) \in Seq(Frame)
      /\ Range(<<f>> \o (<<g>> \o s)) = {f} \cup Range(<<g>> \o s)
  BY <1>1, <1>2, Zenon
<1> QED BY <1>2, <1>3, Zenon

-----------------------------------------------------------------------------
(* Type correctness *)

(* A step of the specification keeps the type invariant. *)
LEMMA TypeStep == TypeOK /\ [Next]_vars => TypeOK'
<1> SUFFICES ASSUME TypeOK, [Next]_vars PROVE TypeOK'
  OBVIOUS
<1> USE LanesAssumption, BoundsAssumption, FrameTypes DEF TypeOK
<1>1. ASSUME NEW e \in Entries, Enqueue(e) PROVE TypeOK'
  <2>1. stack' \in Seq(Frame)
    BY <1>1, PushProperties DEF Enqueue, Call
  <2>2. queue' \in [Lanes -> Seq(Entries)]
    BY <1>1, AppendRange DEF Enqueue
  <2> QED BY <1>1, <2>1, <2>2 DEF Enqueue, Status, waiterVars
<1>2. ASSUME NEW e \in Entries, EnqueueRefused(e) PROVE TypeOK'
  BY <1>2 DEF EnqueueRefused, Status, Settled, laneVars, waiterVars
<1>3. ASSUME NEW l \in Lanes, ClearCommandLane(l) PROVE TypeOK'
  BY <1>3 DEF ClearCommandLane, Status, Settled, waiterVars
<1>4. ASSUME NEW l \in Lanes, NEW n \in 0..MaxLimit,
             SetCommandLaneConcurrency(l, n) PROVE TypeOK'
  <2>1. stack' \in Seq(Frame)
    BY <1>4, PushProperties DEF SetCommandLaneConcurrency, Call
  <2> QED BY <1>4, <2>1 DEF SetCommandLaneConcurrency, AtLeastOne, entryVars, waiterVars
<1>5. CASE MarkGatewayDraining
  BY <1>5 DEF MarkGatewayDraining, laneVars, entryVars, waiterVars
<1>6. CASE ResetAllLanes
  <2>1. stack' \in Seq(Frame)
    BY <1>6, PushProperties DEF ResetAllLanes, LanesToDrain, Call
  <2>2. generation' \in [Lanes -> 0..MaxGeneration]
    BY <1>6 DEF ResetAllLanes, NextGeneration
  <2>3. /\ activeTaskIds' \in [Lanes -> SUBSET Entries]
        /\ draining' \in [Lanes -> BOOLEAN]
    BY <1>6 DEF ResetAllLanes
  <2> QED BY <1>6, <2>1, <2>2, <2>3 DEF ResetAllLanes, entryVars, waiterVars
<1>7. ASSUME NEW w \in Waiters, NEW t \in {0, 1}, WaitForActiveTasks(w, t)
      PROVE TypeOK'
  BY <1>7 DEF WaitForActiveTasks, AllActive, WaiterStatus, laneVars, entryVars
<1>8. ASSUME NEW w \in Waiters, WaiterTimeout(w) PROVE TypeOK'
  BY <1>8 DEF WaiterTimeout, WaiterStatus, laneVars, entryVars
<1>9. ASSUME NEW l \in Lanes, DrainLane(l) PROVE TypeOK'
  <2>1. stack' \in Seq(Frame)
    <3>1. Tail(stack) \in Seq(Frame)
      BY <1>9, PopProperties DEF DrainLane, OnTop, Idle
    <3>2. <<Pump(l)>> \o Tail(stack) \in Seq(Frame)
      BY <3>1, PushProperties
    <3> QED BY <1>9, <3>1, <3>2 DEF DrainLane, Return, Goto
  <2> QED BY <1>9, <2>1 DEF DrainLane, entryVars, waiterVars
<1>10. ASSUME NEW l \in Lanes, PumpStart(l) PROVE TypeOK'
  <2>1. Head(queue[l]) \in Entries /\ Tail(queue[l]) \in Seq(Entries)
    BY <1>10, PopProperties DEF PumpStart, Runnable
  <2>2. stack' \in Seq(Frame)
    BY <1>10, <2>1, PushProperties DEF PumpStart, Call
  <2> QED BY <1>10, <2>1, <2>2 DEF PumpStart, Status, waiterVars
<1>11. ASSUME NEW l \in Lanes, PumpExit(l) PROVE TypeOK'
  <2>1. stack' \in Seq(Frame)
    BY <1>11, PopProperties DEF PumpExit, OnTop, Idle, Return
  <2> QED BY <1>11, <2>1 DEF PumpExit, entryVars, waiterVars
<1>12. ASSUME NEW e \in Entries, NEW outcome \in {"resolved", "rejected"},
              NEW callers \in Seq(Frame), CompleteTask(e, outcome, callers)
       PROVE TypeOK'
  <2>1. stack' \in Seq(Frame)
    <3>1. laneOf[e] \in Lanes
      OBVIOUS
    <3>2. <<Pump(laneOf[e])>> \o callers \in Seq(Frame)
      BY <3>1, PushProperties
    <3> QED BY <1>12, <3>2 DEF CompleteTask
  <2>2. waiterState' \in [Waiters -> WaiterStatus]
    BY <1>12 DEF CompleteTask, NotifyActiveTaskWaiters, WaiterStatus
  <2>3. status' \in [Entries -> Status]
    BY <1>12 DEF CompleteTask, Status, Settled
  <2>4. activeTaskIds' \in [Lanes -> SUBSET Entries]
    <3>1. CASE taskGeneration[e] = generation[laneOf[e]]
      <4>1. activeTaskIds' =
              [activeTaskIds EXCEPT ![laneOf[e]] = activeTaskIds[laneOf[e]] \ {e}]
        BY <1>12, <3>1 DEF CompleteTask
      <4> QED BY <4>1
    <3>2. CASE taskGeneration[e] # generation[laneOf[e]]
      BY <1>12, <3>2 DEF CompleteTask
    <3> QED BY <3>1, <3>2
  <2> QED BY <1>12, <2>1, <2>2, <2>3, <2>4 DEF CompleteTask
<1>13. ASSUME NEW e \in Entries, TaskAwaits(e) PROVE TypeOK'
  <2>1. stack' \in Seq(Frame)
    BY <1>13, PopProperties DEF TaskAwaits, OnTop, Idle, Return
  <2> QED BY <1>13, <2>1 DEF TaskAwaits, laneVars, entryVars, waiterVars
<1>14. ASSUME NEW e \in Entries, TaskThrows(e) PROVE TypeOK'
  <2>1. Tail(stack) \in Seq(Frame)
    BY <1>14, PopProperties DEF TaskThrows, OnTop, Idle
  <2> QED BY <1>12, <1>14, <2>1 DEF TaskThrows
<1>15. ASSUME NEW e \in Entries, Settle(e) PROVE TypeOK'
  BY <1>12, <1>15 DEF Settle, TaskSettles
<1>16. ASSUME NEW l \in Lanes, ResetDrainsLane(l) PROVE TypeOK'
  <2> DEFINE rest == Reset(Head(stack).lanes \ {l})
  <2>1. Head(stack) \in Frame /\ Tail(stack) \in Seq(Frame)
    BY <1>16, PopProperties DEF ResetDrainsLane, Idle
  <2>2. Head(stack).lanes \in SUBSET Lanes
    BY <1>16, <2>1 DEF ResetDrainsLane, Frame, LaneFrame, TaskFrame, ResetFrame
  <2>3. rest \in Frame
    BY <2>2
  <2>4. <<Drain(l)>> \o (<<rest>> \o Tail(stack)) \in Seq(Frame)
    BY <2>1, <2>3, PushTwoFrames, Zenon
  <2> QED BY <1>16, <2>4 DEF ResetDrainsLane, laneVars, entryVars, waiterVars
<1>17. CASE ResetEnds
  <2>1. stack' \in Seq(Frame)
    BY <1>17, PopProperties DEF ResetEnds, OnTop, Idle, Return
  <2> QED BY <1>17, <2>1 DEF ResetEnds, NotifyActiveTaskWaiters, WaiterStatus,
                             laneVars, entryVars
<1>18. CASE UNCHANGED vars
  BY <1>18 DEF vars
<1> QED
  BY <1>1, <1>2, <1>3, <1>4, <1>5, <1>6, <1>7, <1>8, <1>9, <1>10, <1>11, <1>13,
     <1>14, <1>15, <1>16, <1>17, <1>18 DEF Next, Operation, RunStack

(* Initial states are well typed. *)
LEMMA TypeInit == Init => TypeOK
<1> SUFFICES ASSUME Init PROVE TypeOK
  OBVIOUS
<1>1. /\ queue \in [Lanes -> Seq(Entries)]
      /\ stack \in Seq(Frame)
  BY EmptySeq DEF Init
<1>2. /\ maxConcurrent \in [Lanes -> 1..MaxLimit]
      /\ generation \in [Lanes -> 0..MaxGeneration]
      /\ taskGeneration \in [Entries -> 0..MaxGeneration]
  BY BoundsAssumption DEF Init
<1>3. /\ activeTaskIds \in [Lanes -> SUBSET Entries]
      /\ draining \in [Lanes -> BOOLEAN]
      /\ gatewayDraining \in BOOLEAN
      /\ status \in [Entries -> Status]
      /\ laneOf \in [Entries -> Lanes]
      /\ waiterState \in [Waiters -> WaiterStatus]
      /\ waitFor \in [Waiters -> SUBSET Entries]
  BY DEF Init, Status, WaiterStatus
<1> QED BY <1>1, <1>2, <1>3 DEF TypeOK

(* Every variable of the command queue keeps its type in every behaviour. *)
THEOREM TypeCorrect == Spec => []TypeOK
BY TypeInit, TypeStep, PTL DEF Spec

-----------------------------------------------------------------------------
(* No lane is left behind *)

(* A frame on the stack will run, or is running, pump() on the lane. *)
Covered(l) ==
  \/ Drain(l) \in FramesOnStack
  \/ Pump(l) \in FramesOnStack
  \/ \E f \in FramesOnStack : f.op = "reset" /\ l \in f.lanes

(* A raised draining flag always has a pump behind it to lower it. *)
DrainingHasPump ==
  \A l \in Lanes : draining[l] => Pump(l) \in FramesOnStack

(* WorkConserving made inductive: a lane that could start a command is      *)
(* covered, also in the middle of a turn.                                   *)
RunnableCovered == \A l \in Lanes : Runnable(l) => Covered(l)

CoverInv == TypeOK /\ DrainingHasPump /\ RunnableCovered

(* Frames of different kinds, or for different lanes, are different. *)
LEMMA FramesDiffer ==
  ASSUME NEW l, NEW k, NEW e, NEW ls
  PROVE  /\ Drain(l) # Pump(k) /\ Drain(l) # Task(e) /\ Pump(l) # Task(e)
         /\ Reset(ls) # Drain(l) /\ Reset(ls) # Pump(l) /\ Reset(ls) # Task(e)
         /\ Drain(l) = Drain(k) => l = k
         /\ Pump(l) = Pump(k) => l = k
         /\ Drain(l).op = "drain" /\ Pump(l).op = "pump"
         /\ Task(e).op = "task" /\ Reset(ls).op = "reset"
         /\ Reset(ls).lanes = ls
BY DEF Drain, Pump, Task, Reset

(* The frames after a call, a return and a return followed by a call. *)
LEMMA StackSteps ==
  ASSUME TypeOK
  PROVE  /\ \A f \in Frame : Call(f) => FramesOnStack' = {f} \cup FramesOnStack
         /\ \A f \in Frame : ~Idle /\ Goto(f) =>
              FramesOnStack' = {f} \cup Range(Tail(stack))
         /\ ~Idle /\ Return => FramesOnStack' = Range(Tail(stack))
         /\ ~Idle => FramesOnStack = {Head(stack)} \cup Range(Tail(stack))
<1>1. stack \in Seq(Frame)
  BY DEF TypeOK
<1>2. \A f \in Frame : Range(<<f>> \o stack) = {f} \cup Range(stack)
  BY <1>1, PushProperties
<1>3. ASSUME stack # <<>>
      PROVE /\ Tail(stack) \in Seq(Frame)
            /\ Range(stack) = {Head(stack)} \cup Range(Tail(stack))
  BY <1>1, <1>3, PopProperties
<1>4. ASSUME stack # <<>>
      PROVE \A f \in Frame :
              Range(<<f>> \o Tail(stack)) = {f} \cup Range(Tail(stack))
  BY <1>3, <1>4, PushProperties
<1> QED BY <1>2, <1>3, <1>4 DEF Call, Goto, Return, Idle, FramesOnStack

(* A step that keeps the frames and makes no other lane runnable, and that  *)
(* raises no flag, keeps the cover.                                         *)
LEMMA CoverKept ==
  ASSUME CoverInv,
         FramesOnStack \subseteq FramesOnStack',
         \A l \in Lanes : Runnable(l)' => Runnable(l) \/ Covered(l)',
         \A l \in Lanes : draining'[l] => draining[l] \/ Pump(l) \in FramesOnStack'
  PROVE  DrainingHasPump' /\ RunnableCovered'
<1>1. \A l \in Lanes : Covered(l) => Covered(l)'
  BY DEF Covered
<1> QED BY <1>1 DEF CoverInv, DrainingHasPump, RunnableCovered

(* Each step of the specification keeps the cover. *)
LEMMA CoverStep == CoverInv /\ [Next]_vars => CoverInv'
<1> SUFFICES ASSUME CoverInv, [Next]_vars PROVE CoverInv'
  OBVIOUS
<1>0. TypeOK /\ TypeOK' /\ DrainingHasPump /\ RunnableCovered
  BY TypeStep DEF CoverInv
<1> SUFFICES DrainingHasPump' /\ RunnableCovered'
  BY <1>0 DEF CoverInv
<1> USE <1>0, FrameTypes, FramesDiffer
<1>1. ASSUME NEW e \in Entries, Enqueue(e)
      PROVE DrainingHasPump' /\ RunnableCovered'
  <2>1. FramesOnStack' = {Drain(laneOf[e])} \cup FramesOnStack
    BY <1>1, StackSteps DEF Enqueue, TypeOK
  <2>2. \A l \in Lanes : Runnable(l)' => Runnable(l) \/ Covered(l)'
    <3> SUFFICES ASSUME NEW l \in Lanes, Runnable(l)'
                 PROVE Runnable(l) \/ Covered(l)'
      OBVIOUS
    <3>1. CASE l = laneOf[e]
      BY <2>1, <3>1 DEF Covered
    <3>2. CASE l # laneOf[e]
      BY <1>1, <3>2 DEF Enqueue, Runnable, TypeOK
    <3> QED BY <3>1, <3>2
  <2> QED BY <1>1, <2>1, <2>2, CoverKept DEF Enqueue
<1>2. ASSUME NEW e \in Entries, EnqueueRefused(e)
      PROVE DrainingHasPump' /\ RunnableCovered'
  BY <1>2, CoverKept DEF EnqueueRefused, laneVars, FramesOnStack, Runnable
<1>3. ASSUME NEW k \in Lanes, ClearCommandLane(k)
      PROVE DrainingHasPump' /\ RunnableCovered'
  <2>1. \A l \in Lanes : Runnable(l)' => Runnable(l)
    BY <1>3 DEF ClearCommandLane, Runnable, TypeOK
  <2> QED BY <1>3, <2>1, CoverKept DEF ClearCommandLane, FramesOnStack
<1>4. ASSUME NEW k \in Lanes, NEW n \in 0..MaxLimit, SetCommandLaneConcurrency(k, n)
      PROVE DrainingHasPump' /\ RunnableCovered'
  <2>1. FramesOnStack' = {Drain(k)} \cup FramesOnStack
    BY <1>4, StackSteps DEF SetCommandLaneConcurrency
  <2>2. Covered(k)'
    BY <2>1 DEF Covered
  <2>3. \A l \in Lanes \ {k} : Runnable(l)' => Runnable(l)
    BY <1>4 DEF SetCommandLaneConcurrency, Runnable, TypeOK
  <2> QED BY <1>4, <2>1, <2>2, <2>3, CoverKept DEF SetCommandLaneConcurrency
<1>5. CASE MarkGatewayDraining
  BY <1>5, CoverKept DEF MarkGatewayDraining, laneVars, FramesOnStack, Runnable
<1>6. CASE ResetAllLanes
  <2>1. LanesToDrain \in SUBSET Lanes
    BY DEF LanesToDrain
  <2>2. FramesOnStack' = {Reset(LanesToDrain)} \cup FramesOnStack
    BY <1>6, <2>1, StackSteps DEF ResetAllLanes
  <2>3. ASSUME NEW l \in Lanes, Runnable(l)' PROVE Covered(l)'
    <3>1. l \in LanesToDrain
      BY <1>6, <2>3 DEF ResetAllLanes, Runnable, LanesToDrain
    <3> QED BY <2>2, <3>1 DEF Covered
  <2> QED BY <1>6, <2>2, <2>3, CoverKept DEF ResetAllLanes
<1>7. ASSUME NEW w \in Waiters, NEW t \in {0, 1}, WaitForActiveTasks(w, t)
      PROVE DrainingHasPump' /\ RunnableCovered'
  BY <1>7, CoverKept DEF WaitForActiveTasks, laneVars, FramesOnStack, Runnable
<1>8. ASSUME NEW w \in Waiters, WaiterTimeout(w)
      PROVE DrainingHasPump' /\ RunnableCovered'
  BY <1>8, CoverKept DEF WaiterTimeout, laneVars, FramesOnStack, Runnable
<1>9. ASSUME NEW k \in Lanes, DrainLane(k)
      PROVE DrainingHasPump' /\ RunnableCovered'
  <2>1. FramesOnStack = {Drain(k)} \cup Range(Tail(stack)) /\ ~Idle
    BY <1>9, StackSteps DEF DrainLane, OnTop
  <2>2. \A l \in Lanes : Runnable(l)' = Runnable(l)
    BY <1>9 DEF DrainLane, Runnable
  <2>3. CASE draining[k]
    <3>1. FramesOnStack' = Range(Tail(stack)) /\ draining' = draining
      BY <1>9, <2>1, <2>3, StackSteps DEF DrainLane
    <3>2. \A l \in Lanes : Pump(l) \in FramesOnStack => Pump(l) \in FramesOnStack'
      BY <2>1, <3>1
    <3>3. Covered(k)'
      BY <2>3, <3>2 DEF Covered, DrainingHasPump
    <3>4. \A l \in Lanes : Covered(l) => Covered(l)'
      BY <2>1, <3>1, <3>3 DEF Covered
    <3> QED BY <2>2, <3>1, <3>2, <3>4 DEF DrainingHasPump, RunnableCovered
  <2>4. CASE ~draining[k]
    <3>1. FramesOnStack' = {Pump(k)} \cup Range(Tail(stack))
      BY <1>9, <2>1, <2>4, StackSteps DEF DrainLane
    <3>2. \A l \in Lanes : draining'[l] => l = k \/ draining[l]
      BY <1>9, <2>4 DEF DrainLane, TypeOK
    <3>3. DrainingHasPump'
      BY <2>1, <3>1, <3>2 DEF DrainingHasPump
    <3>4. \A l \in Lanes : Covered(l) => Covered(l)'
      BY <2>1, <3>1 DEF Covered
    <3> QED BY <2>2, <3>3, <3>4 DEF RunnableCovered
  <2> QED BY <2>3, <2>4
<1>10. ASSUME NEW k \in Lanes, PumpStart(k)
       PROVE DrainingHasPump' /\ RunnableCovered'
  <2>1. Head(queue[k]) \in Entries
    BY <1>10, PopProperties DEF PumpStart, Runnable, TypeOK
  <2>2. FramesOnStack' = {Task(Head(queue[k]))} \cup FramesOnStack
    BY <1>10, <2>1, StackSteps DEF PumpStart
  <2>3. Pump(k) \in FramesOnStack
    BY <1>10, StackSteps DEF PumpStart, OnTop
  <2>4. Covered(k)'
    BY <2>2, <2>3 DEF Covered
  <2>5. \A l \in Lanes \ {k} : Runnable(l)' => Runnable(l)
    BY <1>10 DEF PumpStart, Runnable, TypeOK
  <2> QED BY <1>10, <2>2, <2>4, <2>5, CoverKept DEF PumpStart
<1>11. ASSUME NEW k \in Lanes, PumpExit(k)
       PROVE DrainingHasPump' /\ RunnableCovered'
  <2>1. FramesOnStack = {Pump(k)} \cup Range(Tail(stack)) /\ ~Idle
    BY <1>11, StackSteps DEF PumpExit, OnTop
  <2>2. FramesOnStack' = Range(Tail(stack))
    BY <1>11, <2>1, StackSteps DEF PumpExit
  <2>3. \A l \in Lanes : draining'[l] => l # k /\ draining[l]
    BY <1>11 DEF PumpExit, TypeOK
  <2>4. DrainingHasPump'
    BY <2>1, <2>2, <2>3 DEF DrainingHasPump
  <2>5. \A l \in Lanes : Runnable(l)' => l # k /\ Runnable(l)
    BY <1>11 DEF PumpExit, Runnable
  <2>6. \A l \in Lanes \ {k} : Covered(l) => Covered(l)'
    BY <2>1, <2>2 DEF Covered
  <2> QED BY <2>4, <2>5, <2>6 DEF RunnableCovered
<1>12. ASSUME NEW e \in Entries, TaskAwaits(e)
       PROVE DrainingHasPump' /\ RunnableCovered'
  <2>1. FramesOnStack = {Task(e)} \cup Range(Tail(stack)) /\ ~Idle
    BY <1>12, StackSteps DEF TaskAwaits, OnTop
  <2>2. FramesOnStack' = Range(Tail(stack))
    BY <1>12, <2>1, StackSteps DEF TaskAwaits
  <2>3. DrainingHasPump'
    BY <1>12, <2>1, <2>2 DEF DrainingHasPump, TaskAwaits, laneVars
  <2>4. \A l \in Lanes : Covered(l) => Covered(l)'
    BY <2>1, <2>2 DEF Covered
  <2>5. \A l \in Lanes : Runnable(l)' => Runnable(l)
    BY <1>12 DEF TaskAwaits, laneVars, Runnable
  <2> QED BY <2>3, <2>4, <2>5 DEF RunnableCovered
<1>13. ASSUME NEW e \in Entries, NEW outcome, NEW callers \in Seq(Frame),
              CompleteTask(e, outcome, callers),
              \A f \in FramesOnStack : f # Task(e) => f \in Range(callers)
       PROVE DrainingHasPump' /\ RunnableCovered'
  <2>1. PICK k \in Lanes : k = laneOf[e]
    BY DEF TypeOK
  <2>2. draining' = draining
    BY <1>13 DEF CompleteTask
  <2>3. Range(callers) \subseteq FramesOnStack'
    <3>1. Range(<<Pump(k)>> \o callers) = {Pump(k)} \cup Range(callers)
      BY PushProperties
    <3> QED BY <1>13, <2>1, <3>1 DEF CompleteTask, FramesOnStack
  <2>4. DrainingHasPump'
    BY <1>13, <2>2, <2>3 DEF DrainingHasPump
  <2>5. \A l \in Lanes : Covered(l) => Covered(l)'
    BY <1>13, <2>3 DEF Covered
  <2>6. \A l \in Lanes : Runnable(l)' => Runnable(l) \/ Covered(l)'
    <3>1. CASE taskGeneration[e] = generation[k]
      <4>1. Range(<<Pump(k)>> \o callers) = {Pump(k)} \cup Range(callers)
        BY <2>1, PushProperties
      <4>2. Covered(k)'
        BY <1>13, <2>1, <3>1, <4>1 DEF CompleteTask, FramesOnStack, Covered
      <4>3. \A l \in Lanes \ {k} : Runnable(l)' => Runnable(l)
        BY <1>13, <2>1, <3>1 DEF CompleteTask, Runnable, TypeOK
      <4> QED BY <4>2, <4>3
    <3>2. CASE taskGeneration[e] # generation[k]
      BY <1>13, <2>1, <3>2 DEF CompleteTask, Runnable
    <3> QED BY <3>1, <3>2
  <2> QED BY <2>4, <2>5, <2>6 DEF RunnableCovered
<1>14. ASSUME NEW e \in Entries, TaskThrows(e)
       PROVE DrainingHasPump' /\ RunnableCovered'
  <2>1. FramesOnStack = {Task(e)} \cup Range(Tail(stack)) /\ stack # <<>>
    BY <1>14, StackSteps DEF TaskThrows, OnTop, Idle
  <2>2. Tail(stack) \in Seq(Frame)
    BY <2>1, PopProperties DEF TypeOK
  <2> QED BY <1>13, <1>14, <2>1, <2>2 DEF TaskThrows
<1>15. ASSUME NEW e \in Entries, Settle(e)
       PROVE DrainingHasPump' /\ RunnableCovered'
  BY <1>13, <1>15 DEF Settle, TaskSettles, FramesOnStack, TypeOK
<1>16. ASSUME NEW k \in Lanes, ResetDrainsLane(k)
       PROVE DrainingHasPump' /\ RunnableCovered'
  <2>1. /\ stack \in Seq(Frame) /\ stack # <<>>
        /\ FramesOnStack = {Head(stack)} \cup Range(Tail(stack))
    BY <1>16, StackSteps DEF ResetDrainsLane, Idle, TypeOK
  <2>2. Head(stack) \in Frame /\ Tail(stack) \in Seq(Frame)
    BY <2>1, PopProperties
  <2>3. Head(stack).op = "reset" /\ Head(stack).lanes \in SUBSET Lanes
    BY <1>16, <2>2 DEF ResetDrainsLane, Frame, LaneFrame, TaskFrame, ResetFrame
  <2>4. PICK rest \in Frame : rest = Reset(Head(stack).lanes \ {k})
    BY <2>3
  <2>5. stack' = <<Drain(k)>> \o (<<rest>> \o Tail(stack))
    BY <1>16, <2>4 DEF ResetDrainsLane
  <2>7. FramesOnStack' = {Drain(k), rest} \cup Range(Tail(stack))
    <3>1. Range(<<Drain(k)>> \o (<<rest>> \o Tail(stack)))
            = {Drain(k), rest} \cup Range(Tail(stack))
      BY <2>2, PushTwoFrames, Zenon
    <3> QED BY <2>5, <3>1, Zenon DEF FramesOnStack
  <2>8. \A l \in Lanes : Covered(l) => Covered(l)'
    BY <2>1, <2>3, <2>4, <2>7 DEF Covered
  <2>9. \A l \in Lanes : Pump(l) # Head(stack)
    BY <2>3
  <2>10. DrainingHasPump'
    BY <1>16, <2>1, <2>7, <2>9 DEF DrainingHasPump, ResetDrainsLane, laneVars
  <2>11. \A l \in Lanes : Runnable(l)' => Runnable(l)
    BY <1>16 DEF ResetDrainsLane, laneVars, Runnable
  <2> QED BY <2>8, <2>10, <2>11 DEF RunnableCovered
<1>17. CASE ResetEnds
  <2>1. FramesOnStack = {Reset({})} \cup Range(Tail(stack)) /\ ~Idle
    BY <1>17, StackSteps DEF ResetEnds, OnTop
  <2>2. FramesOnStack' = Range(Tail(stack))
    BY <1>17, <2>1, StackSteps DEF ResetEnds
  <2>3. DrainingHasPump'
    BY <1>17, <2>1, <2>2 DEF DrainingHasPump, ResetEnds, laneVars
  <2>4. \A l \in Lanes : Covered(l) => Covered(l)'
    BY <2>1, <2>2 DEF Covered
  <2>5. \A l \in Lanes : Runnable(l)' => Runnable(l)
    BY <1>17 DEF ResetEnds, laneVars, Runnable
  <2> QED BY <2>3, <2>4, <2>5 DEF RunnableCovered
<1>18. CASE UNCHANGED vars
  BY <1>18, CoverKept DEF vars, FramesOnStack, Runnable
<1> QED
  BY <1>1, <1>2, <1>3, <1>4, <1>5, <1>6, <1>7, <1>8, <1>9, <1>10, <1>11, <1>12,
     <1>14, <1>15, <1>16, <1>17, <1>18 DEF Next, Operation, RunStack

(* Nothing is queued and no lane is marked at the start. *)
LEMMA CoverInit == Init => CoverInv
<1> SUFFICES ASSUME Init PROVE CoverInv
  OBVIOUS
<1>1. TypeOK
  BY TypeInit
<1>2. DrainingHasPump
  BY DEF Init, DrainingHasPump
<1>3. RunnableCovered
  BY DEF Init, RunnableCovered, Runnable
<1> QED BY <1>1, <1>2, <1>3 DEF CoverInv

(* Between turns of the event loop no lane has both a free slot and a       *)
(* queued command, for any number of lanes, commands, limits and restarts.  *)
THEOREM LanesWorkConserving == Spec => []WorkConserving
<1>1. CoverInv => WorkConserving
  <2> SUFFICES ASSUME CoverInv, Idle, NEW l \in Lanes PROVE ~Runnable(l)
    BY DEF WorkConserving
  <2>1. FramesOnStack = {}
    BY DEF Idle, FramesOnStack, Range
  <2> QED BY <2>1 DEF CoverInv, RunnableCovered, Covered
<1> QED BY <1>1, CoverInit, CoverStep, PTL DEF Spec

(* The draining flag of a lane is raised only while a pump that will lower  *)
(* it is on the stack, so it never outlives the turn that raised it.        *)
THEOREM FlagHasPump == Spec => []DrainingHasPump
<1>1. CoverInv => DrainingHasPump
  BY DEF CoverInv
<1> QED BY <1>1, CoverInit, CoverStep, PTL DEF Spec

-----------------------------------------------------------------------------
(* The lanes are consistent *)

(* No task is on a stack twice. *)
TasksOnce(s) == \A i, j \in DOMAIN s : s[i].op = "task" /\ s[i] = s[j] => i = j

(* A task on the stack has not ended, so that it can only end once. *)
TasksOnStackRun ==
  /\ TasksOnce(stack)
  /\ \A e \in Entries : Task(e) \in FramesOnStack => status[e] = "running"

(* No task is of a generation that is still to come. *)
GenerationsPast == \A e \in Entries : taskGeneration[e] <= generation[laneOf[e]]

LaneInv == LanesConsistent /\ TasksOnStackRun /\ GenerationsPast

(* A frame pushed on top, unless it is a task that is there already. *)
LEMMA PushTask ==
  ASSUME NEW s \in Seq(Frame), NEW f \in Frame, TasksOnce(s),
         f.op = "task" => f \notin Range(s)
  PROVE  TasksOnce(<<f>> \o s)
<1> DEFINE t == <<f>> \o s
<1>1. /\ Len(s) \in Nat /\ DOMAIN s = 1..Len(s) /\ DOMAIN t = 1..Len(s) + 1
      /\ t[1] = f /\ \A i \in 1..Len(s) : t[i + 1] = s[i]
  OBVIOUS
<1> HIDE DEF t
<1>2. ASSUME NEW i \in DOMAIN t, i # 1
      PROVE  i - 1 \in DOMAIN s /\ t[i] = s[i - 1] /\ s[i - 1] \in Range(s)
  <2>1. i - 1 \in 1..Len(s) /\ i = (i - 1) + 1
    BY <1>1, <1>2
  <2> QED BY <1>1, <2>1 DEF Range
<1> SUFFICES ASSUME NEW i \in DOMAIN t, NEW j \in DOMAIN t, t[i].op = "task", t[i] = t[j]
             PROVE  i = j
  BY DEF TasksOnce, t
<1>3. CASE i = 1 \/ j = 1
  BY <1>1, <1>2, <1>3
<1>4. CASE i # 1 /\ j # 1
  <2>1. i - 1 = j - 1
    BY <1>2, <1>4 DEF TasksOnce
  <2> QED BY <1>1, <2>1
<1> QED BY <1>3, <1>4

(* The frame popped from the top. *)
LEMMA PopTask ==
  ASSUME NEW s \in Seq(Frame), s # <<>>, TasksOnce(s)
  PROVE  /\ TasksOnce(Tail(s))
         /\ Head(s).op = "task" => Head(s) \notin Range(Tail(s))
<1> DEFINE t == Tail(s)
<1>1. /\ Len(s) \in Nat \ {0} /\ DOMAIN s = 1..Len(s) /\ DOMAIN t = 1..Len(s) - 1
      /\ Head(s) = s[1] /\ \A i \in 1..Len(s) - 1 : t[i] = s[i + 1]
  BY EmptySeq
<1> HIDE DEF t
<1>2. \A i \in DOMAIN t : i + 1 \in DOMAIN s /\ t[i] = s[i + 1] /\ i \in Nat /\ i # 0
  BY <1>1
<1>3. TasksOnce(t)
  BY <1>2 DEF TasksOnce
<1>4. ASSUME Head(s).op = "task" PROVE Head(s) \notin Range(t)
  <2> SUFFICES ASSUME NEW i \in DOMAIN t, t[i] = s[1] PROVE FALSE
    BY <1>1 DEF Range
  <2>1. 1 \in DOMAIN s /\ s[1].op = "task"
    BY <1>1, <1>4
  <2>2. i + 1 = 1
    BY <1>2, <2>1 DEF TasksOnce
  <2> QED BY <1>2, <2>2
<1> QED BY <1>3, <1>4 DEF t

(* No command is in a queue twice. *)
Distinct(s) == \A i, j \in DOMAIN s : s[i] = s[j] => i = j

(* A queue that an entry is pushed to, unless it is there already. *)
LEMMA AppendDistinct ==
  ASSUME NEW s \in Seq(Entries), NEW e \in Entries \ Range(s), Distinct(s)
  PROVE  Distinct(Append(s, e))
<1>1. /\ Len(s) \in Nat /\ DOMAIN s = 1..Len(s) /\ DOMAIN Append(s, e) = 1..Len(s) + 1
      /\ Append(s, e)[Len(s) + 1] = e /\ \A i \in 1..Len(s) : Append(s, e)[i] = s[i]
  OBVIOUS
<1>2. \A i \in DOMAIN s : s[i] # e
  BY DEF Range
<1> QED BY <1>1, <1>2 DEF Distinct

(* A queue whose head is started. *)
LEMMA TailDistinct ==
  ASSUME NEW s \in Seq(Entries), s # <<>>, Distinct(s)
  PROVE  Distinct(Tail(s)) /\ Head(s) \notin Range(Tail(s))
<1> DEFINE t == Tail(s)
<1>1. /\ Len(s) \in Nat \ {0} /\ DOMAIN s = 1..Len(s) /\ DOMAIN t = 1..Len(s) - 1
      /\ Head(s) = s[1] /\ \A i \in 1..Len(s) - 1 : t[i] = s[i + 1]
  BY EmptySeq
<1> HIDE DEF t
<1>2. \A i \in DOMAIN t : i + 1 \in DOMAIN s /\ t[i] = s[i + 1] /\ i \in Nat /\ i # 0
  BY <1>1
<1>3. Distinct(t)
  BY <1>2 DEF Distinct
<1>4. Head(s) \notin Range(t)
  <2> SUFFICES ASSUME NEW i \in DOMAIN t, t[i] = s[1] PROVE FALSE
    BY <1>1 DEF Range
  <2>1. 1 \in DOMAIN s
    BY <1>1
  <2>2. i + 1 = 1
    BY <1>2, <2>1 DEF Distinct
  <2> QED BY <1>2, <2>2
<1> QED BY <1>3, <1>4 DEF t

(* The stack after the steps that start no task. *)
LEMMA StackKeepsTasks ==
  ASSUME TypeOK, TasksOnce(stack)
  PROVE  /\ \A f \in Frame : f.op # "task" /\ Call(f) => TasksOnce(stack')
         /\ \A f \in Frame : f.op # "task" /\ ~Idle /\ Goto(f) => TasksOnce(stack')
         /\ ~Idle /\ Return => TasksOnce(stack')
<1>1. stack \in Seq(Frame)
  BY DEF TypeOK
<1>2. \A s \in Seq(Frame) : \A f \in Frame :
        f.op # "task" /\ TasksOnce(s) => TasksOnce(<<f>> \o s)
  BY PushTask
<1>3. ~Idle => Tail(stack) \in Seq(Frame) /\ TasksOnce(Tail(stack))
  BY <1>1, PopProperties, PopTask DEF Idle
<1> QED BY <1>1, <1>2, <1>3 DEF Call, Goto, Return

(* Only entries are queued. *)
LEMMA QueuedAreEntries ==
  ASSUME TypeOK PROVE \A l \in Lanes : InQueue(l) \subseteq Entries
<1>1. \A s \in Seq(Entries) : \A i \in DOMAIN s : s[i] \in Entries
  OBVIOUS
<1> QED BY <1>1 DEF InQueue, Range, TypeOK

(* A step that starts and ends no command. *)
LEMMA LaneKept ==
  ASSUME LaneInv, TypeOK', UNCHANGED <<queue, activeTaskIds, generation, entryVars>>,
         TasksOnce(stack'),
         \A e \in Entries : Task(e) \in FramesOnStack' => Task(e) \in FramesOnStack
  PROVE  LaneInv'
<1>1. QueuesHoldPending'
  BY DEF LaneInv, LanesConsistent, QueuesHoldPending, InQueue, entryVars
<1>2. ActiveAreRunning'
  BY DEF LaneInv, LanesConsistent, ActiveAreRunning, entryVars
<1>3. TasksOnStackRun'
  BY DEF LaneInv, TasksOnStackRun, entryVars
<1>4. GenerationsPast'
  BY DEF LaneInv, GenerationsPast, entryVars
<1> QED BY <1>1, <1>2, <1>3, <1>4 DEF LaneInv, LanesConsistent

LEMMA EnqueueKeepsLanes ==
  ASSUME LaneInv, TypeOK', NEW e \in Entries, Enqueue(e) PROVE LaneInv'
<1> DEFINE k == laneOf[e]
<1>1. /\ TypeOK /\ QueuesHoldPending /\ ActiveAreRunning /\ TasksOnStackRun
      /\ GenerationsPast /\ k \in Lanes /\ queue[k] \in Seq(Entries)
  BY DEF LaneInv, LanesConsistent, TypeOK
<1>2. e \notin InQueue(k)
  BY <1>1 DEF Enqueue, QueuesHoldPending
<1>3. /\ Distinct(queue'[k]) /\ Range(queue'[k]) = {e} \cup Range(queue[k])
      /\ \A l \in Lanes \ {k} : queue'[l] = queue[l]
  <2>1. queue'[k] = Append(queue[k], e) /\ \A l \in Lanes \ {k} : queue'[l] = queue[l]
    BY <1>1 DEF Enqueue, TypeOK
  <2>2. Distinct(queue[k])
    BY <1>1 DEF QueuesHoldPending, Distinct
  <2> QED BY <1>1, <1>2, <2>1, <2>2, AppendDistinct, AppendRange DEF InQueue
<1>4. /\ laneOf' = laneOf /\ status'[e] = "queued"
      /\ \A f \in Entries \ {e} : status'[f] = status[f]
  BY <1>1 DEF Enqueue, TypeOK
<1>5. QueuesHoldPending'
  <2>1. \A l \in Lanes : Distinct(queue'[l])
    BY <1>1, <1>3 DEF QueuesHoldPending, Distinct
  <2>2. \A l \in Lanes : \A f \in InQueue(l)' : status'[f] = "queued" /\ laneOf'[f] = l
    <3> SUFFICES ASSUME NEW l \in Lanes, NEW f \in InQueue(l)'
                 PROVE  status'[f] = "queued" /\ laneOf'[f] = l
      OBVIOUS
    <3>1. CASE f \in InQueue(l)
      <4>1. f \in Entries /\ f # e
        BY <1>1, <3>1, QueuedAreEntries DEF QueuesHoldPending, Enqueue
      <4> QED BY <1>1, <1>4, <3>1, <4>1 DEF QueuesHoldPending
    <3>2. CASE f \notin InQueue(l)
      BY <1>3, <1>4, <3>2 DEF InQueue
    <3> QED BY <3>1, <3>2
  <2>3. \A f \in Entries : status'[f] = "queued" => f \in InQueue(laneOf[f])'
    BY <1>1, <1>3, <1>4 DEF QueuesHoldPending, InQueue, TypeOK
  <2> QED BY <1>4, <2>1, <2>2, <2>3 DEF QueuesHoldPending, Distinct
<1>6. ActiveAreRunning'
  BY <1>1, <1>4 DEF Enqueue, ActiveAreRunning
<1>7. TasksOnStackRun'
  <2>1. FramesOnStack' = {Drain(k)} \cup FramesOnStack
    BY <1>1, StackSteps, FrameTypes DEF Enqueue
  <2>2. TasksOnce(stack')
    BY <1>1, StackKeepsTasks, FrameTypes, FramesDiffer DEF Enqueue, TasksOnStackRun
  <2> QED BY <1>1, <1>4, <2>1, <2>2, FramesDiffer DEF Enqueue, TasksOnStackRun
<1>8. GenerationsPast'
  BY <1>1 DEF Enqueue, GenerationsPast
<1> QED BY <1>5, <1>6, <1>7, <1>8 DEF LaneInv, LanesConsistent

LEMMA RefusalKeepsLanes ==
  ASSUME LaneInv, TypeOK', NEW e \in Entries, EnqueueRefused(e) PROVE LaneInv'
<1>1. /\ status[e] = "new" /\ status'[e] = "refused" /\ laneOf' = laneOf
      /\ UNCHANGED <<queue, activeTaskIds, generation, taskGeneration, stack>>
      /\ \A f \in Entries \ {e} : status'[f] = status[f]
  BY DEF EnqueueRefused, laneVars, LaneInv, LanesConsistent, TypeOK
<1>2. QueuesHoldPending'
  <2>1. TypeOK /\ QueuesHoldPending /\ \A l \in Lanes : InQueue(l)' = InQueue(l)
    BY <1>1 DEF LaneInv, LanesConsistent, InQueue
  <2>2. \A l \in Lanes : \A f \in InQueue(l) : f \in Entries /\ f # e
    BY <1>1, <2>1, QueuedAreEntries DEF QueuesHoldPending
  <2>3. \A f \in Entries : status'[f] = "queued" => f \in InQueue(laneOf[f])'
    BY <1>1, <2>1 DEF QueuesHoldPending, TypeOK
  <2> QED BY <1>1, <2>1, <2>2, <2>3 DEF QueuesHoldPending
<1>3. ActiveAreRunning'
  BY <1>1 DEF LaneInv, LanesConsistent, ActiveAreRunning
<1>4. TasksOnStackRun'
  BY <1>1 DEF LaneInv, TasksOnStackRun, FramesOnStack
<1>5. GenerationsPast'
  BY <1>1 DEF LaneInv, GenerationsPast
<1> QED BY <1>2, <1>3, <1>4, <1>5 DEF LaneInv, LanesConsistent

LEMMA ClearKeepsLanes ==
  ASSUME LaneInv, TypeOK', NEW k \in Lanes, ClearCommandLane(k) PROVE LaneInv'
<1>1. /\ TypeOK /\ QueuesHoldPending /\ ActiveAreRunning /\ TasksOnStackRun /\ GenerationsPast
      /\ UNCHANGED <<laneOf, activeTaskIds, generation, taskGeneration, stack>>
  BY DEF ClearCommandLane, LaneInv, LanesConsistent
<1>2. \A f \in Entries : /\ f \in InQueue(k) => status'[f] = "cleared"
                         /\ f \notin InQueue(k) => status'[f] = status[f]
  BY DEF ClearCommandLane
<1>3. /\ queue'[k] = <<>> /\ InQueue(k)' = {}
      /\ \A l \in Lanes \ {k} : queue'[l] = queue[l] /\ InQueue(l)' = InQueue(l)
  BY <1>1 DEF ClearCommandLane, TypeOK, InQueue, Range
<1>4. \A l \in Lanes : InQueue(l) \subseteq Entries
  BY <1>1 DEF InQueue, Range, TypeOK
<1>5. QueuesHoldPending'
  <2>1. \A l \in Lanes : \A i, j \in DOMAIN queue'[l] : queue'[l][i] = queue'[l][j] => i = j
    BY <1>1, <1>3 DEF QueuesHoldPending
  <2>2. \A l \in Lanes : \A f \in InQueue(l)' : status'[f] = "queued" /\ laneOf'[f] = l
    BY <1>1, <1>2, <1>3, <1>4 DEF QueuesHoldPending
  <2>3. \A f \in Entries : status'[f] = "queued" => f \in InQueue(laneOf[f])'
    <3> SUFFICES ASSUME NEW f \in Entries, status'[f] = "queued"
                 PROVE  f \in InQueue(laneOf[f])'
      OBVIOUS
    <3>1. f \notin InQueue(k) /\ status[f] = "queued"
      BY <1>2
    <3>2. f \in InQueue(laneOf[f]) /\ laneOf[f] \in Lanes \ {k}
      BY <1>1, <3>1 DEF QueuesHoldPending, TypeOK
    <3> QED BY <1>1, <1>3, <3>2
  <2> QED BY <1>1, <2>1, <2>2, <2>3 DEF QueuesHoldPending
<1>6. \A f \in Entries : status'[f] = "running" <=> status[f] = "running"
  BY <1>1, <1>2 DEF QueuesHoldPending
<1>7. ActiveAreRunning'
  BY <1>1, <1>6 DEF ActiveAreRunning
<1>8. TasksOnStackRun'
  BY <1>1, <1>6 DEF TasksOnStackRun, FramesOnStack
<1>9. GenerationsPast'
  BY <1>1 DEF GenerationsPast
<1> QED BY <1>5, <1>7, <1>8, <1>9 DEF LaneInv, LanesConsistent

(* After resetAllLanes every running task is of an earlier generation. *)
LEMMA ResetKeepsLanes ==
  ASSUME LaneInv, TypeOK', ResetAllLanes PROVE LaneInv'
<1>1. /\ TypeOK /\ QueuesHoldPending /\ TasksOnStackRun /\ GenerationsPast
      /\ UNCHANGED <<queue, status, laneOf, taskGeneration>>
  BY DEF ResetAllLanes, LaneInv, LanesConsistent, entryVars
<1>2. \A e \in Entries : taskGeneration[e] < generation'[laneOf[e]]
  <2> TAKE e \in Entries
  <2>1. generation'[laneOf[e]] = generation[laneOf[e]] + 1
    BY <1>1 DEF ResetAllLanes, NextGeneration, TypeOK
  <2>2. taskGeneration[e] \in Nat /\ generation[laneOf[e]] \in Nat
    BY <1>1, BoundsAssumption DEF TypeOK
  <2> QED BY <1>1, <2>1, <2>2 DEF GenerationsPast
<1>3. QueuesHoldPending'
  BY <1>1 DEF QueuesHoldPending, InQueue
<1>4. taskGeneration' \in [Entries -> Nat] /\ generation' \in [Lanes -> Nat]
  BY BoundsAssumption DEF TypeOK
<1>5. ActiveAreRunning'
  <2> SUFFICES ASSUME NEW l \in Lanes, NEW e \in Entries, laneOf'[e] = l,
                      taskGeneration'[e] = generation'[l]
               PROVE  FALSE
    BY DEF ActiveAreRunning, ResetAllLanes
  <2>1. taskGeneration[e] < generation'[l] /\ taskGeneration[e] = generation'[l]
    BY <1>1, <1>2
  <2> QED BY <1>4, <2>1
<1>6. TasksOnStackRun'
  <2>1. LanesToDrain \in SUBSET Lanes
    BY DEF LanesToDrain
  <2>2. FramesOnStack' = {Reset(LanesToDrain)} \cup FramesOnStack
    BY <1>1, <2>1, StackSteps, FrameTypes DEF ResetAllLanes
  <2>3. TasksOnce(stack')
    BY <1>1, <2>1, StackKeepsTasks, FrameTypes, FramesDiffer DEF ResetAllLanes, TasksOnStackRun
  <2> QED BY <1>1, <2>2, <2>3, FramesDiffer DEF TasksOnStackRun
<1>7. GenerationsPast'
  <2> SUFFICES ASSUME NEW e \in Entries PROVE taskGeneration'[e] <= generation'[laneOf'[e]]
    BY DEF GenerationsPast
  <2>1. taskGeneration'[e] \in Nat /\ generation'[laneOf'[e]] \in Nat
    BY <1>4 DEF TypeOK
  <2> QED BY <1>1, <1>2, <2>1
<1> QED BY <1>3, <1>5, <1>6, <1>7 DEF LaneInv, LanesConsistent

LEMMA StartKeepsLanes ==
  ASSUME LaneInv, TypeOK', NEW k \in Lanes, PumpStart(k) PROVE LaneInv'
<1>1. /\ TypeOK /\ QueuesHoldPending /\ ActiveAreRunning /\ TasksOnStackRun
      /\ GenerationsPast /\ queue[k] \in Seq(Entries) /\ queue[k] # <<>>
  BY DEF PumpStart, Runnable, LaneInv, LanesConsistent, TypeOK
<1>2. PICK e \in Entries : e = Head(queue[k])
  BY <1>1, PopProperties
<1>3. /\ Distinct(queue'[k]) /\ e \notin InQueue(k)' /\ InQueue(k) = {e} \cup InQueue(k)'
      /\ \A l \in Lanes \ {k} : queue'[l] = queue[l] /\ InQueue(l)' = InQueue(l)
  <2>1. /\ queue'[k] = Tail(queue[k])
        /\ \A l \in Lanes \ {k} : queue'[l] = queue[l] /\ InQueue(l)' = InQueue(l)
    BY <1>1 DEF PumpStart, TypeOK, InQueue
  <2>2. Distinct(queue[k])
    BY <1>1 DEF QueuesHoldPending, Distinct
  <2> QED BY <1>1, <1>2, <2>1, <2>2, TailDistinct, PopProperties DEF InQueue
<1>4. status[e] = "queued" /\ laneOf[e] = k
  BY <1>1, <1>3 DEF QueuesHoldPending
<1>5. /\ UNCHANGED <<laneOf, generation>>
      /\ status'[e] = "running" /\ taskGeneration'[e] = generation[k]
      /\ \A f \in Entries \ {e} : status'[f] = status[f] /\ taskGeneration'[f] = taskGeneration[f]
      /\ activeTaskIds'[k] = activeTaskIds[k] \cup {e}
      /\ \A l \in Lanes \ {k} : activeTaskIds'[l] = activeTaskIds[l]
  BY <1>1, <1>2 DEF PumpStart, TypeOK
<1>6. \A l \in Lanes : InQueue(l) \subseteq Entries
  BY <1>1, QueuedAreEntries
<1>7. QueuesHoldPending'
  <2>1. \A l \in Lanes : \A i, j \in DOMAIN queue'[l] : queue'[l][i] = queue'[l][j] => i = j
    BY <1>1, <1>3 DEF QueuesHoldPending, Distinct
  <2>2. \A l \in Lanes : e \notin InQueue(l)' /\ InQueue(l)' \subseteq InQueue(l)
    BY <1>1, <1>3, <1>4 DEF QueuesHoldPending
  <2>3. \A l \in Lanes : \A f \in InQueue(l)' : status'[f] = "queued" /\ laneOf'[f] = l
    BY <1>1, <1>5, <1>6, <2>2 DEF QueuesHoldPending
  <2>4. \A f \in Entries : status'[f] = "queued" => f \in InQueue(laneOf[f])'
    <3> SUFFICES ASSUME NEW f \in Entries, status'[f] = "queued"
                 PROVE  f \in InQueue(laneOf[f])'
      OBVIOUS
    <3>1. f # e /\ status[f] = "queued"
      BY <1>5
    <3>2. f \in InQueue(laneOf[f]) /\ laneOf[f] \in Lanes /\ laneOf'[f] = laneOf[f]
      BY <1>1, <1>5, <3>1 DEF QueuesHoldPending, TypeOK
    <3>3. f \in Range(queue'[laneOf[f]])
      BY <1>3, <3>1, <3>2 DEF InQueue
    <3> QED BY <3>2, <3>3 DEF InQueue
  <2> QED BY <1>5, <2>1, <2>3, <2>4 DEF QueuesHoldPending
<1>8. ActiveAreRunning'
  BY <1>1, <1>4, <1>5 DEF ActiveAreRunning
<1>9. TasksOnStackRun'
  <2>1. Task(e) \notin FramesOnStack
    BY <1>1, <1>4 DEF TasksOnStackRun
  <2>2. stack' = <<Task(e)>> \o stack /\ stack \in Seq(Frame)
    BY <1>1, <1>2 DEF PumpStart, Call, TypeOK
  <2>3. TasksOnce(stack')
    BY <1>1, <2>1, <2>2, PushTask, FrameTypes DEF TasksOnStackRun, FramesOnStack
  <2>4. FramesOnStack' = {Task(e)} \cup FramesOnStack
    BY <2>2, PushProperties, FrameTypes DEF FramesOnStack
  <2>5. \A f \in Entries : Task(f) = Task(e) => f = e
    BY DEF Task
  <2> QED BY <1>1, <1>5, <2>3, <2>4, <2>5 DEF TasksOnStackRun
<1>10. GenerationsPast'
  <2>1. generation \in [Lanes -> Nat]
    BY <1>1, BoundsAssumption DEF TypeOK
  <2> QED BY <1>1, <1>4, <1>5, <2>1 DEF GenerationsPast
<1> QED BY <1>7, <1>8, <1>9, <1>10 DEF LaneInv, LanesConsistent

(* A running task ends; it is no longer on the stack. *)
LEMMA CompleteKeepsLanes ==
  ASSUME LaneInv, TypeOK', NEW e \in Entries, NEW outcome \in {"resolved", "rejected"},
         NEW callers \in Seq(Frame), CompleteTask(e, outcome, callers),
         status[e] = "running", TasksOnce(callers),
         Task(e) \notin Range(callers), Range(callers) \subseteq FramesOnStack
  PROVE  LaneInv'
<1>1. /\ TypeOK /\ QueuesHoldPending /\ ActiveAreRunning /\ TasksOnStackRun
      /\ GenerationsPast /\ laneOf[e] \in Lanes
      /\ UNCHANGED <<queue, generation, laneOf, taskGeneration>>
  BY DEF LaneInv, LanesConsistent, TypeOK, CompleteTask
<1>2. status'[e] = outcome /\ \A f \in Entries \ {e} : status'[f] = status[f]
  BY <1>1 DEF CompleteTask, TypeOK
<1>3. QueuesHoldPending'
  <2>1. \A l \in Lanes : InQueue(l) \subseteq Entries /\ InQueue(l)' = InQueue(l)
    BY <1>1 DEF InQueue, Range, TypeOK
  <2>2. \A l \in Lanes : \A f \in InQueue(l)' : status'[f] = "queued" /\ laneOf'[f] = l
    BY <1>1, <1>2, <2>1 DEF QueuesHoldPending
  <2>3. \A f \in Entries : status'[f] = "queued" => f \in InQueue(laneOf[f])'
    BY <1>1, <1>2, <2>1 DEF QueuesHoldPending, TypeOK
  <2> QED BY <1>1, <2>2, <2>3 DEF QueuesHoldPending
<1>4. ActiveAreRunning'
  <2>1. CASE taskGeneration[e] = generation[laneOf[e]]
    <3>1. activeTaskIds' = [activeTaskIds EXCEPT ![laneOf[e]] = activeTaskIds[laneOf[e]] \ {e}]
      BY <2>1 DEF CompleteTask
    <3>2. /\ activeTaskIds'[laneOf[e]] = activeTaskIds[laneOf[e]] \ {e}
          /\ \A l \in Lanes \ {laneOf[e]} : activeTaskIds'[l] = activeTaskIds[l]
      BY <1>1, <3>1 DEF TypeOK
    <3> QED BY <1>1, <1>2, <3>2 DEF ActiveAreRunning
  <2>2. CASE taskGeneration[e] # generation[laneOf[e]]
    <3>1. activeTaskIds' = activeTaskIds
      BY <2>2 DEF CompleteTask
    <3> QED BY <1>1, <1>2, <2>2, <3>1 DEF ActiveAreRunning
  <2> QED BY <2>1, <2>2
<1>5. TasksOnStackRun'
  <2>1. PICK p \in Frame : p = Pump(laneOf[e])
    BY <1>1, FrameTypes
  <2>2. p.op = "pump"
    BY <2>1, FramesDiffer
  <2>3. stack' = <<p>> \o callers \/ stack' = callers
    BY <2>1 DEF CompleteTask
  <2>4. TasksOnce(stack')
    BY <2>2, <2>3, PushTask
  <2>5. FramesOnStack' \subseteq {p} \cup Range(callers)
    BY <2>3, PushProperties DEF FramesOnStack
  <2>6. \A f \in Entries : Task(f).op = "task"
    BY DEF Task
  <2> QED BY <1>1, <1>2, <2>2, <2>4, <2>5, <2>6 DEF TasksOnStackRun
<1>6. GenerationsPast'
  BY <1>1 DEF GenerationsPast
<1> QED BY <1>3, <1>4, <1>5, <1>6 DEF LaneInv, LanesConsistent

(* The frames that resetAllLanes leaves while it drains lanes. *)
LEMMA ResetFrames ==
  ASSUME TypeOK, TasksOnce(stack), NEW k \in Lanes, ResetDrainsLane(k)
  PROVE  /\ TasksOnce(stack')
         /\ \E rest \in Frame :
              /\ rest.op = "reset"
              /\ FramesOnStack' = {Drain(k), rest} \cup Range(Tail(stack))
<1>1. stack \in Seq(Frame) /\ stack # <<>>
  BY DEF TypeOK, ResetDrainsLane, Idle
<1>2. /\ Head(stack) \in Frame /\ Tail(stack) \in Seq(Frame) /\ TasksOnce(Tail(stack))
  BY <1>1, PopProperties, PopTask
<1>3. Head(stack).lanes \in SUBSET Lanes
  BY <1>2 DEF ResetDrainsLane, Frame, LaneFrame, TaskFrame, ResetFrame
<1>4. PICK rest \in Frame : rest = Reset(Head(stack).lanes \ {k})
  BY <1>3, FrameTypes
<1>5. rest.op = "reset" /\ Drain(k).op = "drain" /\ Drain(k) \in Frame
  BY <1>4, FramesDiffer, FrameTypes
<1>6. stack' = <<Drain(k)>> \o (<<rest>> \o Tail(stack))
  BY <1>4 DEF ResetDrainsLane
<1>7. FramesOnStack' = {Drain(k), rest} \cup Range(Tail(stack))
  BY <1>2, <1>5, <1>6, PushTwoFrames, Zenon DEF FramesOnStack
<1>8. TasksOnce(<<rest>> \o Tail(stack)) /\ <<rest>> \o Tail(stack) \in Seq(Frame)
  BY <1>2, <1>5, PushTask, PushProperties
<1>9. TasksOnce(<<Drain(k)>> \o (<<rest>> \o Tail(stack)))
  <2> DEFINE s == <<rest>> \o Tail(stack)
  <2>1. TasksOnce(s) /\ s \in Seq(Frame)
    BY <1>8
  <2> HIDE DEF s
  <2>2. TasksOnce(<<Drain(k)>> \o s)
    BY <1>5, <2>1, PushTask
  <2> QED BY <2>2 DEF s
<1> QED BY <1>5, <1>6, <1>7, <1>9

(* A task ends that throws before its first await, or in a turn of its own. *)
LEMMA EndingTask ==
  ASSUME LaneInv, NEW e \in Entries, TaskThrows(e) \/ Settle(e)
  PROVE  \E outcome \in {"resolved", "rejected"}, callers \in Seq(Frame) :
           /\ CompleteTask(e, outcome, callers)
           /\ status[e] = "running" /\ TasksOnce(callers)
           /\ Task(e) \notin Range(callers) /\ Range(callers) \subseteq FramesOnStack
           /\ \A f \in FramesOnStack : f.op # "task" => f \in Range(callers)
<1>1. TypeOK /\ TasksOnStackRun /\ stack \in Seq(Frame)
  BY DEF LaneInv, LanesConsistent, TypeOK
<1>2. CASE TaskThrows(e)
  <2>1. stack # <<>> /\ Head(stack) = Task(e) /\ CompleteTask(e, "rejected", Tail(stack))
    BY <1>2 DEF TaskThrows, OnTop, Idle
  <2>2. /\ Tail(stack) \in Seq(Frame) /\ FramesOnStack = {Task(e)} \cup Range(Tail(stack))
    BY <1>1, <2>1, PopProperties DEF FramesOnStack
  <2>3. Task(e).op = "task"
    BY DEF Task
  <2>4. TasksOnce(Tail(stack)) /\ Task(e) \notin Range(Tail(stack))
    BY <1>1, <2>1, <2>3, PopTask DEF TasksOnStackRun
  <2>5. status[e] = "running"
    BY <1>1, <2>2 DEF TasksOnStackRun
  <2> QED BY <2>1, <2>2, <2>3, <2>4, <2>5
<1>3. CASE Settle(e)
  <2>1. PICK outcome \in {"resolved", "rejected"} : TaskSettles(e, outcome)
    BY <1>3 DEF Settle
  <2>2. FramesOnStack = {} /\ CompleteTask(e, outcome, stack) /\ status[e] = "running"
    BY <2>1 DEF TaskSettles, Idle, FramesOnStack, Range
  <2> QED BY <1>1, <2>2 DEF TasksOnStackRun, FramesOnStack
<1> QED BY <1>2, <1>3

(* Each step of the specification keeps the lanes consistent. *)
LEMMA LaneStep == LaneInv /\ [Next]_vars => LaneInv'
<1> SUFFICES ASSUME LaneInv, [Next]_vars PROVE LaneInv'
  OBVIOUS
<1>0. TypeOK /\ TypeOK' /\ TasksOnce(stack)
  BY TypeStep DEF LaneInv, LanesConsistent, TasksOnStackRun
<1> USE <1>0, FrameTypes, FramesDiffer
<1>1. ASSUME NEW k \in Lanes, NEW n \in 0..MaxLimit, SetCommandLaneConcurrency(k, n)
      PROVE LaneInv'
  <2>1. FramesOnStack' = {Drain(k)} \cup FramesOnStack /\ TasksOnce(stack')
    BY <1>1, StackSteps, StackKeepsTasks DEF SetCommandLaneConcurrency
  <2> QED BY <1>1, <2>1, LaneKept DEF SetCommandLaneConcurrency
<1>2. CASE \/ MarkGatewayDraining \/ UNCHANGED vars
           \/ \E w \in Waiters, t \in {0, 1} : WaitForActiveTasks(w, t)
           \/ \E w \in Waiters : WaiterTimeout(w)
  <2>1. UNCHANGED <<queue, activeTaskIds, generation, entryVars, stack>>
    BY <1>2 DEF MarkGatewayDraining, WaitForActiveTasks, WaiterTimeout, vars, laneVars, entryVars
  <2> QED BY <2>1, LaneKept DEF FramesOnStack
<1>3. ASSUME NEW k \in Lanes, DrainLane(k) PROVE LaneInv'
  <2>1. FramesOnStack = {Drain(k)} \cup Range(Tail(stack)) /\ ~Idle
    BY <1>3, StackSteps DEF DrainLane, OnTop
  <2>2. Return \/ Goto(Pump(k))
    BY <1>3 DEF DrainLane
  <2>3. FramesOnStack' \subseteq {Pump(k)} \cup FramesOnStack /\ TasksOnce(stack')
    BY <2>1, <2>2, StackSteps, StackKeepsTasks
  <2> QED BY <1>3, <2>3, LaneKept DEF DrainLane
<1>4. CASE \/ \E k \in Lanes : PumpExit(k)
           \/ \E e \in Entries : TaskAwaits(e)
           \/ ResetEnds
  <2>1. ~Idle /\ Return /\ UNCHANGED <<queue, activeTaskIds, generation, entryVars>>
    BY <1>4 DEF PumpExit, TaskAwaits, ResetEnds, OnTop, laneVars
  <2>2. FramesOnStack' \subseteq FramesOnStack /\ TasksOnce(stack')
    BY <2>1, StackSteps, StackKeepsTasks
  <2> QED BY <2>1, <2>2, LaneKept
<1>5. ASSUME NEW k \in Lanes, ResetDrainsLane(k) PROVE LaneInv'
  <2>1. FramesOnStack = {Head(stack)} \cup Range(Tail(stack))
    BY <1>5, StackSteps DEF ResetDrainsLane
  <2>2. PICK rest \in Frame : /\ rest.op = "reset"
                              /\ FramesOnStack' = {Drain(k), rest} \cup Range(Tail(stack))
    BY <1>5, ResetFrames
  <2>3. \A e \in Entries : Task(e) # rest
    BY <2>2
  <2>4. TasksOnce(stack')
    BY <1>5, ResetFrames
  <2> QED BY <1>5, <2>1, <2>2, <2>3, <2>4, LaneKept DEF ResetDrainsLane, laneVars
<1>6. ASSUME NEW e \in Entries, TaskThrows(e) \/ Settle(e) PROVE LaneInv'
  BY <1>6, EndingTask, CompleteKeepsLanes
<1> QED
  BY <1>1, <1>2, <1>3, <1>4, <1>5, <1>6, EnqueueKeepsLanes, RefusalKeepsLanes,
     ClearKeepsLanes, ResetKeepsLanes, StartKeepsLanes DEF Next, Operation, RunStack

LEMMA LaneInit == Init => LaneInv
<1> SUFFICES ASSUME Init PROVE LaneInv
  OBVIOUS
<1>1. TypeOK
  BY TypeInit
<1>2. QueuesHoldPending
  BY DEF Init, QueuesHoldPending, InQueue, Range
<1>3. ActiveAreRunning /\ GenerationsPast
  BY <1>1 DEF Init, ActiveAreRunning, GenerationsPast, TypeOK
<1>4. TasksOnStackRun
  BY DEF Init, TasksOnStackRun, TasksOnce, FramesOnStack, Range
<1> QED BY <1>1, <1>2, <1>3, <1>4 DEF LaneInv, LanesConsistent

(* Every pending command is in its lane's queue, once, or its task runs, and *)
(* a lane's slots are held by exactly its running tasks of the current       *)
(* generation: no re-entrant pump, clear or restart loses a command, runs it *)
(* twice or leaks a slot, for any number of lanes, commands and restarts.    *)
THEOREM LanesStayConsistent == Spec => []LanesConsistent
<1>1. LaneInv => LanesConsistent
  BY DEF LaneInv
<1> QED BY <1>1, LaneInit, LaneStep, PTL DEF Spec

-----------------------------------------------------------------------------
(* Waiters are told in time *)

(* What is waited for has been started. *)
WaitedForStarted ==
  \A w \in Waiters : \A e \in waitFor[w] : status[e] \notin {"new", "queued"}

WaitInv == LaneInv /\ WaitersAccurate /\ WaitedForStarted

Resetting == \E f \in FramesOnStack : f.op = "reset"

(* What is not active of the tasks that run was abandoned by a restart. *)
InactivePast ==
  \A e \in Entries : e \notin AllActive(activeTaskIds) /\ status[e] = "running"
    => taskGeneration[e] < generation[laneOf[e]]

LEMMA InactiveIsPast == LaneInv => InactivePast
<1> SUFFICES ASSUME LaneInv, NEW e \in Entries, e \notin AllActive(activeTaskIds),
                    status[e] = "running"
             PROVE  taskGeneration[e] < generation[laneOf[e]]
  BY DEF InactivePast
<1>1. /\ laneOf[e] \in Lanes /\ taskGeneration[e] \in Nat /\ generation[laneOf[e]] \in Nat
      /\ taskGeneration[e] <= generation[laneOf[e]]
  BY BoundsAssumption DEF LaneInv, LanesConsistent, TypeOK, GenerationsPast
<1>2. e \notin activeTaskIds[laneOf[e]]
  BY <1>1 DEF AllActive
<1>3. taskGeneration[e] # generation[laneOf[e]]
  BY <1>1, <1>2 DEF LaneInv, LanesConsistent, ActiveAreRunning
<1> QED BY <1>1, <1>3

(* A step that settles no waiter and ends no task. *)
LEMMA WaitKept ==
  ASSUME WaitInv, TypeOK', UNCHANGED <<waiterState, waitFor, laneOf>>,
         \A e \in Entries : status[e] \notin {"new", "queued"} =>
           status'[e] = status[e] /\ taskGeneration'[e] = taskGeneration[e],
         \A l \in Lanes : generation[l] <= generation'[l],
         \/ Resetting'
         \/ AllActive(activeTaskIds) \subseteq AllActive(activeTaskIds') /\ ~Resetting
  PROVE  WaitersAccurate' /\ WaitedForStarted'
<1>1. \A w \in Waiters : waitFor[w] \subseteq Entries
  BY DEF WaitInv, LaneInv, LanesConsistent, TypeOK
<1>2. WaitedForStarted'
  BY <1>1 DEF WaitInv, WaitedForStarted
<1>3. ASSUME NEW w \in Waiters, waiterState'[w] = "waiting"
      PROVE  waitFor'[w] \cap AllActive(activeTaskIds)' # {} \/ Resetting'
  <2>1. waitFor[w] \cap AllActive(activeTaskIds) # {} \/ Resetting
    BY <1>3 DEF WaitInv, WaitersAccurate, Resetting
  <2> QED BY <2>1 DEF AllActive
<1>4. ASSUME NEW w \in Waiters, waiterState'[w] = "drained", NEW e \in waitFor'[w],
             status'[e] = "running"
      PROVE  taskGeneration'[e] < generation'[laneOf'[e]]
  <2>1. e \in Entries /\ status[e] = "running" /\ taskGeneration'[e] = taskGeneration[e]
    BY <1>1, <1>4 DEF WaitInv, WaitedForStarted
  <2>2. taskGeneration[e] < generation[laneOf[e]] /\ laneOf[e] \in Lanes
    BY <1>4, <2>1 DEF WaitInv, WaitersAccurate, LaneInv, LanesConsistent, TypeOK
  <2>3. /\ taskGeneration[e] \in Nat /\ generation[laneOf[e]] \in Nat
        /\ generation'[laneOf[e]] \in Nat /\ generation[laneOf[e]] <= generation'[laneOf[e]]
    BY <2>1, <2>2, BoundsAssumption DEF WaitInv, LaneInv, LanesConsistent, TypeOK
  <2> QED BY <2>1, <2>2, <2>3
<1> QED BY <1>2, <1>3, <1>4 DEF WaitersAccurate, Resetting

(* notifyActiveTaskWaiters tells exactly the waiters that are due. *)
LEMMA NotifyKeepsWaiters ==
  ASSUME WaitInv, LaneInv', UNCHANGED <<waitFor, laneOf, taskGeneration, generation>>,
         \A e \in Entries : status'[e] = status[e] \/ status'[e] \in Settled,
         NotifyActiveTaskWaiters(activeTaskIds')
  PROVE  WaitersAccurate' /\ WaitedForStarted'
<1>1. \A w \in Waiters : waitFor[w] \subseteq Entries
  BY DEF WaitInv, LaneInv, LanesConsistent, TypeOK
<1>2. WaitedForStarted'
  BY <1>1 DEF WaitInv, WaitedForStarted, Settled
<1>3. AllActive(activeTaskIds)' = AllActive(activeTaskIds')
  BY DEF AllActive
<1>4. ASSUME NEW w \in Waiters, waiterState'[w] = "waiting"
      PROVE  waitFor'[w] \cap AllActive(activeTaskIds)' # {}
  BY <1>3, <1>4 DEF NotifyActiveTaskWaiters
<1>5. ASSUME NEW w \in Waiters, waiterState'[w] = "drained", NEW e \in waitFor'[w],
             status'[e] = "running"
      PROVE  taskGeneration'[e] < generation'[laneOf'[e]]
  <2>1. e \in Entries /\ status[e] = "running"
    BY <1>1, <1>5 DEF Settled
  <2>2. CASE waiterState[w] = "drained"
    BY <1>5, <2>1, <2>2 DEF WaitInv, WaitersAccurate
  <2>3. CASE waiterState[w] # "drained"
    <3>1. e \notin AllActive(activeTaskIds')
      BY <1>5, <2>3 DEF NotifyActiveTaskWaiters
    <3>2. e \notin AllActive(activeTaskIds)'
      BY <1>3, <3>1
    <3>3. InactivePast'
      BY InactiveIsPast, PTL
    <3> QED BY <1>5, <2>1, <3>2, <3>3 DEF InactivePast
  <2> QED BY <2>2, <2>3
<1> QED BY <1>2, <1>4, <1>5 DEF WaitersAccurate

(* Each step of the specification keeps the waiters' account. *)
LEMMA WaitStep == WaitInv /\ [Next]_vars => WaitInv'
<1> SUFFICES ASSUME WaitInv, [Next]_vars PROVE WaitersAccurate' /\ WaitedForStarted'
  BY LaneStep DEF WaitInv
<1>0. /\ LaneInv /\ LaneInv' /\ TypeOK /\ TypeOK' /\ TasksOnce(stack)
      /\ QueuesHoldPending
      /\ generation \in [Lanes -> Nat]
  <2>1. LaneInv /\ LaneInv' /\ TypeOK /\ QueuesHoldPending /\ TasksOnce(stack)
    BY LaneStep DEF WaitInv, LaneInv, LanesConsistent, TasksOnStackRun
  <2>2. TypeOK'
    BY <2>1, TypeStep
  <2> QED BY <2>1, <2>2, BoundsAssumption DEF TypeOK
<1> USE <1>0, FrameTypes, FramesDiffer
<1>1. ASSUME NEW e \in Entries, Enqueue(e) PROVE WaitersAccurate' /\ WaitedForStarted'
  <2>1. FramesOnStack \subseteq FramesOnStack'
    BY <1>1, StackSteps DEF Enqueue, TypeOK
  <2>2. \A f \in Entries : status[f] \notin {"new", "queued"} => status'[f] = status[f]
    BY <1>1 DEF Enqueue, TypeOK
  <2> QED BY <1>1, <2>1, <2>2, WaitKept DEF Enqueue, Resetting, waiterVars
<1>2. ASSUME NEW e \in Entries, EnqueueRefused(e)
      PROVE WaitersAccurate' /\ WaitedForStarted'
  <2>1. FramesOnStack \subseteq FramesOnStack'
    BY <1>2 DEF EnqueueRefused, FramesOnStack
  <2>2. \A f \in Entries : status[f] \notin {"new", "queued"} => status'[f] = status[f]
    BY <1>2 DEF EnqueueRefused, TypeOK
  <2> QED BY <1>2, <2>1, <2>2, WaitKept DEF EnqueueRefused, Resetting, waiterVars, laneVars
<1>3. ASSUME NEW k \in Lanes, ClearCommandLane(k)
      PROVE WaitersAccurate' /\ WaitedForStarted'
  <2>1. FramesOnStack \subseteq FramesOnStack'
    BY <1>3 DEF ClearCommandLane, FramesOnStack
  <2>2. \A f \in Entries : status[f] \notin {"new", "queued"} => status'[f] = status[f]
    BY <1>3 DEF ClearCommandLane, QueuesHoldPending
  <2> QED BY <1>3, <2>1, <2>2, WaitKept DEF ClearCommandLane, Resetting, waiterVars
<1>4. ASSUME NEW k \in Lanes, NEW n \in 0..MaxLimit, SetCommandLaneConcurrency(k, n)
      PROVE WaitersAccurate' /\ WaitedForStarted'
  <2>1. FramesOnStack \subseteq FramesOnStack'
    BY <1>4, StackSteps DEF SetCommandLaneConcurrency
  <2> QED BY <1>4, <2>1, WaitKept
          DEF SetCommandLaneConcurrency, Resetting, waiterVars, entryVars
<1>5. CASE MarkGatewayDraining \/ UNCHANGED vars
  <2>1. UNCHANGED <<activeTaskIds, generation, waiterVars, entryVars, stack>>
    BY <1>5 DEF MarkGatewayDraining, vars, laneVars, waiterVars, entryVars
  <2>2. FramesOnStack \subseteq FramesOnStack'
    BY <2>1 DEF FramesOnStack
  <2> QED BY <2>1, <2>2, WaitKept DEF Resetting, waiterVars, entryVars
<1>6. CASE ResetAllLanes
  <2>1. LanesToDrain \in SUBSET Lanes
    BY DEF LanesToDrain
  <2>2. Resetting'
    BY <1>6, <2>1, StackSteps DEF ResetAllLanes, Resetting
  <2>3. \A l \in Lanes : generation[l] <= generation'[l]
    BY <1>6 DEF ResetAllLanes, NextGeneration
  <2> QED BY <1>6, <2>2, <2>3, WaitKept DEF ResetAllLanes, waiterVars, entryVars
<1>7. ASSUME NEW w \in Waiters, NEW t \in {0, 1}, WaitForActiveTasks(w, t)
      PROVE WaitersAccurate' /\ WaitedForStarted'
  <2>1. /\ waitFor'[w] = AllActive(activeTaskIds)
        /\ waiterState'[w] = "drained" => waitFor'[w] = {}
        /\ waiterState'[w] = "waiting" => waitFor'[w] # {}
        /\ \A v \in Waiters \ {w} : waitFor'[v] = waitFor[v] /\ waiterState'[v] = waiterState[v]
    BY <1>7 DEF WaitForActiveTasks, TypeOK
  <2>2. UNCHANGED <<activeTaskIds, status, generation, laneOf, taskGeneration, stack>>
    BY <1>7 DEF WaitForActiveTasks, laneVars, entryVars
  <2>3. \A e \in AllActive(activeTaskIds) : status[e] = "running"
    BY DEF AllActive, LaneInv, LanesConsistent, ActiveAreRunning
  <2>4. AllActive(activeTaskIds)' = AllActive(activeTaskIds) /\ FramesOnStack' = FramesOnStack
    BY <2>2 DEF AllActive, FramesOnStack
  <2>5. WaitedForStarted'
    BY <2>1, <2>2, <2>3 DEF WaitInv, WaitedForStarted
  <2>6. WaitersAccurate'
    BY <2>1, <2>2, <2>4 DEF WaitInv, WaitersAccurate
  <2> QED BY <2>5, <2>6
<1>8. ASSUME NEW w \in Waiters, WaiterTimeout(w)
      PROVE WaitersAccurate' /\ WaitedForStarted'
  <2>1. /\ UNCHANGED <<activeTaskIds, waitFor, status, generation, laneOf, taskGeneration, stack>>
        /\ \A v \in Waiters : waiterState'[v] = waiterState[v] \/ waiterState'[v] = "notDrained"
    BY <1>8 DEF WaiterTimeout, laneVars, entryVars, TypeOK
  <2>2. AllActive(activeTaskIds)' = AllActive(activeTaskIds) /\ FramesOnStack' = FramesOnStack
    BY <2>1 DEF AllActive, FramesOnStack
  <2> QED BY <2>1, <2>2 DEF WaitInv, WaitersAccurate, WaitedForStarted
<1>9. ASSUME NEW k \in Lanes, DrainLane(k) PROVE WaitersAccurate' /\ WaitedForStarted'
  <2>1. FramesOnStack = {Drain(k)} \cup Range(Tail(stack)) /\ ~Idle
    BY <1>9, StackSteps DEF DrainLane, OnTop
  <2>2. Return \/ Goto(Pump(k))
    BY <1>9 DEF DrainLane
  <2>3. Resetting => Resetting'
    BY <2>1, <2>2, StackSteps DEF Resetting
  <2> QED BY <1>9, <2>3, WaitKept DEF DrainLane, waiterVars, entryVars
<1>10. ASSUME NEW k \in Lanes, PumpStart(k) PROVE WaitersAccurate' /\ WaitedForStarted'
  <2>1. PICK e \in Entries : e = Head(queue[k]) /\ e \in InQueue(k)
    BY <1>10, PopProperties DEF PumpStart, Runnable, TypeOK, InQueue
  <2>2. FramesOnStack' = {Task(e)} \cup FramesOnStack
    BY <1>10, <2>1, StackSteps DEF PumpStart
  <2>3. \A f \in Entries : status[f] \notin {"new", "queued"} =>
          status'[f] = status[f] /\ taskGeneration'[f] = taskGeneration[f]
    BY <1>10, <2>1 DEF PumpStart, QueuesHoldPending, TypeOK
  <2>4. AllActive(activeTaskIds) \subseteq AllActive(activeTaskIds')
    BY <1>10 DEF PumpStart, AllActive, TypeOK
  <2>5. /\ UNCHANGED <<waiterState, waitFor, laneOf, generation>>
        /\ Resetting => Resetting'
    BY <1>10, <2>2 DEF PumpStart, Resetting, waiterVars
  <2> QED BY <2>3, <2>4, <2>5, WaitKept
<1>11. CASE (\E k \in Lanes : PumpExit(k)) \/ (\E e \in Entries : TaskAwaits(e))
  <2>1. /\ ~Idle /\ Return /\ Head(stack).op # "reset"
        /\ UNCHANGED <<activeTaskIds, generation, waiterVars, entryVars>>
    BY <1>11 DEF PumpExit, TaskAwaits, OnTop, laneVars
  <2>2. Resetting => Resetting'
    BY <2>1, StackSteps DEF Resetting
  <2> QED BY <2>1, <2>2, WaitKept DEF waiterVars, entryVars
<1>12. ASSUME NEW k \in Lanes, ResetDrainsLane(k) PROVE WaitersAccurate' /\ WaitedForStarted'
  <2>1. Resetting'
    BY <1>12, ResetFrames DEF Resetting
  <2> QED BY <1>12, <2>1, WaitKept DEF ResetDrainsLane, laneVars, waiterVars, entryVars
<1>13. CASE ResetEnds
  BY <1>13, NotifyKeepsWaiters DEF ResetEnds, laneVars, entryVars
<1>14. ASSUME NEW e \in Entries, TaskThrows(e) \/ Settle(e)
       PROVE WaitersAccurate' /\ WaitedForStarted'
  <2>1. PICK outcome \in {"resolved", "rejected"}, callers \in Seq(Frame) :
           /\ CompleteTask(e, outcome, callers)
           /\ \A f \in FramesOnStack : f.op # "task" => f \in Range(callers)
    BY <1>14, EndingTask
  <2>2. /\ UNCHANGED <<waitFor, laneOf, taskGeneration, generation>>
        /\ status'[e] = outcome /\ \A f \in Entries \ {e} : status'[f] = status[f]
    BY <2>1 DEF CompleteTask, TypeOK
  <2>3. CASE taskGeneration[e] = generation[laneOf[e]]
    <3>1. NotifyActiveTaskWaiters(activeTaskIds')
      BY <2>1, <2>3 DEF CompleteTask
    <3> QED BY <2>2, <3>1, NotifyKeepsWaiters DEF Settled
  <2>4. CASE taskGeneration[e] # generation[laneOf[e]]
    <3>1. UNCHANGED <<activeTaskIds, waiterState>> /\ stack' = callers
      BY <2>1, <2>4 DEF CompleteTask
    <3>2. Resetting => Resetting'
      BY <2>1, <3>1 DEF Resetting, FramesOnStack
    <3>3. AllActive(activeTaskIds)' = AllActive(activeTaskIds)
      BY <3>1 DEF AllActive
    <3>4. \A w \in Waiters : waitFor[w] \subseteq Entries
      BY DEF TypeOK
    <3>5. WaitedForStarted'
      BY <2>2, <3>4 DEF WaitInv, WaitedForStarted
    <3>6. WaitersAccurate'
      BY <2>2, <3>1, <3>2, <3>3, <3>4 DEF WaitInv, WaitersAccurate, Resetting
    <3> QED BY <3>5, <3>6
  <2> QED BY <2>3, <2>4
<1> QED
  BY <1>1, <1>2, <1>3, <1>4, <1>5, <1>6, <1>7, <1>8, <1>9, <1>10, <1>11, <1>12, <1>13,
     <1>14 DEF Next, Operation, RunStack

LEMMA WaitInit == Init => WaitInv
BY LaneInit DEF Init, WaitInv, WaitersAccurate, WaitedForStarted

(* A call of waitForActiveTasks is pending only while a task it waits for is *)
(* active, and one that reported "drained" outlived its tasks but for those  *)
(* a restart abandoned, for any number of calls, commands and restarts.      *)
THEOREM WaitersStayAccurate == Spec => []WaitersAccurate
<1>1. WaitInv => WaitersAccurate
  BY DEF WaitInv
<1> QED BY <1>1, WaitInit, WaitStep, PTL DEF Spec

-----------------------------------------------------------------------------
(* Agent runs use the queue *)

(* The commands of a run are commands, and they are all the commands. *)
LEMMA RunCommands ==
  /\ \A r \in Runs : /\ Job(r) \in Entries /\ Session(r) \in Entries /\ Global(r) \in Entries
                     /\ Job(r)[2] = "job" /\ Session(r)[2] = "session" /\ Global(r)[2] = "global"
                     /\ Job(r)[1] = r /\ Session(r)[1] = r /\ Global(r)[1] = r
  /\ \A e \in Entries : \E r \in Runs : e \in {Job(r), Session(r), Global(r)}
  /\ \A q, r \in Runs : /\ Session(q) # Global(r) /\ Session(q) # Job(r) /\ Global(q) # Job(r)
                        /\ Session(q) = Session(r) => q = r
                        /\ Global(q) = Global(r) => q = r
BY RunEntries DEF Stages, Job, Session, Global

(* A step of agent runs is a step of the command queue, or none. *)
LEMMA RunStepIsQueueStep == [RunNext]_<<vars, runVars>> => [Next]_vars
<1> SUFFICES ASSUME [RunNext]_<<vars, runVars>> PROVE [Next]_vars
  OBVIOUS
<1>1. ASSUME NEW e \in Entries, Submit(e) PROVE Next
  BY <1>1 DEF Submit, Next, Operation
<1>2. ASSUME NEW e \in Entries, NEW outcome \in {"resolved", "rejected"},
             TaskSettles(e, outcome)
      PROVE  Next
  BY <1>2 DEF Next, Settle
<1>3. ASSUME NEW e \in Entries, TaskAwaits(e) \/ TaskThrows(e) PROVE Next
  BY <1>3 DEF Next, RunStack
<1>4. CASE RunStep
  <2>1. CASE QueueStep
    BY <2>1 DEF QueueStep, Next, RunStack
  <2>2. ASSUME NEW r \in Runs, SessionTask(r) PROVE Next
    BY <1>1, <1>3, <2>2, RunCommands DEF SessionTask
  <2>3. ASSUME NEW e \in Entries, AsyncTask(e) PROVE Next
    BY <1>3, <2>3 DEF AsyncTask
  <2> QED BY <1>4, <2>1, <2>2, <2>3 DEF RunStep
<1>5. ASSUME NEW r \in Runs,
             \/ StartRun(r) \/ StartJob(r) \/ JobStartsRun(r)
             \/ RunSettles(r) \/ JobSettles(r) \/ JobTimesOut(r) \/ Abort(r)
      PROVE  [Next]_vars
  <2>1. CASE StartRun(r) \/ StartJob(r) \/ JobStartsRun(r)
    BY <1>1, <2>1, RunCommands DEF StartRun, StartJob, JobStartsRun
  <2>2. CASE RunSettles(r) \/ JobSettles(r) \/ JobTimesOut(r)
    BY <1>2, <2>2, RunCommands
    DEF RunSettles, GlobalSettles, SessionSettles, JobSettles, JobTimesOut
  <2>3. CASE Abort(r)
    BY <2>3 DEF Abort
  <2> QED BY <1>5, <2>1, <2>2, <2>3
<1>6. ASSUME NEW s \in Sessions, Interrupt(s) PROVE [Next]_vars
  BY <1>6, RunLanes DEF Interrupt, Next, Operation
<1>7. ASSUME NEW l \in Lanes, NEW n \in 1..MaxLimit, ApplyLaneConcurrency(l, n) PROVE Next
  <2>1. n \in 0..MaxLimit
    BY BoundsAssumption
  <2> QED BY <1>7, <2>1 DEF ApplyLaneConcurrency, Next, Operation
<1>8. CASE RequestRestart \/ FinishRestart
  BY <1>8 DEF RequestRestart, FinishRestart, Next, Operation
<1>9. CASE UNCHANGED <<vars, runVars>>
  BY <1>9
<1> QED BY <1>4, <1>5, <1>6, <1>7, <1>8, <1>9 DEF RunNext

(* Agent runs, manual cron runs and restarts use the command queue as its   *)
(* own specification allows: what is proved of the queue holds of them.     *)
THEOREM AgentRunsUseQueue == RunSpec => Spec
<1>1. RunInit => Init
  BY DEF RunInit
<1> QED BY <1>1, RunStepIsQueueStep, PTL DEF RunSpec, Spec

-----------------------------------------------------------------------------
(* What a run's commands have to do with each other *)

(* Jobs, session commands and global commands never share a lane. *)
LanesApart ==
  \A r \in Runs :
    /\ laneOf[Job(r)] = "cron"
    /\ laneOf[Session(r)] \in Sessions
    /\ laneOf[Global(r)] \in {"main", "nested", "subagent"}

(* A session lane has one slot, whatever limits are configured. *)
SessionsSerial ==
  \A s \in Sessions :
    maxConcurrent[s] = 1 /\ \A d, e \in activeTaskIds[s] : d = e

(* A run's global command is pending only while its session command runs. *)
GlobalsNested ==
  \A r \in Runs :
    status[Global(r)] \in {"queued", "running"} => status[Session(r)] = "running"

(* A session command gives up the stack only after it has submitted the     *)
(* run's global command.                                                    *)
SessionsPassOn ==
  \A r \in Runs :
    status[Session(r)] = "running" /\ status[Global(r)] = "new"
      => Task(Session(r)) \in FramesOnStack

RunInv ==
  /\ CoverInv /\ LaneInv
  /\ LanesApart /\ SessionsSerial /\ GlobalsNested /\ SessionsPassOn

(* The lanes are told apart from the start. *)
LEMMA RunInvInit == RunInit => RunInv
<1> SUFFICES ASSUME RunInit PROVE RunInv
  OBVIOUS
<1>1. Init
  BY DEF RunInit
<1>2. CoverInv /\ LaneInv
  BY <1>1, CoverInit, LaneInit
<1>3. LanesApart
  <2>1. PICK sessionOf \in [Runs -> Sessions] :
          laneOf = [e \in Entries |->
                      CASE e[2] = "job" -> "cron"
                        [] e[2] = "session" -> sessionOf[e[1]]
                        [] e[2] = "global" -> ResolveGlobalLane(laneParam[e[1]])]
    BY DEF RunInit
  <2> SUFFICES ASSUME NEW r \in Runs
               PROVE  /\ laneOf[Job(r)] = "cron"
                      /\ laneOf[Session(r)] \in Sessions
                      /\ laneOf[Global(r)] \in {"main", "nested", "subagent"}
    BY DEF LanesApart
  <2>2. laneOf[Job(r)] = "cron"
    BY <2>1, RunCommands
  <2>3. laneOf[Session(r)] = sessionOf[r]
    BY <2>1, RunCommands
  <2>4. laneOf[Global(r)] = ResolveGlobalLane(laneParam[r])
    BY <2>1, RunCommands
  <2>5. laneParam[r] \in {"main", "cron", "nested", "subagent"}
    BY RunLanes DEF RunInit
  <2> QED BY <2>2, <2>3, <2>4, <2>5 DEF ResolveGlobalLane
<1>4. SessionsSerial
  BY <1>1, RunLanes DEF Init, SessionsSerial
<1>5. GlobalsNested /\ SessionsPassOn
  BY <1>1, RunCommands DEF Init, GlobalsNested, SessionsPassOn
<1> QED BY <1>2, <1>3, <1>4, <1>5 DEF RunInv

(* A step that changes no command's status and returns from no session      *)
(* command's task.                                                          *)
LEMMA LinksKept ==
  ASSUME GlobalsNested, SessionsPassOn, status' = status,
         \A r \in Runs : status[Global(r)] = "new" /\ Task(Session(r)) \in FramesOnStack
                           => Task(Session(r)) \in FramesOnStack'
  PROVE  GlobalsNested' /\ SessionsPassOn'
BY DEF GlobalsNested, SessionsPassOn, Global, Session

(* The frames other than the top one stay in a return or a jump, and all of *)
(* them in a call.                                                          *)
LEMMA TasksStay ==
  ASSUME TypeOK, NEW e \in Entries, Task(e) \in FramesOnStack
  PROVE  /\ \A f \in Frame : Call(f) => Task(e) \in FramesOnStack'
         /\ \A f \in Frame : ~Idle /\ Head(stack) # Task(e) /\ Goto(f)
                               => Task(e) \in FramesOnStack'
         /\ ~Idle /\ Head(stack) # Task(e) /\ Return => Task(e) \in FramesOnStack'
BY StackSteps

(* A command is accepted or refused: a job, a session command, or the       *)
(* global command of the session command on top of the stack.               *)
LEMMA SubmitKeepsLinks ==
  ASSUME RunInv, NEW e \in Entries, Submit(e),
         \A r \in Runs : e = Global(r) => OnTop(Task(Session(r)))
  PROVE  GlobalsNested' /\ SessionsPassOn'
<1>1. /\ TypeOK /\ TasksOnStackRun /\ GlobalsNested /\ SessionsPassOn
  BY DEF RunInv, CoverInv, LaneInv
<1>2. /\ status[e] = "new"
      /\ \/ status' = [status EXCEPT ![e] = "queued"] /\ Call(Drain(laneOf[e]))
         \/ status' = [status EXCEPT ![e] = "refused"] /\ stack' = stack
  BY DEF Submit, Enqueue, EnqueueRefused
<1>3. FramesOnStack \subseteq FramesOnStack'
  <2>1. laneOf[e] \in Lanes
    BY <1>1 DEF TypeOK
  <2>2. Drain(laneOf[e]) \in Frame
    BY <2>1, FrameTypes
  <2> QED BY <1>1, <1>2, <2>2, StackSteps DEF FramesOnStack
<1>4. \A d \in Entries : status'[d] = IF d = e THEN status'[e] ELSE status[d]
  BY <1>1, <1>2 DEF TypeOK
<1>5. status'[e] \in {"queued", "refused"}
  BY <1>1, <1>2 DEF TypeOK
<1>6. ASSUME NEW r \in Runs, status'[Global(r)] \in {"queued", "running"}
      PROVE  status'[Session(r)] = "running"
  <2>1. CASE e = Global(r)
    <3>1. Task(Session(r)) \in FramesOnStack
      BY <1>1, <2>1, StackSteps DEF OnTop
    <3>2. status[Session(r)] = "running"
      BY <1>1, <3>1, RunCommands DEF TasksOnStackRun
    <3> QED BY <1>4, <2>1, <3>2, RunCommands
  <2>2. CASE e # Global(r)
    <3>1. status[Session(r)] = "running"
      BY <1>1, <1>4, <1>6, <2>2, RunCommands DEF GlobalsNested
    <3> QED BY <1>2, <1>4, <3>1, RunCommands
  <2> QED BY <2>1, <2>2
<1>7. ASSUME NEW r \in Runs, status'[Session(r)] = "running", status'[Global(r)] = "new"
      PROVE  Task(Session(r)) \in FramesOnStack'
  <2>1. status[Session(r)] = "running" /\ status[Global(r)] = "new"
    BY <1>4, <1>5, <1>7, RunCommands
  <2> QED BY <1>1, <1>3, <2>1 DEF SessionsPassOn
<1> QED BY <1>6, <1>7 DEF GlobalsNested, SessionsPassOn, Global, Session

(* A command is started: its task is on the stack. *)
LEMMA StartKeepsLinks ==
  ASSUME RunInv, NEW k \in Lanes, PumpStart(k)
  PROVE  GlobalsNested' /\ SessionsPassOn'
<1>1. /\ TypeOK /\ QueuesHoldPending /\ GlobalsNested /\ SessionsPassOn
  BY DEF RunInv, CoverInv, LaneInv, LanesConsistent
<1> DEFINE e == Head(queue[k])
<1>2. e \in InQueue(k) /\ e \in Entries
  <2>1. queue[k] \in Seq(Entries) /\ queue[k] # <<>>
    BY <1>1 DEF TypeOK, PumpStart, Runnable
  <2> QED BY <2>1, PopProperties DEF InQueue
<1>3. status[e] = "queued"
  BY <1>1, <1>2 DEF QueuesHoldPending
<1>4. /\ status' = [status EXCEPT ![e] = "running"]
      /\ Call(Task(e))
  BY DEF PumpStart
<1> HIDE DEF e
<1>5. FramesOnStack' = {Task(e)} \cup FramesOnStack
  BY <1>1, <1>2, <1>4, FrameTypes, StackSteps
<1>6. \A d \in Entries : status'[d] = IF d = e THEN "running" ELSE status[d]
  BY <1>1, <1>2, <1>4 DEF TypeOK
<1>7. ASSUME NEW r \in Runs, status'[Global(r)] \in {"queued", "running"}
      PROVE  status'[Session(r)] = "running"
  <2>1. status[Global(r)] \in {"queued", "running"}
    BY <1>3, <1>6, <1>7, RunCommands
  <2>2. status[Session(r)] = "running"
    BY <1>1, <2>1 DEF GlobalsNested
  <2> QED BY <1>6, <2>2, RunCommands
<1>8. ASSUME NEW r \in Runs, status'[Session(r)] = "running", status'[Global(r)] = "new"
      PROVE  Task(Session(r)) \in FramesOnStack'
  <2>1. CASE e = Session(r)
    BY <1>5, <2>1
  <2>2. CASE e # Session(r)
    <3>1. status[Session(r)] = "running" /\ status[Global(r)] = "new"
      BY <1>6, <1>8, <2>2, RunCommands
    <3> QED BY <1>1, <1>5, <3>1 DEF SessionsPassOn
  <2> QED BY <2>1, <2>2
<1> QED BY <1>7, <1>8 DEF GlobalsNested, SessionsPassOn, Global, Session

(* A command ends: a session command only when its global command is not    *)
(* pending.                                                                 *)
LEMMA EndKeepsLinks ==
  ASSUME RunInv, NEW e \in Entries, TaskThrows(e) \/ Settle(e),
         \A r \in Runs : e = Session(r) => status[Global(r)] \notin {"queued", "running"}
  PROVE  GlobalsNested' /\ SessionsPassOn'
<1>1. /\ TypeOK /\ LaneInv /\ GlobalsNested /\ SessionsPassOn
  BY DEF RunInv, CoverInv
<1>2. PICK outcome \in {"resolved", "rejected"}, callers \in Seq(Frame) :
        /\ CompleteTask(e, outcome, callers)
        /\ status[e] = "running"
  BY <1>1, EndingTask
<1>3. \A d \in Entries : status'[d] = IF d = e THEN outcome ELSE status[d]
  BY <1>1, <1>2 DEF CompleteTask, TypeOK
<1>4. ASSUME NEW d \in Entries, d # e, Task(d) \in FramesOnStack
      PROVE  Task(d) \in FramesOnStack'
  <2>1. CASE Settle(e)
    BY <1>4, <2>1 DEF Settle, TaskSettles, Idle, FramesOnStack, Range
  <2>2. CASE TaskThrows(e)
    <3>1. /\ stack \in Seq(Frame) /\ stack # <<>> /\ Head(stack) = Task(e)
          /\ Tail(stack) \in Seq(Frame)
          /\ FramesOnStack = {Task(e)} \cup Range(Tail(stack))
      BY <1>1, <2>2, PopProperties DEF TaskThrows, OnTop, Idle, TypeOK, FramesOnStack
    <3>2. Task(d) \in Range(Tail(stack))
      BY <1>4, <3>1 DEF Task
    <3>3. stack' = Tail(stack) \/ stack' = <<Pump(laneOf[e])>> \o Tail(stack)
      BY <2>2 DEF TaskThrows, CompleteTask
    <3>4. laneOf[e] \in Lanes
      BY <1>1 DEF TypeOK
    <3>5. Pump(laneOf[e]) \in Frame
      BY <3>4, FrameTypes
    <3>6. Range(<<Pump(laneOf[e])>> \o Tail(stack)) = {Pump(laneOf[e])} \cup Range(Tail(stack))
      BY <3>1, <3>5, PushProperties
    <3> QED BY <3>2, <3>3, <3>6 DEF FramesOnStack
  <2> QED BY <2>1, <2>2
<1>5. ASSUME NEW r \in Runs, status'[Global(r)] \in {"queued", "running"}
      PROVE  status'[Session(r)] = "running"
  <2>1. e # Global(r) /\ status[Global(r)] \in {"queued", "running"}
    BY <1>3, <1>5, RunCommands
  <2>2. e # Session(r) /\ status[Session(r)] = "running"
    BY <1>1, <2>1 DEF GlobalsNested
  <2> QED BY <1>3, <2>2, RunCommands
<1>6. ASSUME NEW r \in Runs, status'[Session(r)] = "running", status'[Global(r)] = "new"
      PROVE  Task(Session(r)) \in FramesOnStack'
  <2>1. e # Session(r) /\ status[Session(r)] = "running" /\ status[Global(r)] = "new"
    BY <1>3, <1>6, RunCommands
  <2>2. Task(Session(r)) \in FramesOnStack
    BY <1>1, <2>1 DEF SessionsPassOn
  <2> QED BY <1>4, <2>1, <2>2, RunCommands
<1> QED BY <1>5, <1>6 DEF GlobalsNested, SessionsPassOn, Global, Session

(* A session lane is cleared: no global command was queued in it. *)
LEMMA ClearKeepsLinks ==
  ASSUME RunInv, NEW s \in Sessions, ClearCommandLane(s)
  PROVE  GlobalsNested' /\ SessionsPassOn'
<1>1. /\ TypeOK /\ QueuesHoldPending /\ LanesApart /\ GlobalsNested /\ SessionsPassOn
  BY DEF RunInv, CoverInv, LaneInv, LanesConsistent
<1>2. s \in Lanes /\ s \notin {"main", "cron", "nested", "subagent"}
  BY RunLanes
<1>3. \A d \in Entries : status'[d] = IF d \in InQueue(s) THEN "cleared" ELSE status[d]
  BY DEF ClearCommandLane
<1>4. \A d \in Entries : d \in InQueue(s) => status[d] = "queued" /\ laneOf[d] = s
  BY <1>1, <1>2 DEF QueuesHoldPending
<1>5. \A r \in Runs : Global(r) \notin InQueue(s)
  BY <1>1, <1>2, <1>4, RunCommands DEF LanesApart
<1>6. \A r \in Runs : status'[Global(r)] = status[Global(r)]
  BY <1>3, <1>5, RunCommands
<1>7. \A r \in Runs : status'[Session(r)] = "running" <=> status[Session(r)] = "running"
  BY <1>3, <1>4, RunCommands
<1>8. FramesOnStack' = FramesOnStack
  BY DEF ClearCommandLane, FramesOnStack
<1> QED BY <1>1, <1>6, <1>7, <1>8 DEF GlobalsNested, SessionsPassOn, Global, Session

(* Each step of agent runs keeps a run's commands linked. *)
LEMMA LinkStep ==
  ASSUME RunInv, [RunNext]_<<vars, runVars>>
  PROVE  GlobalsNested' /\ SessionsPassOn'
<1>0. TypeOK /\ TasksOnStackRun /\ GlobalsNested /\ SessionsPassOn
  BY DEF RunInv, CoverInv, LaneInv
<1>1. CASE QueueStep
  <2>1. ASSUME NEW k \in Lanes, DrainLane(k) PROVE GlobalsNested' /\ SessionsPassOn'
    <3>1. ~Idle /\ Head(stack) = Drain(k) /\ (Return \/ Goto(Pump(k))) /\ status' = status
      BY <2>1 DEF DrainLane, OnTop, entryVars
    <3>2. \A r \in Runs : Head(stack) # Task(Session(r))
      BY <3>1, FramesDiffer
    <3> QED BY <1>0, <3>1, <3>2, FrameTypes, TasksStay, LinksKept, RunCommands
  <2>2. ASSUME NEW k \in Lanes, PumpExit(k) PROVE GlobalsNested' /\ SessionsPassOn'
    <3>1. ~Idle /\ Head(stack) = Pump(k) /\ Return /\ status' = status
      BY <2>2 DEF PumpExit, OnTop, entryVars
    <3>2. \A r \in Runs : Head(stack) # Task(Session(r))
      BY <3>1, FramesDiffer
    <3> QED BY <1>0, <3>1, <3>2, TasksStay, LinksKept, RunCommands
  <2>3. ASSUME NEW k \in Lanes, ResetDrainsLane(k) PROVE GlobalsNested' /\ SessionsPassOn'
    <3>1. ~Idle /\ Head(stack).op = "reset" /\ status' = status
      BY <2>3 DEF ResetDrainsLane, entryVars
    <3>2. \A r \in Runs : Head(stack) # Task(Session(r))
      BY <3>1 DEF Task
    <3>3. FramesOnStack = {Head(stack)} \cup Range(Tail(stack))
      BY <1>0, <3>1, StackSteps
    <3>4. Range(Tail(stack)) \subseteq FramesOnStack'
      BY <1>0, <2>3, ResetFrames DEF TasksOnStackRun
    <3> QED BY <1>0, <3>1, <3>2, <3>3, <3>4, LinksKept
  <2>4. CASE ResetEnds
    <3>1. ~Idle /\ Head(stack) = Reset({}) /\ Return /\ status' = status
      BY <2>4 DEF ResetEnds, OnTop, entryVars
    <3>2. \A r \in Runs : Head(stack) # Task(Session(r))
      BY <3>1, FramesDiffer
    <3> QED BY <1>0, <3>1, <3>2, TasksStay, LinksKept, RunCommands
  <2> QED BY <1>1, <2>1, <2>2, <2>3, <2>4, StartKeepsLinks DEF QueueStep
<1>2. ASSUME NEW r \in Runs, SessionTask(r) PROVE GlobalsNested' /\ SessionsPassOn'
  <2>1. CASE status[Global(r)] = "new" /\ TaskThrows(Session(r))
    BY <2>1, EndKeepsLinks, RunCommands
  <2>2. CASE Submit(Global(r))
    BY <1>2, <2>2, SubmitKeepsLinks, RunCommands DEF SessionTask
  <2>3. CASE status[Global(r)] # "new" /\ TaskAwaits(Session(r))
    <3>1. ~Idle /\ Head(stack) = Task(Session(r)) /\ Return /\ status' = status
      BY <2>3 DEF TaskAwaits, OnTop, entryVars
    <3>2. \A q \in Runs : status[Global(q)] = "new" => Head(stack) # Task(Session(q))
      BY <2>3, <3>1, RunCommands DEF Task
    <3> QED BY <1>0, <3>1, <3>2, TasksStay, LinksKept, RunCommands
  <2> QED BY <1>2, <2>1, <2>2, <2>3 DEF SessionTask
<1>3. ASSUME NEW e \in Entries, AsyncTask(e) PROVE GlobalsNested' /\ SessionsPassOn'
  <2>1. ~Idle /\ Head(stack) = Task(e) /\ Return /\ status' = status /\ e[2] # "session"
    BY <1>3 DEF AsyncTask, TaskAwaits, OnTop, entryVars
  <2>2. \A r \in Runs : Head(stack) # Task(Session(r))
    BY <2>1, RunCommands DEF Task
  <2> QED BY <1>0, <2>1, <2>2, TasksStay, LinksKept, RunCommands
<1>4. ASSUME NEW r \in Runs, StartRun(r) \/ StartJob(r) \/ JobStartsRun(r)
      PROVE  GlobalsNested' /\ SessionsPassOn'
  <2>1. Submit(Session(r)) \/ Submit(Job(r))
    BY <1>4 DEF StartRun, StartJob, JobStartsRun
  <2> QED BY <2>1, SubmitKeepsLinks, RunCommands
<1>5. ASSUME NEW r \in Runs, RunSettles(r) \/ JobSettles(r) \/ JobTimesOut(r)
      PROVE  GlobalsNested' /\ SessionsPassOn'
  <2>1. \/ Settle(Global(r)) \/ Settle(Job(r))
        \/ Settle(Session(r)) /\ status[Global(r)] \in Settled
    BY <1>5 DEF RunSettles, GlobalSettles, SessionSettles, JobSettles, JobTimesOut, Settle
  <2>2. status[Global(r)] \in Settled => status[Global(r)] \notin {"queued", "running"}
    BY DEF Settled
  <2> QED BY <2>1, <2>2, EndKeepsLinks, RunCommands
<1>6. ASSUME NEW s \in Sessions, Interrupt(s) PROVE GlobalsNested' /\ SessionsPassOn'
  <2>1. CASE UNCHANGED vars
    BY <1>0, <2>1, LinksKept DEF vars, FramesOnStack
  <2> QED BY <1>6, <2>1, ClearKeepsLinks DEF Interrupt
<1>7. ASSUME NEW l \in Lanes, NEW n \in 1..MaxLimit, ApplyLaneConcurrency(l, n)
      PROVE  GlobalsNested' /\ SessionsPassOn'
  <2>1. Call(Drain(l)) /\ status' = status
    BY <1>7 DEF ApplyLaneConcurrency, SetCommandLaneConcurrency, entryVars
  <2> QED BY <1>0, <2>1, FrameTypes, TasksStay, LinksKept, RunCommands
<1>8. CASE FinishRestart
  <2>1. Call(Reset(LanesToDrain)) /\ status' = status
    BY <1>8 DEF FinishRestart, ResetAllLanes, entryVars
  <2>2. Reset(LanesToDrain) \in Frame
    BY FrameTypes DEF LanesToDrain
  <2> QED BY <1>0, <2>1, <2>2, TasksStay, LinksKept, RunCommands
<1>9. CASE RequestRestart \/ (\E r \in Runs : Abort(r)) \/ UNCHANGED <<vars, runVars>>
  <2>1. status' = status /\ stack' = stack
    BY <1>9 DEF RequestRestart, MarkGatewayDraining, Abort, vars, entryVars
  <2> QED BY <1>0, <2>1, LinksKept DEF FramesOnStack
<1> QED BY <1>1, <1>2, <1>3, <1>4, <1>5, <1>6, <1>7, <1>8, <1>9 DEF RunNext, RunStep

(* Each step keeps the session lanes serial: the limits of other lanes are  *)
(* the only ones that are configured.                                       *)
LEMMA SerialStep ==
  ASSUME RunInv, [RunNext]_<<vars, runVars>>
  PROVE  SessionsSerial'
<1>0. TypeOK /\ LaneInv /\ SessionsSerial
  BY DEF RunInv, CoverInv
<1>1. \A s \in Sessions : s \in Lanes
  BY RunLanes
<1>2. ASSUME NEW k \in Lanes, PumpStart(k) PROVE SessionsSerial'
  <2> SUFFICES ASSUME NEW s \in Sessions
               PROVE  maxConcurrent'[s] = 1 /\ \A d, e \in activeTaskIds'[s] : d = e
    BY DEF SessionsSerial
  <2>1. maxConcurrent' = maxConcurrent
    BY <1>2 DEF PumpStart
  <2>2. CASE s # k
    BY <1>0, <1>1, <1>2, <2>1, <2>2 DEF PumpStart, TypeOK, SessionsSerial
  <2>3. CASE s = k
    <3>1. Cardinality(activeTaskIds[s]) < 1 /\ IsFiniteSet(activeTaskIds[s])
      BY <1>0, <1>1, <1>2, <2>3, EntriesAssumption, FS_Subset
      DEF PumpStart, Runnable, SessionsSerial, TypeOK
    <3>2. activeTaskIds[s] = {}
      BY <3>1, FS_CardinalityType, FS_EmptySet
    <3>3. activeTaskIds'[s] = {Head(queue[s])}
      BY <1>0, <1>1, <1>2, <2>3, <3>2 DEF PumpStart, TypeOK
    <3> QED BY <1>0, <2>1, <3>3 DEF SessionsSerial
  <2> QED BY <2>2, <2>3
<1>3. ASSUME maxConcurrent' = maxConcurrent,
             \A l \in Lanes : activeTaskIds'[l] \subseteq activeTaskIds[l]
      PROVE  SessionsSerial'
  BY <1>0, <1>1, <1>3 DEF SessionsSerial
<1>4. ASSUME NEW e \in Entries, TaskThrows(e) \/ Settle(e) PROVE SessionsSerial'
  <2>1. PICK outcome \in {"resolved", "rejected"}, callers \in Seq(Frame) :
          CompleteTask(e, outcome, callers)
    BY <1>0, <1>4, EndingTask
  <2>2. /\ maxConcurrent' = maxConcurrent
        /\ \A l \in Lanes : activeTaskIds'[l] \subseteq activeTaskIds[l]
    BY <1>0, <2>1 DEF CompleteTask, TypeOK
  <2> QED BY <1>3, <2>2
<1>5. ASSUME NEW e \in Entries, Submit(e) \/ TaskAwaits(e) PROVE SessionsSerial'
  BY <1>3, <1>5 DEF Submit, Enqueue, EnqueueRefused, TaskAwaits, laneVars
<1>6. CASE RunStep
  <2>1. CASE QueueStep
    <3>1. CASE \E k \in Lanes : PumpStart(k)
      BY <1>2, <3>1
    <3>2. CASE \/ \E k \in Lanes : DrainLane(k) \/ PumpExit(k) \/ ResetDrainsLane(k)
               \/ ResetEnds
      <4>1. maxConcurrent' = maxConcurrent /\ activeTaskIds' = activeTaskIds
        BY <3>2 DEF DrainLane, PumpExit, ResetDrainsLane, ResetEnds, laneVars
      <4> QED BY <1>3, <4>1
    <3> QED BY <2>1, <3>1, <3>2 DEF QueueStep
  <2>2. ASSUME NEW r \in Runs, SessionTask(r) PROVE SessionsSerial'
    BY <1>4, <1>5, <2>2, RunCommands DEF SessionTask
  <2>3. ASSUME NEW e \in Entries, AsyncTask(e) PROVE SessionsSerial'
    BY <1>5, <2>3 DEF AsyncTask
  <2> QED BY <1>6, <2>1, <2>2, <2>3 DEF RunStep
<1>7. ASSUME NEW r \in Runs, StartRun(r) \/ StartJob(r) \/ JobStartsRun(r)
      PROVE  SessionsSerial'
  BY <1>5, <1>7, RunCommands DEF StartRun, StartJob, JobStartsRun
<1>8. ASSUME NEW r \in Runs, RunSettles(r) \/ JobSettles(r) \/ JobTimesOut(r)
      PROVE  SessionsSerial'
  <2>1. Settle(Global(r)) \/ Settle(Job(r)) \/ Settle(Session(r))
    BY <1>8 DEF RunSettles, GlobalSettles, SessionSettles, JobSettles, JobTimesOut, Settle
  <2> QED BY <1>4, <2>1, RunCommands
<1>9. ASSUME NEW l \in Lanes, NEW n \in 1..MaxLimit, ApplyLaneConcurrency(l, n)
      PROVE  SessionsSerial'
  BY <1>0, <1>1, <1>9 DEF ApplyLaneConcurrency, SetCommandLaneConcurrency, SessionsSerial, TypeOK
<1>10. CASE FinishRestart
  BY <1>3, <1>10 DEF FinishRestart, ResetAllLanes
<1>11. CASE \/ RequestRestart \/ (\E r \in Runs : Abort(r))
            \/ (\E s \in Sessions : Interrupt(s)) \/ UNCHANGED <<vars, runVars>>
  <2>1. maxConcurrent' = maxConcurrent /\ activeTaskIds' = activeTaskIds
    BY <1>11 DEF RequestRestart, MarkGatewayDraining, Abort, Interrupt, ClearCommandLane,
                 vars, laneVars
  <2> QED BY <1>3, <2>1
<1> QED BY <1>6, <1>7, <1>8, <1>9, <1>10, <1>11 DEF RunNext

(* No command changes its lane. *)
LEMMA LanesFixed == [Next]_vars => laneOf' = laneOf
BY DEF Next, Operation, RunStack, Settle, Enqueue, EnqueueRefused, ClearCommandLane,
       SetCommandLaneConcurrency, MarkGatewayDraining, ResetAllLanes, WaitForActiveTasks,
       WaiterTimeout, DrainLane, PumpStart, PumpExit, TaskAwaits, TaskThrows, TaskSettles,
       CompleteTask, ResetDrainsLane, ResetEnds, vars, entryVars

(* Each step of agent runs keeps the invariant. *)
LEMMA RunInvStep == RunInv /\ [RunNext]_<<vars, runVars>> => RunInv'
<1> SUFFICES ASSUME RunInv, [RunNext]_<<vars, runVars>> PROVE RunInv'
  OBVIOUS
<1>1. [Next]_vars
  BY RunStepIsQueueStep
<1>2. CoverInv' /\ LaneInv'
  BY <1>1, CoverStep, LaneStep DEF RunInv
<1>3. LanesApart'
  BY <1>1, LanesFixed DEF RunInv, LanesApart, Job, Session, Global
<1> QED BY <1>2, <1>3, LinkStep, SerialStep DEF RunInv

(* In every behaviour of agent runs, cron jobs, aborts, interrupts and      *)
(* restarts, two runs work in one session at once only if one of them       *)
(* entered the session lane before a restart, for any number of runs and    *)
(* sessions and any concurrency limits.                                     *)
THEOREM SessionsAreExclusive == RunSpec => []SessionExclusive
<1>1. RunInv => SessionExclusive
  <2> SUFFICES ASSUME RunInv, NEW q \in Runs, NEW r \in Runs, q # r,
                      laneOf[Session(q)] = laneOf[Session(r)],
                      status[Global(q)] = "running", status[Global(r)] = "running",
                      \A p \in {q, r} :
                        ~(taskGeneration[Session(p)] < generation[laneOf[Session(p)]])
               PROVE  FALSE
    BY DEF SessionExclusive
  <2>1. /\ TypeOK /\ ActiveAreRunning /\ GenerationsPast
        /\ LanesApart /\ SessionsSerial /\ GlobalsNested
    BY DEF RunInv, CoverInv, LaneInv, LanesConsistent
  <2>2. laneOf[Session(q)] \in Lanes /\ laneOf[Session(q)] \in Sessions
    BY <2>1, RunLanes DEF LanesApart
  <2>3. ASSUME NEW p \in {q, r} PROVE Session(p) \in activeTaskIds[laneOf[Session(q)]]
    <3>1. status[Session(p)] = "running"
      BY <2>1 DEF GlobalsNested
    <3>2. /\ Session(p) \in Entries
          /\ taskGeneration[Session(p)] <= generation[laneOf[Session(p)]]
      BY <2>1, RunCommands DEF GenerationsPast
    <3>3. /\ taskGeneration[Session(p)] \in 0..MaxGeneration
          /\ generation[laneOf[Session(p)]] \in 0..MaxGeneration
      BY <2>1, <2>2, <3>2 DEF TypeOK
    <3>4. taskGeneration[Session(p)] = generation[laneOf[Session(p)]]
      BY <3>2, <3>3, BoundsAssumption
    <3> QED BY <2>1, <2>2, <3>1, <3>2, <3>4 DEF ActiveAreRunning
  <2>4. Session(q) = Session(r)
    BY <2>1, <2>2, <2>3 DEF SessionsSerial
  <2> QED BY <2>4, RunCommands
<1> QED BY <1>1, RunInvInit, RunInvStep, PTL DEF RunSpec

-----------------------------------------------------------------------------
(* Runs do not deadlock *)

(* Between turns, a command waits in a lane only behind a running one. *)
LEMMA QueuedBehindRunning ==
  ASSUME CoverInv, LaneInv, Idle, NEW e \in Entries, status[e] = "queued"
  PROVE  \E d \in Entries : status[d] = "running" /\ laneOf[d] = laneOf[e]
<1> DEFINE l == laneOf[e]
<1>1. TypeOK /\ QueuesHoldPending /\ ActiveAreRunning /\ RunnableCovered /\ l \in Lanes
  BY DEF CoverInv, LaneInv, LanesConsistent, TypeOK
<1>2. e \in InQueue(l)
  BY <1>1 DEF QueuesHoldPending
<1>3. queue[l] # <<>>
  BY <1>2 DEF InQueue, Range
<1>4. ~Runnable(l)
  <2>1. FramesOnStack = {}
    BY DEF Idle, FramesOnStack, Range
  <2> QED BY <1>1, <2>1 DEF RunnableCovered, Covered
<1>5. ~(Cardinality(activeTaskIds[l]) < maxConcurrent[l])
  BY <1>3, <1>4 DEF Runnable
<1>6. maxConcurrent[l] \in 1..MaxLimit
  BY <1>1 DEF TypeOK
<1>7. activeTaskIds[l] # {}
  BY <1>5, <1>6, BoundsAssumption, FS_EmptySet
<1> QED BY <1>1, <1>7 DEF ActiveAreRunning

(* The lanes of jobs, session commands and global commands are taken in     *)
(* that order only, so jobs, runs and agents never wait for each other in a *)
(* circle: "Cron jobs hold the cron lane slot; inner operations must use    *)
(* nested to avoid deadlock."  It holds for every number of runs, sessions  *)
(* and slots, across interrupts, aborts, limit changes and restarts.        *)
THEOREM RunsDoNotDeadlock == RunSpec => []SomeRunGoesOn
<1>1. RunInv => SomeRunGoesOn
  <2> SUFFICES ASSUME RunInv, Idle, NEW e \in Entries, status[e] \in {"queued", "running"}
               PROVE  \E r \in Runs :
                        \/ status[Global(r)] = "running"
                        \/ status[Session(r)] = "running" /\ status[Global(r)] \in Settled
                        \/ status[Job(r)] = "running"
                             /\ status[Session(r)] \in Settled \cup {"new"}
    BY DEF SomeRunGoesOn
  <2>1. /\ TypeOK /\ CoverInv /\ LaneInv /\ LanesApart /\ SessionsPassOn
    BY DEF RunInv, CoverInv
  <2>2. Sessions \cap {"main", "cron", "nested", "subagent"} = {}
    BY RunLanes
  <2>3. \A d \in Entries : status[d] \in {"new", "queued", "running"} \cup Settled
    BY <2>1 DEF TypeOK, Status
  <2>4. ASSUME NEW r \in Runs, status[Global(r)] \in {"queued", "running"}
        PROVE  \E p \in Runs : status[Global(p)] = "running"
    <3>1. CASE status[Global(r)] = "queued"
      <4>1. PICK d \in Entries : status[d] = "running" /\ laneOf[d] = laneOf[Global(r)]
        BY <2>1, <3>1, QueuedBehindRunning, RunCommands
      <4>2. laneOf[d] \in {"main", "nested", "subagent"}
        BY <2>1, <4>1 DEF LanesApart
      <4>3. PICK p \in Runs : d \in {Job(p), Session(p), Global(p)}
        BY RunCommands
      <4>4. d = Global(p)
        BY <2>1, <2>2, <4>2, <4>3 DEF LanesApart
      <4> QED BY <4>1, <4>4
    <3> QED BY <2>4, <3>1
  <2>5. ASSUME NEW r \in Runs, status[Session(r)] = "running"
        PROVE  \E p \in Runs : \/ status[Global(p)] = "running"
                               \/ status[Session(p)] = "running" /\ status[Global(p)] \in Settled
    <3>1. FramesOnStack = {}
      BY DEF Idle, FramesOnStack, Range
    <3>2. status[Global(r)] # "new"
      BY <2>1, <2>5, <3>1 DEF SessionsPassOn
    <3>3. status[Global(r)] \in {"queued", "running"} \cup Settled
      BY <2>3, <3>2, RunCommands
    <3> QED BY <2>4, <2>5, <3>3
  <2>6. ASSUME NEW r \in Runs, status[Session(r)] \in {"queued", "running"}
        PROVE  \E p \in Runs : status[Session(p)] = "running"
    <3>1. CASE status[Session(r)] = "queued"
      <4>1. PICK d \in Entries : status[d] = "running" /\ laneOf[d] = laneOf[Session(r)]
        BY <2>1, <3>1, QueuedBehindRunning, RunCommands
      <4>2. laneOf[d] \in Sessions
        BY <2>1, <4>1 DEF LanesApart
      <4>3. PICK p \in Runs : d \in {Job(p), Session(p), Global(p)}
        BY RunCommands
      <4>4. d = Session(p)
        BY <2>1, <2>2, <4>2, <4>3 DEF LanesApart
      <4> QED BY <4>1, <4>4
    <3> QED BY <2>6, <3>1
  <2>7. ASSUME NEW r \in Runs, status[Job(r)] = "running"
        PROVE  \/ status[Session(r)] \in Settled \cup {"new"}
               \/ \E p \in Runs : status[Session(p)] = "running"
    <3>1. status[Session(r)] \in {"new", "queued", "running"} \cup Settled
      BY <2>3, RunCommands
    <3> QED BY <2>6, <3>1
  <2>8. ASSUME NEW r \in Runs, status[Job(r)] \in {"queued", "running"}
        PROVE  \E p \in Runs : status[Job(p)] = "running"
    <3>1. CASE status[Job(r)] = "queued"
      <4>1. PICK d \in Entries : status[d] = "running" /\ laneOf[d] = laneOf[Job(r)]
        BY <2>1, <3>1, QueuedBehindRunning, RunCommands
      <4>2. laneOf[d] = "cron"
        BY <2>1, <4>1 DEF LanesApart
      <4>3. PICK p \in Runs : d \in {Job(p), Session(p), Global(p)}
        BY RunCommands
      <4>4. d = Job(p)
        BY <2>1, <2>2, <4>2, <4>3 DEF LanesApart
      <4> QED BY <4>1, <4>4
    <3> QED BY <2>8, <3>1
  <2>9. PICK r \in Runs : e \in {Job(r), Session(r), Global(r)}
    BY RunCommands
  <2> QED BY <2>4, <2>5, <2>6, <2>7, <2>8, <2>9
<1> QED BY <1>1, RunInvInit, RunInvStep, PTL DEF RunSpec

=============================================================================
