-------------------------- MODULE GatewayLockProofs -------------------------
(***************************************************************************)
(* Proofs about GatewayLock: type correctness, that no process that left   *)
(* through its loop leaves a lock file, and that the gateway implements     *)
(* GatewaySingleton.                                                        *)
(*                                                                          *)
(* The lock file does not give mutual exclusion: a starter may remove the  *)
(* file of an owner that has not bound yet.  What does is the port, so the *)
(* invariant ties the services to the port (PortOwned).  It is inductive    *)
(* only with what the two flows of a process may do at the same time        *)
(* (FlowsAgree).                                                            *)
(***************************************************************************)
EXTENDS GatewayLock, TLAPS

Looping == {"starting", "bound", "failing", "waiting"}

(* The signal handler of p works only inside its loop, acquireGatewayLock   *)
(* is called by one of the flows at a time and never with the lock held.    *)
FlowsAgree(p) ==
  /\ req[p] # "none" => main[p] \in Looping
  /\ acq[p] # "idle" => p \notin lock
  /\ acq[p] # "idle" => main[p] = "acquiring" \/ req[p] = "reacquiring"
  /\ p \in lock => main[p] \in Looping

(* Whoever serves, has a server or is about to have one holds the port, and *)
(* the port is not given back before the services have stopped.             *)
PortOwned(p) ==
  /\ p \in services => port = p
  /\ p \in server => port = p /\ main[p] \in {"starting", "waiting"}
  /\ main[p] \in {"bound", "failing"} => port = p
  /\ main[p] = "failing" => p \notin services
  /\ req[p] = "freeing" =>
       /\ p \notin services
       /\ main[p] = "waiting" \/ (main[p] = "starting" /\ p \in server)

(* A lock file belongs to a process that holds the lock, is about to, or    *)
(* died without cleaning up.                                                *)
FileOwned(p) == file.owner = p => p \in lock \cup died \/ acq[p] = "write"

IInv ==
  /\ TypeOK
  /\ \A p \in Procs : FlowsAgree(p) /\ PortOwned(p) /\ FileOwned(p)

-----------------------------------------------------------------------------
(* Type correctness *)

(* A lock file made by a process, whatever is in it. *)
LEMMA FileOf ==
  ASSUME NEW p \in Procs, NEW w \in BOOLEAN, NEW o \in BOOLEAN
  PROVE  [owner |-> p, written |-> w, old |-> o] \in Files
BY DEF Files

LEMMA InitTypeOK == Init => TypeOK
<1>. SUFFICES ASSUME Init PROVE TypeOK
  OBVIOUS
<1>1. file \in Files
  <2>1. CASE file = NoFile
    BY <2>1 DEF Files
  <2>2. CASE file \in [owner : Earlier, written : BOOLEAN, old : {FALSE}]
    <3>1. /\ file = [owner |-> file.owner, written |-> file.written, old |-> file.old]
          /\ file.owner \in Procs /\ file.written \in BOOLEAN /\ file.old \in BOOLEAN
      BY <2>2, ProcsAssumption
    <3>. QED BY <3>1, FileOf
  <2>. QED BY <2>1, <2>2 DEF Init
<1>. QED BY <1>1, ProcsAssumption, BoundsAssumption
        DEF Init, TypeOK, MainStates, ReqStates, AcqStates

LEMMA FileAgesTypeOK == TypeOK /\ FileAges => TypeOK'
BY DEF TypeOK, FileAges, Files, NoFile, flows, handles, counters

(* The steps of acquireGatewayLock keep the types. *)
LEMMA AcquireTypeOK ==
  ASSUME TypeOK, NEW p \in Procs,
         \/ OpenLock(p)
         \/ WritePayload(p)
         \/ WriteFails(p)
         \/ ReadPayload(p)
         \/ Judge(p)
         \/ RemoveLock(p)
         \/ TryAgain(p)
         \/ AcquireTimesOut(p)
  PROVE  TypeOK'
<1>1. CASE OpenLock(p)
  <2>1. file' \in Files
    BY <1>1, FileOf DEF TypeOK, OpenLock
  <2>. QED
    BY <1>1, <2>1 DEF TypeOK, OpenLock, handles, counters, Goto, MainStates,
        ReqStates, AcqStates
<1>2. CASE WritePayload(p)
  <2>1. file' \in Files
    <3>1. CASE file.owner = p
      <4>1. file \in [owner : Procs, written : BOOLEAN, old : BOOLEAN]
        BY <3>1, ProcsAssumption DEF TypeOK, Files, NoFile
      <4>2. file' \in [owner : Procs, written : BOOLEAN, old : BOOLEAN]
        BY <1>2, <3>1, <4>1 DEF WritePayload
      <4>. QED BY <4>2 DEF Files
    <3>2. CASE file.owner # p
      BY <1>2, <3>2 DEF TypeOK, WritePayload
    <3>. QED BY <3>1, <3>2
  <2>. QED
    BY <1>2, <2>1 DEF TypeOK, WritePayload, RestartResolved, counters, Goto,
        MainStates, ReqStates, AcqStates
<1>3. CASE WriteFails(p)
  BY <1>3 DEF TypeOK, WriteFails, Exit, counters, Goto, Files, MainStates,
      ReqStates, AcqStates
<1>4. CASE ReadPayload(p)
  <2>1. file.owner \in Procs \cup {NoProc}
    BY DEF TypeOK, Files, NoFile
  <2>. QED
    BY <1>4, <2>1 DEF TypeOK, ReadPayload, handles, counters, Goto, AcqStates
<1>5. CASE Judge(p)
  BY <1>5 DEF TypeOK, Judge, handles, counters, Goto, Files, MainStates,
      ReqStates, AcqStates
<1>6. CASE RemoveLock(p)
  BY <1>6 DEF TypeOK, RemoveLock, handles, counters, Goto, Files, MainStates,
      ReqStates, AcqStates
<1>7. CASE TryAgain(p)
  BY <1>7 DEF TypeOK, TryAgain, handles, counters, Goto, Files, MainStates,
      ReqStates, AcqStates
<1>8. CASE AcquireTimesOut(p)
  BY <1>8 DEF TypeOK, AcquireTimesOut, Exit, counters, Goto, Files,
      MainStates, ReqStates, AcqStates
<1>. QED BY <1>1, <1>2, <1>3, <1>4, <1>5, <1>6, <1>7, <1>8

(* The steps of the loop keep the types. *)
LEMMA MainTypeOK ==
  ASSUME TypeOK, NEW p \in Procs,
         \/ StartProcess(p)
         \/ Bind(p)
         \/ StartServices(p)
         \/ ServerStarted(p)
         \/ BindFails(p)
         \/ StartupFails(p)
         \/ StartupFailed(p)
         \/ StartupCloseThrows(p)
  PROVE  TypeOK'
<1>1. CASE StartProcess(p)
  BY <1>1 DEF TypeOK, StartProcess, handles, counters, Goto, Files,
      MainStates, ReqStates, AcqStates
<1>2. CASE Bind(p)
  BY <1>2 DEF TypeOK, Bind, handles, counters, Goto, Files, MainStates,
      ReqStates, AcqStates
<1>3. CASE StartServices(p)
  BY <1>3 DEF TypeOK, StartServices, flows, handles, counters, Goto, Files,
      MainStates, ReqStates, AcqStates
<1>4. CASE ServerStarted(p)
  BY <1>4 DEF TypeOK, ServerStarted, counters, Goto, Files, MainStates,
      ReqStates, AcqStates
<1>5. CASE BindFails(p)
  BY <1>5 DEF TypeOK, BindFails, StartFailed, ReleaseLockIfHeld, Exit,
      counters, Goto, Files, MainStates, ReqStates, AcqStates
<1>6. CASE StartupFails(p)
  BY <1>6 DEF TypeOK, StartupFails, handles, counters, Goto, Files,
      MainStates, ReqStates, AcqStates
<1>7. CASE StartupFailed(p)
  BY <1>7 DEF TypeOK, StartupFailed, StartFailed, ReleaseLockIfHeld, Exit,
      counters, Goto, Files, MainStates, ReqStates, AcqStates
<1>8. CASE StartupCloseThrows(p)
  BY <1>8 DEF TypeOK, StartupCloseThrows, StartFailed, ReleaseLockIfHeld,
      Exit, counters, Goto, Files, MainStates, ReqStates, AcqStates
<1>. QED BY <1>1, <1>2, <1>3, <1>4, <1>5, <1>6, <1>7, <1>8

(* The steps of signals keep the types. *)
LEMMA ShutdownTypeOK ==
  ASSUME TypeOK, NEW p \in Procs,
         \/ \E restart \in BOOLEAN : Request(p, restart)
         \/ CloseServices(p)
         \/ ClosePort(p)
         \/ NothingClosed(p)
         \/ ForceExit(p)
         \/ ReleaseAndExit(p)
         \/ ReleaseAndRestart(p)
         \/ Kill(p)
  PROVE  TypeOK'
<1>1. CASE \E restart \in BOOLEAN : Request(p, restart)
  BY <1>1, BoundsAssumption DEF TypeOK, Request, handles, counters, Goto, Files, MainStates,
      ReqStates, AcqStates
<1>2. CASE CloseServices(p)
  BY <1>2 DEF TypeOK, CloseServices, handles, counters, Goto, Files,
      MainStates, ReqStates, AcqStates
<1>3. CASE ClosePort(p)
  BY <1>3 DEF TypeOK, ClosePort, counters, Goto, Files, MainStates,
      ReqStates, AcqStates
<1>4. CASE NothingClosed(p)
  BY <1>4 DEF TypeOK, NothingClosed, counters, Goto, Files, MainStates,
      ReqStates, AcqStates
<1>5. CASE ForceExit(p)
  BY <1>5 DEF TypeOK, ForceExit, Exit, counters, Goto, Files, MainStates,
      ReqStates, AcqStates
<1>6. CASE ReleaseAndExit(p)
  BY <1>6 DEF TypeOK, ReleaseAndExit, ReleaseLockIfHeld, Exit, counters,
      Goto, Files, MainStates, ReqStates, AcqStates
<1>7. CASE ReleaseAndRestart(p)
  BY <1>7 DEF TypeOK, ReleaseAndRestart, ReleaseLockIfHeld, RestartResolved,
      counters, Goto, Files, MainStates, ReqStates, AcqStates
<1>8. CASE Kill(p)
  BY <1>8, BoundsAssumption DEF TypeOK, Kill, Exit, Goto, Files, MainStates, ReqStates,
      AcqStates
<1>. QED BY <1>1, <1>2, <1>3, <1>4, <1>5, <1>6, <1>7, <1>8

(* Every variable keeps its type, for any set of processes. *)
THEOREM TypeCorrect == Spec => []TypeOK
<1>1. TypeOK /\ [Next]_vars => TypeOK'
  <2>. SUFFICES ASSUME TypeOK, [Next]_vars PROVE TypeOK'
    OBVIOUS
  <2>1. CASE FileAges
    BY <2>1, FileAgesTypeOK
  <2>2. CASE UNCHANGED vars
    BY <2>2 DEF TypeOK, vars, flows, handles, counters
  <2>3. ASSUME NEW p \in Procs,
               \/ StartProcess(p) \/ Progress(p) \/ WriteFails(p) \/ ForceExit(p)
               \/ Kill(p) \/ \E restart \in BOOLEAN : Request(p, restart)
        PROVE  TypeOK'
    BY <2>3, AcquireTypeOK, MainTypeOK, ShutdownTypeOK
       DEF Progress, Acquire, Main, Shutdown
  <2>. QED BY <2>1, <2>2, <2>3 DEF Next
<1>. QED BY InitTypeOK, <1>1, PTL DEF Spec

-----------------------------------------------------------------------------
(* The inductive invariant *)

LEMMA InitIInv == Init => IInv
<1>. SUFFICES ASSUME Init PROVE IInv
  OBVIOUS
<1>1. TypeOK
  BY InitTypeOK
<1>2. \A p \in Procs : FlowsAgree(p) /\ PortOwned(p)
  BY DEF Init, FlowsAgree, PortOwned
<1>3. \A p \in Procs : FileOwned(p)
  <2>1. file = NoFile \/ file.owner \in Earlier
    BY DEF Init
  <2>. QED BY <2>1, ProcsAssumption DEF Init, FileOwned, NoFile
<1>. QED BY <1>1, <1>2, <1>3 DEF IInv

(* The steps of acquireGatewayLock keep the invariant. *)
LEMMA AcquireIInv ==
  ASSUME IInv, TypeOK', NEW p \in Procs,
         \/ OpenLock(p)
         \/ WritePayload(p)
         \/ WriteFails(p)
         \/ ReadPayload(p)
         \/ Judge(p)
         \/ RemoveLock(p)
         \/ TryAgain(p)
         \/ AcquireTimesOut(p)
  PROVE  IInv'
<1>. SUFFICES ASSUME NEW q \in Procs
             PROVE  FlowsAgree(q)' /\ PortOwned(q)' /\ FileOwned(q)'
  BY DEF IInv
<1>. USE ProcsAssumption DEF IInv, TypeOK, Looping, Goto
<1>1. CASE OpenLock(p)
  <2>1. FlowsAgree(q)'
    BY <1>1 DEF FlowsAgree, OpenLock, handles, counters
  <2>2. PortOwned(q)'
    BY <1>1 DEF PortOwned, FlowsAgree, OpenLock, handles, counters
  <2>3. FileOwned(q)'
    BY <1>1 DEF FileOwned, FlowsAgree, Files, NoFile, OpenLock, handles,
        counters
  <2>. QED BY <2>1, <2>2, <2>3
<1>2. CASE WritePayload(p)
  <2>1. FlowsAgree(q)'
    BY <1>2 DEF FlowsAgree, WritePayload, RestartResolved, counters
  <2>2. PortOwned(q)'
    BY <1>2 DEF PortOwned, FlowsAgree, WritePayload, RestartResolved,
        counters
  <2>3. FileOwned(q)'
    BY <1>2 DEF FileOwned, FlowsAgree, Files, NoFile, WritePayload,
        RestartResolved, counters
  <2>. QED BY <2>1, <2>2, <2>3
<1>3. CASE WriteFails(p)
  <2>1. FlowsAgree(q)'
    BY <1>3 DEF FlowsAgree, WriteFails, Exit, counters
  <2>2. PortOwned(q)'
    BY <1>3 DEF PortOwned, FlowsAgree, WriteFails, Exit, counters
  <2>3. FileOwned(q)'
    BY <1>3 DEF FileOwned, FlowsAgree, Files, NoFile, WriteFails, Exit,
        counters
  <2>. QED BY <2>1, <2>2, <2>3
<1>4. CASE ReadPayload(p)
  <2>1. FlowsAgree(q)'
    BY <1>4 DEF FlowsAgree, ReadPayload, handles, counters
  <2>2. PortOwned(q)'
    BY <1>4 DEF PortOwned, FlowsAgree, ReadPayload, handles, counters
  <2>3. FileOwned(q)'
    BY <1>4 DEF FileOwned, FlowsAgree, Files, NoFile, ReadPayload, handles,
        counters
  <2>. QED BY <2>1, <2>2, <2>3
<1>5. CASE Judge(p)
  <2>1. FlowsAgree(q)'
    BY <1>5 DEF FlowsAgree, Judge, handles, counters
  <2>2. PortOwned(q)'
    BY <1>5 DEF PortOwned, FlowsAgree, Judge, handles, counters
  <2>3. FileOwned(q)'
    BY <1>5 DEF FileOwned, FlowsAgree, Files, NoFile, Judge, handles,
        counters
  <2>. QED BY <2>1, <2>2, <2>3
<1>6. CASE RemoveLock(p)
  <2>1. FlowsAgree(q)'
    BY <1>6 DEF FlowsAgree, RemoveLock, handles, counters
  <2>2. PortOwned(q)'
    BY <1>6 DEF PortOwned, FlowsAgree, RemoveLock, handles, counters
  <2>3. FileOwned(q)'
    BY <1>6 DEF FileOwned, FlowsAgree, Files, NoFile, RemoveLock, handles,
        counters
  <2>. QED BY <2>1, <2>2, <2>3
<1>7. CASE TryAgain(p)
  <2>1. FlowsAgree(q)'
    BY <1>7 DEF FlowsAgree, TryAgain, handles, counters
  <2>2. PortOwned(q)'
    BY <1>7 DEF PortOwned, FlowsAgree, TryAgain, handles, counters
  <2>3. FileOwned(q)'
    BY <1>7 DEF FileOwned, FlowsAgree, Files, NoFile, TryAgain, handles,
        counters
  <2>. QED BY <2>1, <2>2, <2>3
<1>8. CASE AcquireTimesOut(p)
  <2>1. FlowsAgree(q)'
    BY <1>8 DEF FlowsAgree, AcquireTimesOut, Exit, counters
  <2>2. PortOwned(q)'
    BY <1>8 DEF PortOwned, FlowsAgree, AcquireTimesOut, Exit, counters
  <2>3. FileOwned(q)'
    BY <1>8 DEF FileOwned, FlowsAgree, Files, NoFile, AcquireTimesOut, Exit,
        counters
  <2>. QED BY <2>1, <2>2, <2>3
<1>. QED BY <1>1, <1>2, <1>3, <1>4, <1>5, <1>6, <1>7, <1>8

(* The steps of the loop keep the invariant. *)
LEMMA MainIInv ==
  ASSUME IInv, TypeOK', NEW p \in Procs,
         \/ StartProcess(p)
         \/ Bind(p)
         \/ StartServices(p)
         \/ ServerStarted(p)
         \/ BindFails(p)
         \/ StartupFails(p)
         \/ StartupFailed(p)
         \/ StartupCloseThrows(p)
  PROVE  IInv'
<1>. SUFFICES ASSUME NEW q \in Procs
             PROVE  FlowsAgree(q)' /\ PortOwned(q)' /\ FileOwned(q)'
  BY DEF IInv
<1>. USE ProcsAssumption DEF IInv, TypeOK, Looping, Goto
<1>1. CASE StartProcess(p)
  <2>1. FlowsAgree(q)'
    BY <1>1 DEF FlowsAgree, StartProcess, handles, counters
  <2>2. PortOwned(q)'
    BY <1>1 DEF PortOwned, FlowsAgree, StartProcess, handles, counters
  <2>3. FileOwned(q)'
    BY <1>1 DEF FileOwned, FlowsAgree, Files, NoFile, StartProcess, handles,
        counters
  <2>. QED BY <2>1, <2>2, <2>3
<1>2. CASE Bind(p)
  <2>1. FlowsAgree(q)'
    BY <1>2 DEF FlowsAgree, Bind, handles, counters
  <2>2. PortOwned(q)'
    BY <1>2 DEF PortOwned, FlowsAgree, Bind, handles, counters
  <2>3. FileOwned(q)'
    BY <1>2 DEF FileOwned, FlowsAgree, Files, NoFile, Bind, handles, counters
  <2>. QED BY <2>1, <2>2, <2>3
<1>3. CASE StartServices(p)
  <2>1. FlowsAgree(q)'
    BY <1>3 DEF FlowsAgree, StartServices, flows, handles, counters
  <2>2. PortOwned(q)'
    BY <1>3 DEF PortOwned, FlowsAgree, StartServices, flows, handles,
        counters
  <2>3. FileOwned(q)'
    BY <1>3 DEF FileOwned, FlowsAgree, Files, NoFile, StartServices, flows,
        handles, counters
  <2>. QED BY <2>1, <2>2, <2>3
<1>4. CASE ServerStarted(p)
  <2>1. FlowsAgree(q)'
    BY <1>4 DEF FlowsAgree, ServerStarted, counters
  <2>2. PortOwned(q)'
    BY <1>4 DEF PortOwned, FlowsAgree, ServerStarted, counters
  <2>3. FileOwned(q)'
    BY <1>4 DEF FileOwned, FlowsAgree, Files, NoFile, ServerStarted, counters
  <2>. QED BY <2>1, <2>2, <2>3
<1>5. CASE BindFails(p)
  <2>1. FlowsAgree(q)'
    BY <1>5 DEF FlowsAgree, BindFails, StartFailed, ReleaseLockIfHeld, Exit,
        counters
  <2>2. PortOwned(q)'
    BY <1>5 DEF PortOwned, FlowsAgree, BindFails, StartFailed,
        ReleaseLockIfHeld, Exit, counters
  <2>3. FileOwned(q)'
    BY <1>5 DEF FileOwned, FlowsAgree, Files, NoFile, BindFails, StartFailed,
        ReleaseLockIfHeld, Exit, counters
  <2>. QED BY <2>1, <2>2, <2>3
<1>6. CASE StartupFails(p)
  <2>1. FlowsAgree(q)'
    BY <1>6 DEF FlowsAgree, StartupFails, handles, counters
  <2>2. PortOwned(q)'
    BY <1>6 DEF PortOwned, FlowsAgree, StartupFails, handles, counters
  <2>3. FileOwned(q)'
    BY <1>6 DEF FileOwned, FlowsAgree, Files, NoFile, StartupFails, handles,
        counters
  <2>. QED BY <2>1, <2>2, <2>3
<1>7. CASE StartupFailed(p)
  <2>1. FlowsAgree(q)'
    BY <1>7 DEF FlowsAgree, StartupFailed, StartFailed, ReleaseLockIfHeld,
        Exit, counters
  <2>2. PortOwned(q)'
    BY <1>7 DEF PortOwned, FlowsAgree, StartupFailed, StartFailed,
        ReleaseLockIfHeld, Exit, counters
  <2>3. FileOwned(q)'
    BY <1>7 DEF FileOwned, FlowsAgree, Files, NoFile, StartupFailed,
        StartFailed, ReleaseLockIfHeld, Exit, counters
  <2>. QED BY <2>1, <2>2, <2>3
<1>8. CASE StartupCloseThrows(p)
  <2>1. FlowsAgree(q)'
    BY <1>8 DEF FlowsAgree, StartupCloseThrows, StartFailed,
        ReleaseLockIfHeld, Exit, counters
  <2>2. PortOwned(q)'
    BY <1>8 DEF PortOwned, FlowsAgree, StartupCloseThrows, StartFailed,
        ReleaseLockIfHeld, Exit, counters
  <2>3. FileOwned(q)'
    BY <1>8 DEF FileOwned, FlowsAgree, Files, NoFile, StartupCloseThrows,
        StartFailed, ReleaseLockIfHeld, Exit, counters
  <2>. QED BY <2>1, <2>2, <2>3
<1>. QED BY <1>1, <1>2, <1>3, <1>4, <1>5, <1>6, <1>7, <1>8

(* The steps of signals keep the invariant. *)
LEMMA ShutdownIInv ==
  ASSUME IInv, TypeOK', NEW p \in Procs,
         \/ \E restart \in BOOLEAN : Request(p, restart)
         \/ CloseServices(p)
         \/ ClosePort(p)
         \/ NothingClosed(p)
         \/ ForceExit(p)
         \/ ReleaseAndExit(p)
         \/ ReleaseAndRestart(p)
         \/ Kill(p)
  PROVE  IInv'
<1>. SUFFICES ASSUME NEW q \in Procs
             PROVE  FlowsAgree(q)' /\ PortOwned(q)' /\ FileOwned(q)'
  BY DEF IInv
<1>. USE ProcsAssumption DEF IInv, TypeOK, Looping, Goto
<1>1. CASE \E restart \in BOOLEAN : Request(p, restart)
  <2>1. FlowsAgree(q)'
    BY <1>1 DEF FlowsAgree, Request, handles, counters
  <2>2. PortOwned(q)'
    BY <1>1 DEF PortOwned, FlowsAgree, Request, handles, counters
  <2>3. FileOwned(q)'
    BY <1>1 DEF FileOwned, FlowsAgree, Files, NoFile, Request, handles,
        counters
  <2>. QED BY <2>1, <2>2, <2>3
<1>2. CASE CloseServices(p)
  <2>1. FlowsAgree(q)'
    BY <1>2 DEF FlowsAgree, CloseServices, handles, counters
  <2>2. PortOwned(q)'
    BY <1>2 DEF PortOwned, FlowsAgree, CloseServices, handles, counters
  <2>3. FileOwned(q)'
    BY <1>2 DEF FileOwned, FlowsAgree, Files, NoFile, CloseServices, handles,
        counters
  <2>. QED BY <2>1, <2>2, <2>3
<1>3. CASE ClosePort(p)
  <2>1. FlowsAgree(q)'
    BY <1>3 DEF FlowsAgree, ClosePort, counters
  <2>2. PortOwned(q)'
    BY <1>3 DEF PortOwned, FlowsAgree, ClosePort, counters
  <2>3. FileOwned(q)'
    BY <1>3 DEF FileOwned, FlowsAgree, Files, NoFile, ClosePort, counters
  <2>. QED BY <2>1, <2>2, <2>3
<1>4. CASE NothingClosed(p)
  <2>1. FlowsAgree(q)'
    BY <1>4 DEF FlowsAgree, NothingClosed, counters
  <2>2. PortOwned(q)'
    BY <1>4 DEF PortOwned, FlowsAgree, NothingClosed, counters
  <2>3. FileOwned(q)'
    BY <1>4 DEF FileOwned, FlowsAgree, Files, NoFile, NothingClosed, counters
  <2>. QED BY <2>1, <2>2, <2>3
<1>5. CASE ForceExit(p)
  <2>1. FlowsAgree(q)'
    BY <1>5 DEF FlowsAgree, ForceExit, Exit, counters
  <2>2. PortOwned(q)'
    BY <1>5 DEF PortOwned, FlowsAgree, ForceExit, Exit, counters
  <2>3. FileOwned(q)'
    BY <1>5 DEF FileOwned, FlowsAgree, Files, NoFile, ForceExit, Exit,
        counters
  <2>. QED BY <2>1, <2>2, <2>3
<1>6. CASE ReleaseAndExit(p)
  <2>1. FlowsAgree(q)'
    BY <1>6 DEF FlowsAgree, ReleaseAndExit, ReleaseLockIfHeld, Exit, counters
  <2>2. PortOwned(q)'
    BY <1>6 DEF PortOwned, FlowsAgree, ReleaseAndExit, ReleaseLockIfHeld,
        Exit, counters
  <2>3. FileOwned(q)'
    BY <1>6 DEF FileOwned, FlowsAgree, Files, NoFile, ReleaseAndExit,
        ReleaseLockIfHeld, Exit, counters
  <2>. QED BY <2>1, <2>2, <2>3
<1>7. CASE ReleaseAndRestart(p)
  <2>1. FlowsAgree(q)'
    BY <1>7 DEF FlowsAgree, ReleaseAndRestart, ReleaseLockIfHeld,
        RestartResolved, counters
  <2>2. PortOwned(q)'
    BY <1>7 DEF PortOwned, FlowsAgree, ReleaseAndRestart, ReleaseLockIfHeld,
        RestartResolved, counters
  <2>3. FileOwned(q)'
    BY <1>7 DEF FileOwned, FlowsAgree, Files, NoFile, ReleaseAndRestart,
        ReleaseLockIfHeld, RestartResolved, counters
  <2>. QED BY <2>1, <2>2, <2>3
<1>8. CASE Kill(p)
  <2>1. FlowsAgree(q)'
    BY <1>8 DEF FlowsAgree, Kill, Exit
  <2>2. PortOwned(q)'
    BY <1>8 DEF PortOwned, FlowsAgree, Kill, Exit
  <2>3. FileOwned(q)'
    BY <1>8 DEF FileOwned, FlowsAgree, Files, NoFile, Kill, Exit
  <2>. QED BY <2>1, <2>2, <2>3
<1>. QED BY <1>1, <1>2, <1>3, <1>4, <1>5, <1>6, <1>7, <1>8

LEMMA StepIInv == IInv /\ TypeOK' /\ [Next]_vars => IInv'
<1>. SUFFICES ASSUME IInv, TypeOK', [Next]_vars PROVE IInv'
  OBVIOUS
<1>1. CASE FileAges
  BY <1>1 DEF IInv, TypeOK, FlowsAgree, PortOwned, FileOwned, FileAges, Files, NoFile,
              flows, handles, counters
<1>2. CASE UNCHANGED vars
  BY <1>2 DEF IInv, FlowsAgree, PortOwned, FileOwned, vars, flows, handles, counters
<1>3. ASSUME NEW p \in Procs,
             \/ StartProcess(p) \/ Progress(p) \/ WriteFails(p) \/ ForceExit(p)
             \/ Kill(p) \/ \E restart \in BOOLEAN : Request(p, restart)
      PROVE  IInv'
  BY <1>3, AcquireIInv, MainIInv, ShutdownIInv DEF Progress, Acquire, Main, Shutdown
<1>. QED BY <1>1, <1>2, <1>3 DEF Next

LEMMA Invariance == Spec => []IInv
BY InitIInv, StepIInv, TypeCorrect, PTL DEF Spec

(* A process that ends through its loop leaves no lock file behind. *)
THEOREM LockCleanedUp == Spec => []NoLeftoverLock
<1>1. IInv => NoLeftoverLock
  BY ProcsAssumption
     DEF IInv, TypeOK, FlowsAgree, FileOwned, NoLeftoverLock, Alive, Files, NoFile, Looping
<1>. QED BY <1>1, Invariance, PTL

-----------------------------------------------------------------------------
(* The refinement *)

(* Whoever serves holds the port, so there is at most one. *)
LEMMA AtMostOne ==
  ASSUME IInv, NEW p \in services
  PROVE  services = {p}
BY DEF IInv, TypeOK, PortOwned

(* Services start and stop one gateway at a time. *)
LEMMA ServicesStep ==
  ASSUME IInv, NEW p \in Procs,
         \/ main[p] = "bound" /\ services' = services \cup {p}
         \/ services' = services \ {p}
         \/ UNCHANGED services
  PROVE  [Singleton!Next]_services
<1>1. CASE main[p] = "bound" /\ services' = services \cup {p}
  <2>1. CASE services = {}
    BY <1>1, <2>1 DEF Singleton!Next, Singleton!Serve
  <2>2. CASE services # {}
    <3>. PICK q \in services : TRUE
      BY <2>2
    <3>1. port = p /\ port = q
      BY <1>1 DEF IInv, TypeOK, PortOwned
    <3>. QED BY <1>1, <3>1
  <2>. QED BY <2>1, <2>2
<1>2. CASE services' = services \ {p}
  <2>1. CASE p \in services
    BY <1>2, <2>1, AtMostOne DEF Singleton!Next, Singleton!Cease
  <2>2. CASE p \notin services
    BY <1>2, <2>2
  <2>. QED BY <2>1, <2>2
<1>. QED BY <1>1, <1>2

(* The gateway implements GatewaySingleton: whatever happens to the lock    *)
(* file, the services of two gateways never run at the same time.           *)
THEOREM ImplementsSingleton == Spec => OneGateway
<1>1. Init => Singleton!Init
  BY DEF Init, Singleton!Init
<1>2. IInv /\ [Next]_vars => [Singleton!Next]_services
  <2>. SUFFICES ASSUME IInv, [Next]_vars PROVE [Singleton!Next]_services
    OBVIOUS
  <2>1. CASE FileAges \/ UNCHANGED vars
    BY <2>1 DEF FileAges, vars
  <2>2. ASSUME NEW p \in Procs,
               \/ StartProcess(p) \/ Progress(p) \/ WriteFails(p) \/ ForceExit(p)
               \/ Kill(p) \/ \E restart \in BOOLEAN : Request(p, restart)
        PROVE  [Singleton!Next]_services
    <3>1. \/ main[p] = "bound" /\ services' = services \cup {p}
          \/ services' = services \ {p}
          \/ UNCHANGED services
      BY <2>2 DEF Progress, Acquire, Main, Shutdown, StartProcess, OpenLock,
         WritePayload, WriteFails, ReadPayload, Judge, RemoveLock, TryAgain,
         AcquireTimesOut, Bind, StartServices, ServerStarted, BindFails, StartupFails,
         StartupFailed, StartupCloseThrows, StartFailed, Request, CloseServices,
         ClosePort, NothingClosed, ForceExit, ReleaseAndExit, ReleaseAndRestart,
         Kill, Exit
    <3>. QED BY <3>1, ServicesStep
  <2>. QED BY <2>1, <2>2 DEF Next
<1>. QED BY <1>1, <1>2, Invariance, PTL DEF Spec, OneGateway, Singleton!Spec
=============================================================================
