----------------------------- MODULE GatewayLock ----------------------------
(***************************************************************************)
(* Gateway processes of one host that contend for one lock file            *)
(* (infra/gateway-lock.ts) and one TCP port (gateway/server/http-listen.ts)*)
(* under the run loop of cli/gateway-cli/run-loop.ts: acquire the lock,    *)
(* start the server, and on a signal close it, release the lock and exit   *)
(* or start again in the same process.                                      *)
(*                                                                          *)
(* In a process two flows interleave at every await: the loop (main) and   *)
(* the handler of a stop or restart signal (req).  Either may be inside    *)
(* acquireGatewayLock (acq).                                                *)
(*                                                                          *)
(* Abstractions.  A process starts once, so an owner in a payload is a pid *)
(* with its start time.  Time is left to choice: the loop head of          *)
(* acquireGatewayLock may time out whenever it is reached again, and a     *)
(* payload-less file passes staleMs at any moment once its creator is no   *)
(* longer between open and write, which takes far less than 30 s.  /proc   *)
(* is readable, so "unknown" is the status of a file without payload.  A   *)
(* process that ends by any exit gives its port back (the OS does).         *)
(* close and rm of releaseLockIfHeld, and lock = null after them, are one  *)
(* step.                                                                    *)
(***************************************************************************)
EXTENDS Naturals, FiniteSets

CONSTANTS Procs,      \* gateway processes started on this host
          NoProc,     \* nobody
          Earlier,    \* processes that died before, perhaps with a lock file left
          Supervised, \* processes under launchd, systemd or schtasks
          MaxKills,   \* bound: processes killed
          MaxSignals  \* bound: stop and restart signals handled

ASSUME ProcsAssumption ==
  NoProc \notin Procs /\ Supervised \subseteq Procs /\ Earlier \subseteq Procs
ASSUME BoundsAssumption == MaxKills \in Nat /\ MaxSignals \in Nat

VARIABLES file,         \* the lock file: who made it, what a reader finds
          port,         \* the process that listens on the port
          main,         \* where the loop of each process is
          req,          \* where the signal handler of each process is
          acq,          \* where acquireGatewayLock is, in either of them
          isRestart,    \* processes whose last signal asked for a restart
          seen,         \* the owner in the payload acquireGatewayLock read
          lock,         \* processes whose lock variable is set
          server,       \* processes whose server variable is set
          isFirstStart, \* processes no server was started in yet
          services,     \* processes whose gateway services run
          died,         \* processes that ended without cleaning up
          kills, signals

flows == <<main, req, acq, seen, isRestart>>
handles == <<lock, server, isFirstStart>>
counters == <<kills, signals>>
vars == <<file, port, flows, handles, services, died, counters>>

NoFile == [owner |-> NoProc, written |-> FALSE, old |-> FALSE]
Files == [owner : Procs, written : BOOLEAN, old : BOOLEAN] \cup {NoFile}

MainStates == {"new", "acquiring", "starting", "bound", "failing",
               "waiting", "gone"}
ReqStates == {"none", "closing", "freeing", "releasing", "reacquiring"}
AcqStates == {"idle", "open", "write", "read", "judge", "remove", "retry"}

(* Every variable has the type the code gives it. *)
TypeOK ==
  /\ file \in Files
  /\ port \in Procs \cup {NoProc}
  /\ main \in [Procs -> MainStates]
  /\ req \in [Procs -> ReqStates]
  /\ acq \in [Procs -> AcqStates]
  /\ seen \in [Procs -> Procs \cup {NoProc}]
  /\ isRestart \subseteq Procs
  /\ lock \subseteq Procs /\ server \subseteq Procs
  /\ isFirstStart \subseteq Procs /\ services \subseteq Procs
  /\ died \subseteq Procs
  /\ kills \in 0..MaxKills /\ signals \in 0..MaxSignals

Init ==
  /\ file \in {NoFile} \cup [owner : Earlier, written : BOOLEAN, old : {FALSE}]
  /\ port = NoProc
  /\ main = [p \in Procs |-> IF p \in Earlier THEN "gone" ELSE "new"]
  /\ req = [p \in Procs |-> "none"]
  /\ acq = [p \in Procs |-> "idle"]
  /\ seen = [p \in Procs |-> NoProc]
  /\ isRestart = {} /\ lock = {} /\ server = {} /\ isFirstStart = Procs
  /\ services = {} /\ died = Earlier
  /\ kills = 0 /\ signals = 0

Goto(pc, p, to) == pc' = [pc EXCEPT ![p] = to]

Alive(p) == main[p] \notin {"new", "gone"}

(* The process ends: its flows, services and port go with it. *)
Exit(p) ==
  /\ Goto(main, p, "gone") /\ Goto(req, p, "none") /\ Goto(acq, p, "idle")
  /\ Goto(seen, p, NoProc)
  /\ lock' = lock \ {p} /\ server' = server \ {p}
  /\ services' = services \ {p}
  /\ port' = IF port = p THEN NoProc ELSE port

-----------------------------------------------------------------------------
(* acquireGatewayLock *)

(* open(lockPath, "wx"): create the file, or find that there is one. *)
OpenLock(p) ==
  /\ acq[p] = "open"
  /\ IF file = NoFile
       THEN /\ file' = [owner |-> p, written |-> FALSE, old |-> FALSE]
            /\ Goto(acq, p, "write")
       ELSE /\ Goto(acq, p, "read")
            /\ UNCHANGED file
  /\ UNCHANGED <<port, main, req, seen, isRestart, handles, services, died, counters>>

Mut_StaysShuttingDown(p) ==
  /\ UNCHANGED req
  /\ main' = IF main[p] = "waiting" THEN [main EXCEPT ![p] = "starting"] ELSE main

(* shuttingDown = false; restartResolver?.(): the loop goes on if it waits. *)
RestartResolved(p) ==
  /\ Goto(req, p, "none")
  /\ main' = IF main[p] = "waiting" THEN [main EXCEPT ![p] = "starting"] ELSE main

(* The payload is written through the handle, wherever the path leads now;  *)
(* acquireGatewayLock returns the lock to whichever flow called it.         *)
WritePayload(p) ==
  /\ acq[p] = "write"
  /\ file' = IF file.owner = p THEN [file EXCEPT !.written = TRUE] ELSE file
  /\ lock' = lock \cup {p}
  /\ Goto(acq, p, "idle")
  /\ IF req[p] = "reacquiring"
       THEN RestartResolved(p)
       ELSE Goto(main, p, "starting") /\ UNCHANGED req
  /\ UNCHANGED <<port, seen, isRestart, server, isFirstStart, services, died, counters>>

(* The write fails: not EEXIST, so it is thrown, and the file stays. *)
WriteFails(p) ==
  /\ acq[p] = "write"
  /\ Exit(p)
  /\ died' = died \cup {p}
  /\ UNCHANGED <<file, isRestart, isFirstStart, counters>>

(* readLockPayload: null if the file is gone, empty or half written. *)
ReadPayload(p) ==
  /\ acq[p] = "read"
  /\ Goto(seen, p, IF file.written THEN file.owner ELSE NoProc)
  /\ Goto(acq, p, "judge")
  /\ UNCHANGED <<file, port, main, req, isRestart, handles, services, died, counters>>

Mut_NeverStale == FALSE

(* A file without payload whose mtime is older than staleMs. *)
Stale == file # NoFile /\ file.old

(* resolveGatewayOwnerStatus: the owner counts as dead if nobody answers on *)
(* the port, a probe that times out included, or if it has ended.  Without  *)
(* an owner the age of the file decides.                                    *)
Judge(p) ==
  /\ acq[p] = "judge"
  /\ \E portFree \in {port = NoProc, TRUE} :
       Goto(acq, p, IF IF seen[p] = NoProc THEN Stale
                       ELSE portFree \/ ~Alive(seen[p])
                    THEN "remove" ELSE "retry")
  /\ UNCHANGED <<file, port, main, req, seen, isRestart, handles, services, died,
                 counters>>

(* rm(lockPath, force): whatever file is there by now. *)
RemoveLock(p) ==
  /\ acq[p] = "remove"
  /\ file' = NoFile
  /\ Goto(acq, p, "retry")
  /\ UNCHANGED <<port, main, req, seen, isRestart, handles, services, died, counters>>

(* The loop head: another attempt, or the timeout.  A timed out start under *)
(* a supervisor begins again (gateway-cli/run.ts).                          *)
TryAgain(p) ==
  /\ acq[p] = "retry"
  /\ Goto(acq, p, "open")
  /\ UNCHANGED <<file, port, main, req, seen, isRestart, handles, services, died, counters>>

(* "gateway already running": without a supervisor, or during an in-process *)
(* restart, the process exits.                                              *)
AcquireTimesOut(p) ==
  /\ acq[p] = "retry"
  /\ p \notin Supervised \/ req[p] = "reacquiring"
  /\ Exit(p)
  /\ UNCHANGED <<file, isRestart, isFirstStart, died, counters>>

Acquire(p) ==
  \/ OpenLock(p) \/ WritePayload(p) \/ ReadPayload(p) \/ Judge(p)
  \/ RemoveLock(p) \/ TryAgain(p) \/ AcquireTimesOut(p)

(* A file nobody is about to write to passes staleMs. *)
FileAges ==
  /\ file # NoFile /\ ~file.written /\ ~file.old
  /\ acq[file.owner] # "write"
  /\ file' = [file EXCEPT !.old = TRUE]
  /\ UNCHANGED <<port, flows, handles, services, died, counters>>

-----------------------------------------------------------------------------
(* The loop: startGatewayServer *)

StartProcess(p) ==
  /\ main[p] = "new"
  /\ Goto(main, p, "acquiring") /\ Goto(acq, p, "open")
  /\ UNCHANGED <<file, port, req, seen, isRestart, handles, services, died, counters>>

(* listenGatewayHttpServer: the exclusive bind. *)
Bind(p) ==
  /\ main[p] = "starting"
  /\ port = NoProc
  /\ port' = p
  /\ Goto(main, p, "bound")
  /\ UNCHANGED <<file, req, acq, seen, isRestart, handles, services, died, counters>>

(* startGatewayEarlyRuntime ... startGatewayPostAttachRuntime *)
StartServices(p) ==
  /\ main[p] = "bound" /\ p \notin services
  /\ services' = services \cup {p}
  /\ UNCHANGED <<file, port, flows, handles, died, counters>>

ServerStarted(p) ==
  /\ main[p] = "bound" /\ p \in services
  /\ server' = server \cup {p}
  /\ isFirstStart' = isFirstStart \ {p}
  /\ Goto(main, p, "waiting")
  /\ UNCHANGED <<file, port, req, acq, seen, isRestart, lock, services, died, counters>>

Mut_KeepLock(p) == UNCHANGED file

(* releaseLockIfHeld: rm(lockPath, force), whoever wrote the file. *)
ReleaseLockIfHeld(p) == file' = IF p \in lock THEN NoFile ELSE file

(* params.start throws.  The first time the error ends the process after    *)
(* the finally of runGatewayLoop, also if a restart signal that came during *)
(* the start has just made a new lock file; later the process stays,        *)
(* without lock and server.                                                 *)
StartFailed(p, portAfter) ==
  /\ ReleaseLockIfHeld(p)
  /\ IF p \in isFirstStart
       THEN /\ Exit(p)
            /\ died' = IF acq[p] = "write" THEN died \cup {p} ELSE died
       ELSE /\ lock' = lock \ {p} /\ server' = server \ {p}
            /\ Goto(main, p, "waiting")
            /\ port' = portAfter
            /\ UNCHANGED <<req, acq, seen, services, died>>
  /\ UNCHANGED <<isRestart, isFirstStart, counters>>

(* The port is taken (perhaps by an old server of this process that could   *)
(* not be closed), or something else before or at the bind fails.           *)
BindFails(p) == main[p] = "starting" /\ StartFailed(p, port)

(* After the bind: closeOnStartupFailure stops the services, then frees the *)
(* port; either may throw, and what it has not reached stays as it is.      *)
StartupFails(p) ==
  /\ main[p] = "bound"
  /\ Goto(main, p, "failing")
  /\ services' = services \ {p}
  /\ UNCHANGED <<file, port, req, acq, seen, isRestart, handles, died, counters>>

StartupFailed(p) ==
  /\ main[p] = "failing"
  /\ \E portAfter \in {port, NoProc} : StartFailed(p, portAfter)

StartupCloseThrows(p) == main[p] = "bound" /\ StartFailed(p, port)

Main(p) ==
  \/ Bind(p) \/ StartServices(p) \/ ServerStarted(p) \/ BindFails(p)
  \/ StartupFails(p) \/ StartupFailed(p) \/ StartupCloseThrows(p)

-----------------------------------------------------------------------------
(* The signal handlers: request("stop") and request("restart") *)

(* SIGTERM, SIGINT or an authorized SIGUSR1; ignored during a shutdown.  The *)
(* handlers are installed once the lock is acquired.                        *)
Request(p, restart) ==
  /\ signals < MaxSignals
  /\ main[p] \in {"starting", "bound", "failing", "waiting"}
  /\ req[p] = "none"
  /\ signals' = signals + 1
  /\ Goto(req, p, "closing")
  /\ isRestart' = IF restart THEN isRestart \cup {p} ELSE isRestart \ {p}
  /\ UNCHANGED <<file, port, main, acq, seen, handles, services, died, kills>>

Mut_ServicesOutlivePort(p) ==
  /\ req[p] = "closing" /\ p \in server
  /\ Goto(req, p, "freeing")
  /\ UNCHANGED <<file, port, main, acq, seen, isRestart, handles, services, died,
                 counters>>

(* server?.close: the services of a started server are stopped first ... *)
CloseServices(p) ==
  /\ req[p] = "closing" /\ p \in server
  /\ Goto(req, p, "freeing")
  /\ services' = services \ {p}
  /\ UNCHANGED <<file, port, main, acq, seen, isRestart, handles, died, counters>>

(* ... then its listener is closed; finally { server = null }. *)
ClosePort(p) ==
  /\ req[p] = "freeing"
  /\ Goto(req, p, "releasing")
  /\ port' = IF port = p THEN NoProc ELSE port
  /\ server' = server \ {p}
  /\ UNCHANGED <<file, main, acq, seen, isRestart, lock, isFirstStart, services,
                 died, counters>>

(* There is no server yet, or close throws and leaves the rest running. *)
NothingClosed(p) ==
  /\ \/ req[p] = "closing"
     \/ req[p] = "freeing"
  /\ Goto(req, p, "releasing")
  /\ server' = server \ {p}
  /\ UNCHANGED <<file, port, main, acq, seen, isRestart, lock, isFirstStart,
                 services, died, counters>>

(* shutdown timed out: exit without cleanup. *)
ForceExit(p) ==
  /\ req[p] \in {"closing", "freeing"}
  /\ Exit(p)
  /\ died' = died \cup {p}
  /\ UNCHANGED <<file, isRestart, isFirstStart, counters>>

(* handleStopAfterServerClose, or a restart by a fresh process, which is    *)
(* one of the starts.                                                       *)
ReleaseAndExit(p) ==
  /\ req[p] = "releasing"
  /\ ReleaseLockIfHeld(p)
  /\ Exit(p)
  /\ UNCHANGED <<isRestart, isFirstStart, died, counters>>

(* handleRestartAfterServerClose without respawn: the lock is acquired      *)
(* again if it was held, and the loop goes on.                              *)
ReleaseAndRestart(p) ==
  /\ req[p] = "releasing" /\ p \in isRestart
  /\ ReleaseLockIfHeld(p)
  /\ lock' = lock \ {p}
  /\ IF p \in lock
       THEN /\ Goto(req, p, "reacquiring") /\ Goto(acq, p, "open")
            /\ UNCHANGED main
       ELSE RestartResolved(p) /\ UNCHANGED acq
  /\ UNCHANGED <<port, seen, isRestart, server, isFirstStart, services, died, counters>>

Shutdown(p) ==
  \/ CloseServices(p) \/ ClosePort(p) \/ NothingClosed(p)
  \/ ReleaseAndExit(p) \/ ReleaseAndRestart(p)

(* SIGKILL, or a crash. *)
Kill(p) ==
  /\ kills < MaxKills
  /\ Alive(p)
  /\ kills' = kills + 1
  /\ Exit(p)
  /\ died' = died \cup {p}
  /\ UNCHANGED <<file, isRestart, isFirstStart, signals>>

-----------------------------------------------------------------------------

Progress(p) == Acquire(p) \/ Main(p) \/ Shutdown(p)

Next ==
  \/ \E p \in Procs :
       \/ StartProcess(p) \/ Progress(p) \/ WriteFails(p) \/ ForceExit(p) \/ Kill(p)
       \/ \E restart \in BOOLEAN : Request(p, restart)
  \/ FileAges

Spec == Init /\ [][Next]_vars

(* Both flows of a running process go on, a file gets older, and a loop     *)
(* head that is reached again and again meets its deadline.                 *)
Fairness ==
  /\ WF_vars(FileAges)
  /\ \A p \in Procs :
       /\ WF_vars(Acquire(p)) /\ WF_vars(Main(p)) /\ WF_vars(Shutdown(p))
       /\ SF_vars(AcquireTimesOut(p))

FairSpec == Spec /\ Fairness

-----------------------------------------------------------------------------

(* "Ensure only one gateway instance runs per base port": the services of a *)
(* gateway run only while no other gateway's do, through lock theft, failed *)
(* starts, failed closes, in-process restarts and crashes.                  *)
Singleton == INSTANCE GatewaySingleton WITH running <- services
OneGateway == Singleton!Spec

(* A process that ends through its loop leaves no lock file behind: the     *)
(* file of a process that is gone was left by a kill, a forced exit, a      *)
(* failed write, or a first start that failed while a restart signal was    *)
(* acquiring the lock again.                                                *)
NoLeftoverLock ==
  file # NoFile /\ ~Alive(file.owner) => file.owner \in died

(* A lock file that a dead process left, even one without payload, does not *)
(* keep a supervised gateway from starting when it is the only one left.    *)
LoneStarterGetsLock ==
  \A p \in Supervised :
    (main[p] = "acquiring" /\ \A q \in Procs \ {p} : main[q] = "gone")
      ~> main[p] # "acquiring"

(* A shutdown ends: the process is gone or has taken up its loop again. *)
ShutdownEnds == \A p \in Procs : req[p] # "none" ~> req[p] = "none"
=============================================================================
