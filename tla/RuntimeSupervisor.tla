-------------------------- MODULE RuntimeSupervisor --------------------------
(***************************************************************************)
(* The launcher's supervisor of the local runtime: the Responses daemon it *)
(* spawns, the tunnel it asks the native runtime manager to keep, and the  *)
(* ownership file by which the next launcher learns what the last one left *)
(* behind (launcher/electron/runtime-supervisor.cjs).  A start, a stop, a  *)
(* forced stop and any number of recoveries are asynchronous tasks of one  *)
(* process: each step below is the code between two awaits, and the tasks  *)
(* interleave with each other, with the processes they control and with    *)
(* crashes of the launcher itself.                                         *)
(*                                                                         *)
(* The configuration is the full mode of a production profile whose        *)
(* version is the launcher's; a process is known by whether it still       *)
(* lives, never by a number that could be given out again.                 *)
(***************************************************************************)
EXTENDS Naturals, FiniteSets

CONSTANTS
  Recoveries,   \* slots of recoveryTasks: how many run at once is a bound
  Threshold,    \* TUNNEL_MONITOR_FAILURE_THRESHOLD
  MaxRestarts,  \* MAX_RESTARTS_PER_WINDOW
  MaxFaults     \* crashes, lost control answers and refusals: a bound

ASSUME SupervisorAssumption ==
  /\ IsFiniteSet(Recoveries) /\ Recoveries \cap {"start", "stop", "force"} = {}
  /\ Threshold \in Nat \ {0} /\ MaxRestarts \in Nat /\ MaxFaults \in Nat

VARIABLES
  daemon,       \* the process serving the port: none, booting, open, drained
  busy,         \* it has an active turn
  tunnel,       \* the managed tunnel: stopped, unready, ready
  file,         \* launcher-supervisor.json, or NoFile
  up,           \* the launcher process runs
  stopping,     \* this.stopping
  child,        \* this.daemon: none, live, or dead (its exit is not handled)
  restartable,  \* the child is in restartableChildren
  handle,       \* this.tunnel is set
  watch,        \* the tunnel monitor's interval is armed
  misses,       \* tunnelMonitorFailures
  timer,        \* restartTimers
  tries,        \* restartHistory within the window
  job,          \* which of the two a recovery restarts
  pc,           \* where each task stands
  undo,         \* what the running stop must compensate
  quitting,     \* the stop was asked by a quit, which will force it
  faults

world   == <<daemon, busy, tunnel>>
monitor == <<watch, misses>>
retry   == <<timer, tries>>
tasks   == <<job, pc, undo, quitting>>
vars    == <<world, file, up, stopping, child, restartable, handle, monitor,
             retry, tasks, faults>>

Names == {"daemon", "tunnel"}
Tasks == {"start", "stop", "force"} \cup Recoveries
NoFile == [status |-> "none"]
Healthy == daemon \in {"open", "drained"}        \* /healthz answers
NothingToUndo == [drained |-> FALSE, untunnelled |-> FALSE, failed |-> FALSE]

Goto(k, label) == pc' = [pc EXCEPT ![k] = label]
Idle(K) == \A k \in K : pc[k] = "idle"
Fault == faults < MaxFaults /\ faults' = faults + 1
Keeps == UNCHANGED faults

-----------------------------------------------------------------------------
(* The ownership file.                                                     *)

\* snapshot: what the supervisor holds after the step, under a status.
Snapshot(status) ==
  [status |-> status, mine |-> TRUE,
   daemon |-> IF child' = "dead" THEN "gone" ELSE child',
   tunnel |-> IF ~handle' THEN "none"
              ELSE IF tunnel' = "stopped" THEN "gone" ELSE "live"]

\* Not written: but what it names may have ended, and no longer runs.
Unwritten ==
  file' = IF file = NoFile THEN NoFile
          ELSE [status |-> file.status, mine |-> file.mine,
                daemon |-> IF file.daemon = "live" /\ daemon' = "none" THEN "gone" ELSE file.daemon,
                tunnel |-> IF file.tunnel = "live" /\ tunnel' = "stopped" THEN "gone" ELSE file.tunnel]

MayBeLive(f) ==
  /\ f # NoFile
  /\ \/ f.daemon = "live" \/ f.tunnel = "live"
     \/ f.status \in {"starting", "ready", "degraded", "stopping"}

\* writeExternalState: live ownership is left as it is recorded.
External ==
  file' = IF file # NoFile /\ (file.mine \/ file.daemon = "live" \/ file.tunnel = "live")
          THEN file ELSE Snapshot("external")

(* mutant: a failure is only written down *)
ScheduleNothing(name, written) == UNCHANGED retry /\ file' = written

\* scheduleRecovery, over the file the caller has just written.
Schedule(name, written) ==
  IF stopping \/ timer[name]
  THEN UNCHANGED retry /\ file' = written
  ELSE /\ tries' = [tries EXCEPT ![name] = IF @ > MaxRestarts THEN @ ELSE @ + 1]
       /\ IF tries[name] < MaxRestarts
          THEN timer' = [timer EXCEPT ![name] = TRUE] /\ file' = written
          ELSE timer' = timer /\ file' = Snapshot("failed")

-----------------------------------------------------------------------------
TypeOK ==
  /\ daemon \in {"none", "booting", "open", "drained"}
  /\ tunnel \in {"stopped", "unready", "ready"}
  /\ busy \in BOOLEAN /\ (busy => Healthy)
  /\ file = NoFile \/ file \in
       [status : {"starting", "ready", "degraded", "stopping", "failed", "external"},
        mine : BOOLEAN, daemon : {"none", "live", "gone"}, tunnel : {"none", "live", "gone"}]
  /\ child \in {"none", "live", "dead"} /\ (child = "live" => daemon # "none")
  /\ {up, stopping, restartable, handle, watch, quitting} \subseteq BOOLEAN
  /\ misses \in 0..(Threshold - 1)
  /\ timer \in [Names -> BOOLEAN] /\ tries \in [Names -> 0..(MaxRestarts + 1)]
  /\ job \in [Recoveries -> Names]
  /\ DOMAIN pc = Tasks /\ undo \in [DOMAIN NothingToUndo -> BOOLEAN]
  /\ faults \in 0..MaxFaults

NoTimers == [n \in Names |-> FALSE]
NoTries  == [n \in Names |-> 0]
NoJobs   == [r \in Recoveries |-> "daemon"]
AllIdle  == [k \in Tasks |-> "idle"]

\* The constructor of a launcher: nothing held, nothing running.
Init ==
  /\ daemon = "none" /\ busy = FALSE /\ tunnel = "stopped" /\ file = NoFile
  /\ up = TRUE /\ stopping = FALSE /\ child = "none" /\ restartable = FALSE
  /\ handle = FALSE /\ watch = FALSE /\ misses = 0 /\ quitting = FALSE
  /\ undo = NothingToUndo /\ timer = NoTimers /\ tries = NoTries
  /\ job = NoJobs /\ pc = AllIdle /\ faults = 0

-----------------------------------------------------------------------------
(* The processes, and the launcher's own end.                              *)

DaemonBoots ==
  /\ daemon = "booting" /\ daemon' = "open"
  /\ UNCHANGED <<busy, tunnel, file, up, stopping, child, restartable, handle,
                 monitor, retry, tasks, faults>>

\* The daemon process ends, whoever ended it.
DaemonGone == daemon' = "none" /\ busy' = FALSE
Orphaned == child' = IF child = "live" THEN "dead" ELSE child

DaemonCrashes ==
  /\ daemon # "none" /\ Fault /\ DaemonGone /\ Orphaned
  /\ UNCHANGED tunnel /\ Unwritten
  /\ UNCHANGED <<up, stopping, restartable, handle, monitor, retry, tasks>>

TurnBegins ==
  /\ daemon = "open" /\ ~busy /\ busy' = TRUE
  /\ UNCHANGED <<daemon, tunnel, file, up, stopping, child, restartable, handle,
                 monitor, retry, tasks, faults>>

TurnEnds ==
  /\ busy /\ busy' = FALSE
  /\ UNCHANGED <<daemon, tunnel, file, up, stopping, child, restartable, handle,
                 monitor, retry, tasks, faults>>

TunnelConnects ==
  /\ tunnel = "unready" /\ tunnel' = "ready"
  /\ UNCHANGED <<daemon, busy, file, up, stopping, child, restartable, handle,
                 monitor, retry, tasks, faults>>

TunnelBreaks ==
  /\ tunnel # "stopped" /\ Fault
  /\ \/ tunnel = "ready" /\ tunnel' = "unready"
     \/ tunnel' = "stopped"
  /\ UNCHANGED <<daemon, busy>> /\ Unwritten
  /\ UNCHANGED <<up, stopping, child, restartable, handle,
                 monitor, retry, tasks>>

\* Children are detached: they outlive the launcher, and the file stays.
LauncherEnds ==
  /\ up' = FALSE /\ stopping' = FALSE /\ child' = "none" /\ restartable' = FALSE
  /\ handle' = FALSE /\ watch' = FALSE /\ misses' = 0 /\ quitting' = FALSE
  /\ undo' = NothingToUndo /\ timer' = NoTimers /\ tries' = NoTries
  /\ job' = NoJobs /\ pc' = AllIdle
  /\ file' = IF file = NoFile THEN NoFile ELSE [file EXCEPT !.mine = FALSE]
  /\ UNCHANGED world

LauncherCrashes == up /\ Fault /\ LauncherEnds

LauncherStarts ==
  /\ ~up /\ up' = TRUE
  /\ UNCHANGED <<world, file, stopping, child, restartable, handle, monitor,
                 retry, tasks, faults>>

-----------------------------------------------------------------------------
(* What the supervisor observes.                                           *)

\* handleTerminal of spawnChild, for the child that is still this.daemon.
ChildExitSeen ==
  /\ child = "dead" /\ child' = "none" /\ restartable' = FALSE
  /\ UNCHANGED <<world, handle>>
  /\ IF stopping
     THEN file' = Snapshot("stopping") /\ UNCHANGED retry
     ELSE IF restartable THEN Schedule("daemon", Snapshot("degraded"))
     ELSE file' = Snapshot("degraded") /\ UNCHANGED retry
  /\ UNCHANGED <<up, stopping, monitor, tasks, faults>>

Tolerated(fatal) == misses + 1 < Threshold /\ ~fatal

\* One observation of the monitor; an unknown one changes nothing.
MonitorPolls ==
  /\ watch /\ ~stopping /\ ~timer["tunnel"] /\ UNCHANGED <<world, child>>
  /\ IF tunnel = "ready"
     THEN /\ misses' = 0 /\ handle' = TRUE /\ UNCHANGED <<watch, retry>>
          /\ IF handle THEN misses # 0 /\ UNCHANGED file ELSE file' = Snapshot("ready")
     ELSE \E fatal \in BOOLEAN :
       IF Tolerated(fatal)
       THEN misses' = misses + 1 /\ UNCHANGED <<file, handle, watch, retry>>
       ELSE /\ handle' = FALSE /\ watch' = FALSE /\ misses' = 0
            /\ Schedule("tunnel", Snapshot("degraded"))
  /\ UNCHANGED <<up, stopping, restartable, tasks, faults>>

-----------------------------------------------------------------------------
(* How the tasks end and fail.                                             *)

ArmMonitor == watch' = TRUE /\ misses' = 0
StopMonitor == watch' = FALSE /\ misses' = 0

\* stopChild: the process tree is ended, the exit was expected.
ChildStopped ==
  /\ IF child = "live" THEN DaemonGone ELSE UNCHANGED <<daemon, busy>>
  /\ child' = "none" /\ restartable' = FALSE

\* ownedRuntimeReady, asked when nothing of the compensation failed.
StateProven(failed) ==
  IF ~failed /\ child' = "live" /\ daemon' = "open" /\ handle' /\ tunnel' = "ready"
  THEN "ready" ELSE "failed"

\* The end of performStopForSetup's failure path; a quit forces the stop.
StopReports(failed) ==
  /\ file' = Snapshot(StateProven(failed))
  /\ stopping' = quitting
  /\ pc' = [pc EXCEPT !["stop"] = "idle", !["force"] = IF quitting THEN "begin" ELSE @]
  /\ undo' = NothingToUndo /\ UNCHANGED <<job, quitting, retry>>

\* Compensation: first the tunnel it stopped, then the daemon it drained.
StopFails(u) ==
  IF u.untunnelled /\ ~handle'
  THEN Goto("stop", "inspect") /\ undo' = u /\ Unwritten /\ UNCHANGED <<stopping, job, quitting, retry>>
  ELSE IF u.drained
  THEN Goto("stop", "restore") /\ undo' = u /\ Unwritten /\ UNCHANGED <<stopping, job, quitting, retry>>
  ELSE StopReports(u.failed)

\* A task fails where it stands: the start cleans up, a recovery is scheduled
\* again, and the compensation of a stop goes on with its next part.
Fails(k) ==
  CASE k = "start" ->
         /\ stopping' = TRUE /\ Goto(k, "cleanup")
         /\ Unwritten /\ UNCHANGED <<retry, job, undo, quitting>>
    [] k = "stop" ->
         IF pc[k] = "spawned" \/ ~undo.drained
         THEN StopReports(TRUE)
         ELSE /\ Goto(k, "restore") /\ undo' = [undo EXCEPT !.failed = TRUE]
              /\ Unwritten /\ UNCHANGED <<stopping, job, quitting, retry>>
    [] OTHER ->
         /\ Goto(k, "idle") /\ Schedule(job[k], Snapshot("failed"))
         /\ UNCHANGED <<stopping, job, undo, quitting>>

\* startTunnel or startDaemon is done: on to what the caller does next.
Continue(k) ==
  CASE k = "start" /\ pc[k] \in {"inspect", "connected"} ->
         Goto(k, "daemon") /\ Unwritten /\ UNCHANGED <<stopping, retry, job, undo, quitting>>
    [] k = "start" /\ pc[k] \in {"await", "spawned"} ->
         /\ Goto(k, "idle") /\ tries' = [n \in Names |-> 0] /\ file' = Snapshot("ready")
         /\ UNCHANGED <<stopping, timer, job, undo, quitting>>
    [] k = "stop" ->
         IF undo.drained /\ pc[k] # "spawned"
         THEN Goto(k, "restore") /\ Unwritten /\ UNCHANGED <<stopping, retry, job, undo, quitting>>
         ELSE StopReports(undo.failed)
    [] OTHER -> Goto(k, "verify") /\ Unwritten /\ UNCHANGED <<stopping, retry, job, undo, quitting>>

-----------------------------------------------------------------------------
(* startTunnel: adopt a ready tunnel, or stop it and connect it again.     *)

TunnelGone == tunnel' = "stopped" /\ handle' = FALSE

TunnelInspected(k) ==
  /\ pc[k] = "inspect" /\ UNCHANGED <<daemon, busy, child>>
  /\ IF tunnel = "ready" /\ k \notin Recoveries
     THEN /\ handle' = TRUE /\ UNCHANGED tunnel
          /\ ArmMonitor /\ Continue(k)
     ELSE /\ TunnelGone /\ Goto(k, "connect")
          /\ Unwritten /\ UNCHANGED <<monitor, stopping, retry, job, undo, quitting>>
  /\ UNCHANGED <<up, restartable, faults>>

TunnelConnected(k) ==
  /\ pc[k] = "connect" /\ Goto(k, "connected")
  /\ tunnel' = IF tunnel = "stopped" THEN "unready" ELSE tunnel
  /\ UNCHANGED <<daemon, busy, file, up, stopping, child, restartable, handle,
                 monitor, retry, job, undo, quitting, faults>>

TunnelReady(k) ==
  /\ pc[k] = "connected" /\ tunnel = "ready"
  /\ handle' = TRUE /\ UNCHANGED <<world, child>> /\ ArmMonitor /\ Continue(k)
  /\ UNCHANGED <<up, restartable, faults>>

\* A refusal, an unknown status, no MCP evidence or no readiness in time: the
\* monitor is off and the runtime is stopped again, if it lets itself be.
TunnelFails(k) ==
  /\ pc[k] \in {"inspect", "connect", "connected"}
  /\ IF pc[k] = "connected" /\ tunnel = "stopped" THEN Keeps ELSE Fault
  /\ StopMonitor /\ UNCHANGED <<daemon, busy, child>>
  /\ \/ TunnelGone
     \/ tunnel # "stopped" /\ UNCHANGED tunnel
        /\ handle' = (IF pc[k] = "connected" THEN TRUE ELSE handle)
  /\ Fails(k)
  /\ UNCHANGED <<up, restartable>>

-----------------------------------------------------------------------------
(* startDaemon: resume the child it holds, or spawn one.                   *)

SpawnRecorded == file' = Snapshot("starting")

\* spawnChild; a second process finds the port taken and ends at once.
DaemonSpawned(k) ==
  /\ child' = (IF daemon = "none" THEN "live" ELSE "dead")
  /\ daemon' = (IF daemon = "none" THEN "booting" ELSE daemon)
  /\ restartable' = FALSE /\ Goto(k, "spawned")
  /\ UNCHANGED <<busy, tunnel, handle>> /\ SpawnRecorded
  /\ UNCHANGED <<stopping, undo, quitting>>

\* The restart timer: a recovery that finds the supervisor stopping returns,
\* one of the daemon spawns it before it first waits.
TimerFires(name) ==
  /\ timer[name] /\ timer' = [timer EXCEPT ![name] = FALSE]
  /\ \/ /\ stopping
        /\ UNCHANGED <<world, file, stopping, child, restartable, handle, tasks>>
     \/ /\ ~stopping
        /\ \E r \in Recoveries :
             /\ pc[r] = "idle" /\ job' = [job EXCEPT ![r] = name]
             /\ IF name = "daemon" /\ child = "none" THEN DaemonSpawned(r)
                ELSE /\ Goto(r, IF name = "tunnel" THEN "inspect" ELSE "daemon")
                     /\ UNCHANGED <<world, file, stopping, child, restartable,
                                    handle, undo, quitting>>
  /\ UNCHANGED <<up, monitor, tries, faults>>

DaemonStarted(k) ==
  /\ pc[k] = "daemon"
  /\ IF child = "none" THEN DaemonSpawned(k) /\ UNCHANGED <<retry, job>>
     ELSE /\ daemon' = IF child = "live" /\ daemon = "drained" THEN "open" ELSE daemon
          /\ Goto(k, "await")
          /\ UNCHANGED <<busy, tunnel, handle, child, restartable, file, stopping,
                         retry, job, undo, quitting>>
  /\ UNCHANGED <<up, monitor, faults>>

DaemonReady(k) ==
  /\ pc[k] \in {"await", "spawned"} /\ child = "live" /\ daemon = "open"
  /\ restartable' = TRUE /\ UNCHANGED <<world, child, handle>> /\ Continue(k)
  /\ UNCHANGED <<up, monitor, faults>>

DaemonMissed == child # "live" \/ daemon = "drained"

\* The child exited, or did not become ready in time; one it spawned is ended.
DaemonFails(k) ==
  /\ pc[k] \in {"await", "spawned"}
  /\ IF DaemonMissed THEN Keeps ELSE Fault
  /\ IF pc[k] = "spawned" THEN ChildStopped ELSE UNCHANGED <<daemon, busy, child, restartable>>
  /\ UNCHANGED <<tunnel, handle>> /\ Fails(k)
  /\ UNCHANGED <<up, monitor>>

-----------------------------------------------------------------------------
(* recover: after its restart it wants to see both of them serving.        *)

RecoveryVerified(r) ==
  /\ pc[r] = "verify" /\ child = "live" /\ daemon = "open" /\ tunnel = "ready"
  /\ handle' = TRUE /\ UNCHANGED <<world, child>> /\ file' = Snapshot("ready") /\ Goto(r, "idle")
  /\ UNCHANGED <<up, stopping, restartable, monitor, retry, job, undo, quitting, faults>>

RecoveryFails(r) ==
  /\ pc[r] = "verify"
  /\ IF child # "live" \/ ~handle \/ daemon # "open" \/ tunnel # "ready" THEN Keeps ELSE Fault
  /\ UNCHANGED <<world, child, handle>> /\ Fails(r)
  /\ UNCHANGED <<up, restartable, monitor>>

-----------------------------------------------------------------------------
(* startIfConfigured: waits for a running stop, joins a running start.     *)

StartCalled ==
  /\ up /\ Idle({"start", "stop"}) /\ Goto("start", "look")
  /\ UNCHANGED <<world, file, up, stopping, child, restartable, handle, monitor,
                 retry, job, undo, quitting, faults>>

MustRecoverStale == child = "none" /\ ~handle /\ (Healthy \/ MayBeLive(file))

StartLooks ==
  /\ pc["start"] = "look"
  /\ IF MustRecoverStale THEN Goto("start", "stale") /\ UNCHANGED stopping
     ELSE Goto("start", "inspect") /\ stopping' = FALSE
  /\ UNCHANGED <<world, file, up, child, restartable, handle, monitor, retry,
                 job, undo, quitting, faults>>

\* cleanupFailedStart: a healthy daemon is drained first, another is ended.
CleanupLooks ==
  /\ pc["start"] = "cleanup"
  /\ IF child = "live" /\ Healthy
     THEN Goto("start", "drain") /\ UNCHANGED <<daemon, busy, child, restartable>>
     ELSE ChildStopped /\ Goto("start", "untunnel")
  /\ UNCHANGED tunnel /\ Unwritten
  /\ UNCHANGED <<up, stopping, handle, monitor, retry, job, undo, quitting, faults>>

\* The start is over and did not succeed, cleaned up or not.
CleanupEnds ==
  /\ stopping' = FALSE /\ Goto("start", "idle") /\ file' = Snapshot("failed")
  /\ UNCHANGED <<retry, job, undo, quitting>>

-----------------------------------------------------------------------------
(* stopForSetup: waits for the start, turns recovery off, waits for the    *)
(* recoveries that already run, then drains, stops the tunnel and the      *)
(* daemon in this order.                                                   *)

StopCalled ==
  /\ up /\ Idle({"stop", "force"}) /\ Goto("stop", "begin")
  /\ UNCHANGED <<world, file, up, stopping, child, restartable, handle, monitor,
                 retry, job, undo, quitting, faults>>

\* requestQuit: cancel the active turns, then stop, by force if it must be.
QuitCalled ==
  /\ up /\ ~quitting /\ Idle({"stop", "force"}) /\ quitting' = TRUE
  /\ \/ Keeps /\ busy' = (busy /\ child # "live") /\ Goto("stop", "begin")
     \/ Fault /\ UNCHANGED busy /\ child = "live" /\ Goto("force", "begin")
  /\ UNCHANGED <<daemon, tunnel, file, up, stopping, child, restartable, handle,
                 monitor, retry, job, undo>>

TimersCleared == timer' = NoTimers

\* Both stops begin alike; only the graceful one waits for a running start.
StopBegins(k) ==
  /\ k \in {"stop", "force"} /\ pc[k] = "begin" /\ (k = "stop" => pc["start"] = "idle")
  /\ stopping' = TRUE /\ StopMonitor /\ TimersCleared
  /\ Goto(k, "settle")
  /\ UNCHANGED <<world, file, up, child, restartable, handle, tries, job, undo,
                 quitting, faults>>

(* mutant: recoveries that already run are not awaited *)
RecoveriesIgnored == TRUE
RecoveriesSettled == Idle(Recoveries)

\* The graceful stop ends well; a quit goes on to leave.
StopEnds ==
  /\ file' = NoFile /\ stopping' = FALSE /\ undo' = NothingToUndo
  /\ pc' = [pc EXCEPT !["stop"] = "idle", !["force"] = IF quitting THEN "leave" ELSE @]
  /\ UNCHANGED <<retry, job, quitting>>

StopLooks ==
  /\ pc["stop"] = "settle" /\ RecoveriesSettled
  /\ LET live  == Healthy \/ MayBeLive(file)
         adopt == ~handle /\ tunnel # "stopped" /\ (live \/ file = NoFile)
     IN /\ handle' = (handle \/ adopt)
        /\ UNCHANGED <<world, child>>
        /\ \/ Fault /\ adopt /\ handle' = handle /\ StopFails(NothingToUndo)
           \/ /\ Keeps
              /\ IF child = "none" /\ ~handle'
                 THEN IF live
                      THEN Goto("stop", "stale") /\ UNCHANGED <<file, stopping, retry, job, undo, quitting>>
                      ELSE StopEnds
                 ELSE IF child = "live" /\ Healthy
                 THEN Goto("stop", "drain") /\ UNCHANGED <<file, stopping, retry, job, undo, quitting>>
                 ELSE IF child = "none"
                 THEN Goto("stop", "untunnel") /\ UNCHANGED <<file, stopping, retry, job, undo, quitting>>
                 ELSE StopFails(NothingToUndo)
  /\ UNCHANGED <<up, restartable, monitor>>

\* restoreDrainedDaemon: resume the child that still lives, or start one.
DaemonRestored ==
  /\ pc["stop"] = "restore"
  /\ IF child = "live"
     THEN /\ UNCHANGED <<busy, tunnel, handle, child, restartable>>
          /\ \/ Keeps /\ Healthy /\ daemon' = "open" /\ StopReports(undo.failed)
             \/ Fault /\ UNCHANGED daemon /\ StopReports(TRUE)
     ELSE Keeps /\ DaemonSpawned("stop") /\ UNCHANGED <<retry, job>>
  /\ UNCHANGED <<up, monitor>>

-----------------------------------------------------------------------------
(* The parts of a stop that a stop, a failed start and the recovery of     *)
(* what another launcher left share.  "stale" steps act on processes this  *)
(* launcher holds no pointer to.                                           *)

Drains    == {"drain", "draining", "staleDrain", "staleDraining"}
Stale(k)  == pc[k] \in {"stale", "staleDrain", "staleDraining", "staleShutdown", "staleUntunnel"}

\* A part failed: the caller resumes what it drained, as far as it can.
PartFails(k) ==
  IF k = "stop" THEN StopFails(IF Stale(k) THEN NothingToUndo ELSE undo)
  ELSE IF Stale(k)
  THEN External /\ Goto(k, "idle") /\ UNCHANGED <<stopping, retry, job, undo, quitting>>
  ELSE CleanupEnds

\* stopStaleOwnedRuntime returns true: nothing is left, the file is cleared.
StaleEnds(k) ==
  IF k = "stop" THEN StopEnds
  ELSE /\ file' = NoFile /\ stopping' = FALSE /\ Goto(k, "inspect")
       /\ UNCHANGED <<retry, job, undo, quitting>>

StaleLooks(k) ==
  /\ pc[k] = "stale" /\ UNCHANGED <<world, child, handle>>
  /\ IF file = NoFile \/ (Healthy # (file.daemon = "live"))
     THEN PartFails(k)
     ELSE IF ~Healthy /\ tunnel = "stopped" THEN StaleEnds(k)
     ELSE /\ Goto(k, IF Healthy THEN "staleDrain" ELSE "staleUntunnel")
          /\ UNCHANGED <<file, stopping, retry, job, undo, quitting>>
  /\ UNCHANGED <<up, restartable, monitor, faults>>

\* acquireDrain asks again until no turn is active ...
DrainAsked(k) ==
  /\ pc[k] \in {"drain", "staleDrain"} /\ Healthy
  /\ daemon' = "drained"
  /\ Goto(k, IF Stale(k) THEN "staleDraining" ELSE "draining")
  /\ UNCHANGED <<busy, tunnel, file, up, stopping, child, restartable, handle,
                 monitor, retry, job, undo, quitting, faults>>

DrainHolds(k) ==
  /\ pc[k] \in {"draining", "staleDraining"} /\ Healthy /\ ~busy
  /\ daemon' = "drained"
  /\ undo' = IF k = "stop" /\ ~Stale(k) THEN [undo EXCEPT !.drained = TRUE] ELSE undo
  /\ Goto(k, IF Stale(k) THEN "staleShutdown" ELSE IF k = "stop" THEN "untunnel" ELSE "shutdown")
  /\ UNCHANGED <<busy, tunnel, file, up, stopping, child, restartable, handle,
                 monitor, retry, job, quitting, faults>>

\* ... and resumes the daemon when it gives up; the resume may be lost too.
Resumed ==
  daemon' = IF daemon = "drained" THEN "open" ELSE daemon

DrainFails(k) ==
  /\ pc[k] \in Drains
  /\ \/ Keeps /\ (busy \/ ~Healthy) /\ Resumed
     \/ Fault /\ Healthy /\ daemon' \in {"open", "drained"}
  /\ UNCHANGED <<busy, tunnel, child, handle>> /\ PartFails(k)
  /\ UNCHANGED <<up, restartable, monitor>>

\* stopTunnelGracefully, and the plain stop of a stale tunnel.
TunnelStopped(k) ==
  /\ pc[k] \in {"untunnel", "staleUntunnel"}
  /\ UNCHANGED <<daemon, busy, child>>
  /\ IF Stale(k) \/ handle THEN tunnel' = "stopped" ELSE UNCHANGED tunnel
  /\ IF Stale(k) \/ ~handle THEN UNCHANGED <<handle, monitor>>
     ELSE handle' = FALSE /\ StopMonitor
  /\ IF Stale(k) THEN StaleEnds(k)
     ELSE IF k = "start" THEN CleanupEnds
     ELSE /\ Goto(k, "shutdown") /\ undo' = [undo EXCEPT !.untunnelled = handle]
          /\ Unwritten /\ UNCHANGED <<stopping, retry, job, quitting>>
  /\ UNCHANGED <<up, restartable, faults>>

\* A refused stop keeps the alias supervised.
TunnelRefuses(k) ==
  /\ pc[k] \in {"untunnel", "staleUntunnel"} /\ (Stale(k) \/ handle) /\ Fault
  /\ UNCHANGED <<world, child, handle>>
  /\ IF Stale(k) THEN UNCHANGED monitor ELSE ArmMonitor
  /\ PartFails(k)
  /\ UNCHANGED <<up, restartable>>

AfterShutdown(k) ==
  CASE k = "stop" /\ ~Stale(k) -> StopEnds
    [] OTHER ->
       /\ Goto(k, IF Stale(k) THEN "staleUntunnel" ELSE "untunnel")
       /\ Unwritten /\ UNCHANGED <<stopping, retry, job, undo, quitting>>

\* shutdownDaemon: the daemon refuses while it accepts or has an active turn.
DaemonShutDown(k) ==
  /\ pc[k] \in {"shutdown", "staleShutdown"}
  /\ IF Stale(k) \/ child = "live"
     THEN daemon = "drained" /\ ~busy /\ DaemonGone
     ELSE UNCHANGED <<daemon, busy>>
  /\ IF Stale(k) THEN Orphaned /\ UNCHANGED restartable
     ELSE child' = "none" /\ restartable' = FALSE
  /\ UNCHANGED <<tunnel, handle>> /\ AfterShutdown(k)
  /\ UNCHANGED <<up, monitor, faults>>

\* The request is refused or lost, or the exit or the port is not confirmed;
\* all but the stop resume the daemon before they give up.
ShutdownFails(k) ==
  /\ pc[k] \in {"shutdown", "staleShutdown"} /\ (Stale(k) \/ child = "live")
  /\ \/ /\ IF Healthy /\ daemon = "drained" /\ ~busy THEN Fault ELSE Keeps
        /\ IF k = "stop" /\ ~Stale(k) THEN UNCHANGED daemon
           ELSE Resumed
        /\ UNCHANGED <<busy, child, restartable>>
     \/ /\ Fault /\ daemon = "drained" /\ ~busy /\ DaemonGone
        /\ IF Stale(k) THEN Orphaned /\ UNCHANGED restartable
           ELSE child' = "none" /\ restartable' = FALSE
  /\ UNCHANGED <<tunnel, handle>> /\ PartFails(k)
  /\ UNCHANGED <<up, monitor>>

-----------------------------------------------------------------------------
(* forceStopOwnedRuntime: no drain, and no failure stops it.               *)

ForceStops ==
  /\ pc["force"] = "settle" /\ RecoveriesSettled
  /\ \/ Keeps /\ IF handle THEN TunnelGone ELSE UNCHANGED <<tunnel, handle>>
     \/ Fault /\ handle /\ UNCHANGED <<tunnel, handle>>
  /\ ChildStopped
  /\ file' = IF handle' THEN Snapshot("failed") ELSE NoFile
  /\ stopping' = FALSE /\ Goto("force", "leave")
  /\ UNCHANGED <<up, monitor, retry, job, undo, quitting>>

Leaves == pc["force"] = "leave" /\ Keeps /\ LauncherEnds

-----------------------------------------------------------------------------
TunnelWork(k) ==
  TunnelInspected(k) \/ TunnelConnected(k) \/ TunnelReady(k) \/ TunnelFails(k)
DaemonWork(k) == DaemonStarted(k) \/ DaemonReady(k) \/ DaemonFails(k)
StopWork(k) ==
  \/ StaleLooks(k) \/ DrainAsked(k) \/ DrainHolds(k) \/ DrainFails(k)
  \/ TunnelStopped(k) \/ TunnelRefuses(k) \/ DaemonShutDown(k) \/ ShutdownFails(k)
StartStep == StartLooks \/ CleanupLooks \/ TunnelWork("start") \/ DaemonWork("start") \/ StopWork("start")
StopStep == StopBegins("stop") \/ StopLooks \/ DaemonRestored
            \/ TunnelWork("stop") \/ DaemonWork("stop") \/ StopWork("stop")
ForceStep == StopBegins("force") \/ ForceStops \/ Leaves
RecoveryStep(r) == TunnelWork(r) \/ DaemonWork(r) \/ RecoveryVerified(r) \/ RecoveryFails(r)

Next ==
  \/ StartStep \/ StopStep \/ ForceStep \/ \E r \in Recoveries : RecoveryStep(r)
  \/ StartCalled \/ StopCalled \/ QuitCalled
  \/ ChildExitSeen \/ MonitorPolls
  \/ \E name \in Names : TimerFires(name)
  \/ DaemonBoots \/ DaemonCrashes \/ TurnBegins \/ TurnEnds
  \/ TunnelConnects \/ TunnelBreaks \/ LauncherCrashes \/ LauncherStarts

Fairness ==
  /\ WF_vars(StartStep) /\ WF_vars(StopStep) /\ WF_vars(ForceStep)
  /\ \A r \in Recoveries : WF_vars(RecoveryStep(r))
  /\ WF_vars(ChildExitSeen) /\ WF_vars(MonitorPolls)
  /\ \A name \in Names : WF_vars(TimerFires(name))
  /\ WF_vars(DaemonBoots) /\ WF_vars(TunnelConnects) /\ WF_vars(TurnEnds)

Spec == Init /\ [][Next]_vars /\ Fairness
-----------------------------------------------------------------------------
(***************************************************************************)
(* Nothing else works on the runtime while a graceful stop does: a start   *)
(* was awaited, the recoveries that ran have settled, no restart timer is  *)
(* armed, and none of them comes back until the stop is over               *)
(* (performStopForSetup; startIfConfigured waits for stopPromise).         *)
(***************************************************************************)
StopRunsAlone ==
  pc["stop"] \notin {"idle", "begin", "settle"} =>
    /\ Idle(Recoveries \cup {"start"})
    /\ \A n \in Names : ~timer[n]

(***************************************************************************)
(* The drain a stop has acquired holds until the daemon is shut down: no   *)
(* other task resumes the daemon while the tunnel is being stopped, when a *)
(* new turn could begin under a stop that has proven there is none.        *)
(***************************************************************************)
StopKeepsItsDrain ==
  undo.drained /\ pc["stop"] \in {"untunnel", "shutdown"} /\ child = "live"
    => daemon = "drained"

(***************************************************************************)
(* A daemon this launcher owns is in the ownership file as long as it      *)
(* lives, for the launcher that comes after a crash.  A forced stop and a  *)
(* start that still clears stale ownership may run beside a recovery and   *)
(* are excepted.                                                           *)
(***************************************************************************)
OwnedIsRecorded ==
  child = "live" /\ Idle({"start", "force"}) => file # NoFile /\ file.daemon = "live"

(***************************************************************************)
(* A graceful stop has the runtime to itself and keeps its drain, and an   *)
(* owned daemon is in the ownership file.                                  *)
(***************************************************************************)
RuntimeHolds == TypeOK /\ StopRunsAlone /\ StopKeepsItsDrain /\ OwnedIsRecorded

(***************************************************************************)
(* Whatever failed, no task ends and leaves a daemon of this launcher      *)
(* refusing turns behind a state that calls the runtime anything but       *)
(* failed or degraded, and nothing writes such a state later (the          *)
(* compensations of performStopForSetup and startConfigured, the monitor). *)
(* Excepted is a start that recovers stale ownership: it may take the      *)
(* daemon that a recovery has just spawned for the one to be drained, and  *)
(* writeExternalState leaves what the recovery wrote.                      *)
(***************************************************************************)
Unreported ==
  /\ Idle(Tasks) /\ child = "live" /\ daemon = "drained"
  /\ file.status \notin {"failed", "degraded"}
DrainIsReported == [][Unreported' => Unreported \/ Stale("start")]_vars

(***************************************************************************)
(* What this launcher wrote down as degraded does not stay so: a recovery, *)
(* a start or a stop comes to an end that says ready, failed or stopped.   *)
(***************************************************************************)
Degraded == file # NoFile /\ file.mine /\ file.status = "degraded"
DegradedIsRetried == Degraded ~> ~Degraded

(***************************************************************************)
(* A stop waits for the start and for the recoveries, a start waits for    *)
(* the stop: nobody waits for ever.                                        *)
(***************************************************************************)
StopsEnd == pc["stop"] = "begin" ~> pc["stop"] = "idle"

(***************************************************************************)
(* Neither a degraded runtime nor a stop that has begun is left where it   *)
(* is, and no task leaves a drain behind unsaid (recover,                  *)
(* scheduleRecovery, performStopForSetup).                                 *)
(***************************************************************************)
TasksSettle == DegradedIsRetried /\ StopsEnd /\ DrainIsReported
=============================================================================
