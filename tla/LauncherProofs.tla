---------------------------- MODULE LauncherProofs ----------------------------
(***************************************************************************)
(* What the launcher keeps.                                                *)
(*                                                                         *)
(* The supervisor, for every number of recoveries, faults and restarts: a  *)
(* graceful stop raises `stopping`, and so keeps the restart timers down,  *)
(* before it waits for the recoveries; that is why it is alone when it     *)
(* drains, and why its drain lasts.  The ownership file is only ever       *)
(* written from what the supervisor holds, or cleared by a task that holds *)
(* no daemon or will write it again.                                       *)
(*                                                                         *)
(* The updater, for any number of workers, releases and mishaps: an        *)
(* update, however it is refused, cancelled, overtaken or interrupted,     *)
(* leaves an application and nobody who would replace it.                  *)
(***************************************************************************)
EXTENDS RuntimeSupervisor, Updater, TLAPS

-------------------------------------------------------------------------------
(* The supervisor of the runtime *)

Labels(k) ==
  CASE k = "start" ->
         {"idle", "look", "stale", "staleDrain", "staleDraining", "staleShutdown",
          "staleUntunnel", "inspect", "connect", "connected", "daemon", "await",
          "spawned", "cleanup", "drain", "draining", "shutdown", "untunnel"}
    [] k = "stop" ->
         {"idle", "begin", "settle", "stale", "staleDrain", "staleDraining",
          "staleShutdown", "staleUntunnel", "drain", "draining", "untunnel",
          "shutdown", "inspect", "connect", "connected", "restore", "spawned"}
    [] k = "force" -> {"idle", "begin", "settle", "leave"}
    [] OTHER ->
         {"idle", "inspect", "connect", "connected", "daemon", "await", "spawned", "verify"}

\* Every task stands at an await of its own code.
TasksTyped == \A k \in Tasks : pc[k] \in Labels(k)

\* A graceful stop that waits for recoveries or is past them holds recovery
\* off, with no start under way and no timer armed; none runs when it works.
StopAlone ==
  /\ pc["stop"] \notin {"idle", "begin"} =>
       stopping /\ pc["start"] = "idle" /\ \A n \in Names : ~timer[n]
  /\ pc["stop"] \notin {"idle", "begin", "settle"} => Idle(Recoveries)

\* The two stops exclude each other, but for a quit that goes on by force.
OneStop == pc["stop"] # "idle" => pc["force"] = "idle"

\* A stop that recovers stale ownership holds no daemon.
StaleHoldsNone == Stale("stop") => child # "live"

\* What the file says of a daemon is true of the one that is held, and a file
\* is missing only while a start or a forced stop is about to write it again.
FileSound ==
  child = "live" =>
    /\ file # NoFile => file.daemon = "live"
    /\ file = NoFile => ~Idle({"start", "force"})

\* The monitor observes a tunnel the launcher holds, or one a task connects.
WatchSound ==
  watch /\ ~handle =>
    pc["force"] # "idle" \/ \E k \in Tasks : pc[k] \in {"connect", "connected"}

SupervisorSound ==
  /\ TypeOK /\ TasksTyped /\ StopAlone /\ OneStop /\ StopKeepsItsDrain
  /\ StaleHoldsNone /\ FileSound /\ WatchSound

-----------------------------------------------------------------------------
(* What the steps have in common.                                          *)

StartTasks == Tasks \ {"force"}     \* they start the tunnel and the daemon
Stoppers == {"start", "stop"}    \* they stop them
Statuses == {"starting", "ready", "degraded", "stopping", "failed", "external"}
OwnershipFiles == [status : Statuses, mine : BOOLEAN,
          daemon : {"none", "live", "gone"}, tunnel : {"none", "live", "gone"}]
Undos == [{"drained", "untunnelled", "failed"} -> BOOLEAN]

\* The file is as it was, but for what ended, or a snapshot, or cleared.
FileStep ==
  \/ file' = file \/ Unwritten \/ file' = NoFile
  \/ \E status \in Statuses : file' = Snapshot(status)

\* What a step of the task k does to the supervisor's own records.
Moves(k) ==
  /\ timer' \in [Names -> BOOLEAN] /\ tries' \in [Names -> 0..(MaxRestarts + 1)]
  /\ stopping' \in BOOLEAN /\ quitting' \in BOOLEAN
  /\ job' \in [Recoveries -> Names] /\ undo' \in Undos
  /\ DOMAIN pc' = Tasks /\ pc'[k] \in Labels(k) /\ pc'["force"] \in Labels("force")
  /\ \A j \in Tasks \ {k, "force"} : pc'[j] = pc[j]
  /\ k # "stop" => pc'["force"] = pc["force"] /\ undo' = undo
  /\ k = "stop" /\ pc'[k] # "idle" => pc'["force"] = pc["force"] /\ stopping' = stopping
  /\ stopping => timer' = timer
  /\ k \in Recoveries => stopping' = stopping
  /\ FileStep
  /\ file' = NoFile /\ file # NoFile =>
       \/ k = "start" /\ pc'[k] # "idle"
       \/ k = "stop" /\ pc'[k] = "idle"
  /\ k = "start" /\ pc'[k] = "idle" => file' # NoFile

USE DEF Names

\* The parts of the type invariant, one variable at a time.
LEMMA TypeParts ==
  TypeOK <=>
    /\ daemon \in {"none", "booting", "open", "drained"}
    /\ tunnel \in {"stopped", "unready", "ready"}
    /\ busy \in BOOLEAN /\ (busy => Healthy)
    /\ file = NoFile \/ file \in OwnershipFiles
    /\ child \in {"none", "live", "dead"} /\ (child = "live" => daemon # "none")
    /\ up \in BOOLEAN /\ stopping \in BOOLEAN /\ restartable \in BOOLEAN
    /\ handle \in BOOLEAN /\ watch \in BOOLEAN /\ quitting \in BOOLEAN
    /\ misses \in 0..(Threshold - 1)
    /\ timer \in [Names -> BOOLEAN] /\ tries \in [Names -> 0..(MaxRestarts + 1)]
    /\ job \in [Recoveries -> Names]
    /\ DOMAIN pc = Tasks /\ undo \in Undos
    /\ faults \in 0..MaxFaults
<1>1. DOMAIN NothingToUndo = {"drained", "untunnelled", "failed"}
  BY DEF NothingToUndo
<1>2. {up, stopping, restartable, handle, watch, quitting} \subseteq BOOLEAN <=>
        \A x \in {up, stopping, restartable, handle, watch, quitting} : x \in BOOLEAN
  BY Zenon
<1>3. {up, stopping, restartable, handle, watch, quitting} \subseteq BOOLEAN <=>
        up \in BOOLEAN /\ stopping \in BOOLEAN /\ restartable \in BOOLEAN
        /\ handle \in BOOLEAN /\ watch \in BOOLEAN /\ quitting \in BOOLEAN
  BY <1>2, SMT
<1> QED BY <1>1, <1>3, Zenon DEF TypeOK, OwnershipFiles, Statuses, Undos

\* A stop that has nothing to undo has a well-formed undo record.
LEMMA NothingTyped == NothingToUndo \in Undos
<1>1. DOMAIN NothingToUndo = {"drained", "untunnelled", "failed"}
  BY DEF NothingToUndo
<1>2. \A x \in {"drained", "untunnelled", "failed"} : NothingToUndo[x] \in BOOLEAN
  <2>1. NothingToUndo.drained = FALSE /\ NothingToUndo.untunnelled = FALSE /\ NothingToUndo.failed = FALSE
    BY DEF NothingToUndo
  <2>2. NothingToUndo["drained"] = FALSE /\ NothingToUndo["untunnelled"] = FALSE /\ NothingToUndo["failed"] = FALSE
    BY <2>1, Zenon
  <2> QED BY <2>2
<1>3. NothingToUndo = [x \in {"drained", "untunnelled", "failed"} |-> NothingToUndo[x]]
  BY <1>1 DEF NothingToUndo
<1> QED BY <1>2, <1>3, Zenon DEF Undos

\* A snapshot (snapshot, writeState) is a file, and names a daemon it holds.
LEMMA SnapshotSays ==
  ASSUME NEW status \in Statuses, child' \in {"none", "live", "dead"}
  PROVE  /\ Snapshot(status) \in OwnershipFiles /\ Snapshot(status) # NoFile
         /\ Snapshot(status).status = status
         /\ child' = "live" => Snapshot(status).daemon = "live"
BY DEF Snapshot, OwnershipFiles, NoFile

\* A file that is not written still is one, and a daemon that lives stays in it.
LEMMA UnwrittenSays ==
  ASSUME file = NoFile \/ file \in OwnershipFiles, Unwritten
  PROVE  /\ file' = NoFile \/ file' \in OwnershipFiles
         /\ file' = NoFile <=> file = NoFile
         /\ file'.status = file.status
         /\ file.daemon = "live" /\ daemon' # "none" => file'.daemon = "live"
<1>1. CASE file = NoFile
  BY <1>1 DEF Unwritten, NoFile, OwnershipFiles
<1>2. CASE file # NoFile /\ file \in OwnershipFiles
  BY <1>2 DEF Unwritten, NoFile, OwnershipFiles
<1> QED BY <1>1, <1>2

\* scheduleRecovery arms a timer at most, and not while the supervisor stops.
LEMMA ScheduleSays ==
  ASSUME TypeOK, NEW name \in Names, NEW written, Schedule(name, written)
  PROVE  /\ timer' \in [Names -> BOOLEAN] /\ tries' \in [Names -> 0..(MaxRestarts + 1)]
         /\ stopping => timer' = timer
         /\ file' \in {written, Snapshot("failed")}
<1>1. timer \in [Names -> BOOLEAN] /\ tries \in [Names -> 0..(MaxRestarts + 1)] /\ MaxRestarts \in Nat
  BY TypeParts, SupervisorAssumption
<1>2. CASE stopping \/ timer[name]
  BY <1>1, <1>2 DEF Schedule, retry
<1>3. CASE ~stopping /\ ~timer[name]
  <2>1. tries[name] \in 0..(MaxRestarts + 1)
    BY <1>1
  <2>2. tries' = [tries EXCEPT ![name] = IF @ > MaxRestarts THEN @ ELSE @ + 1]
    BY <1>3 DEF Schedule
  <2>3. timer' = [timer EXCEPT ![name] = TRUE] \/ timer' = timer
    BY <1>3, Zenon DEF Schedule
  <2>4. file' \in {written, Snapshot("failed")}
    BY <1>3, Zenon DEF Schedule
  <2>5. tries' \in [Names -> 0..(MaxRestarts + 1)]
    BY <1>1, <2>1, <2>2
  <2>6. timer' \in [Names -> BOOLEAN]
    BY <1>1, <2>3
  <2> QED BY <1>3, <2>4, <2>5, <2>6, Zenon
<1> QED BY <1>2, <1>3

\* writeExternalState leaves a file there.
LEMMA ExternalSays ==
  ASSUME External PROVE file' # NoFile /\ (file' = file \/ file' = Snapshot("external"))
BY DEF External, Snapshot, NoFile

-----------------------------------------------------------------------------
(* The shared ends of the tasks' steps.                                    *)

\* The labels of each task, written out.
LEMMA LabelSets ==
  /\ Labels("start") =
       {"idle", "look", "stale", "staleDrain", "staleDraining", "staleShutdown",
        "staleUntunnel", "inspect", "connect", "connected", "daemon", "await",
        "spawned", "cleanup", "drain", "draining", "shutdown", "untunnel"}
  /\ Labels("stop") =
       {"idle", "begin", "settle", "stale", "staleDrain", "staleDraining",
        "staleShutdown", "staleUntunnel", "drain", "draining", "untunnel",
        "shutdown", "inspect", "connect", "connected", "restore", "spawned"}
  /\ Labels("force") = {"idle", "begin", "settle", "leave"}
  /\ \A r \in Recoveries :
       /\ r \notin {"start", "stop", "force"}
       /\ Labels(r) = {"idle", "inspect", "connect", "connected", "daemon", "await",
                       "spawned", "verify"}
BY SupervisorAssumption DEF Labels

\* A task that goes on to its next await, and changes no more than that.
LEMMA GotoMoves ==
  ASSUME TypeOK, TasksTyped, NEW k \in StartTasks, NEW label \in Labels(k), Goto(k, label),
         UNCHANGED <<stopping, timer, tries, job, quitting>>,
         undo' = undo \/ (k = "stop" /\ undo' \in Undos),
         FileStep, file' = NoFile => file = NoFile,
         k = "start" => label # "idle"
  PROVE  Moves(k)
<1>1. /\ DOMAIN pc = Tasks /\ k \in Tasks /\ k # "force" /\ "force" \in Tasks
      /\ timer \in [Names -> BOOLEAN] /\ tries \in [Names -> 0..(MaxRestarts + 1)]
      /\ stopping \in BOOLEAN /\ quitting \in BOOLEAN
      /\ job \in [Recoveries -> Names] /\ undo \in Undos
  BY TypeParts, SupervisorAssumption DEF StartTasks, Tasks
<1>2. /\ DOMAIN pc' = Tasks /\ pc'[k] = label
      /\ \A j \in Tasks \ {k} : pc'[j] = pc[j]
  BY <1>1 DEF Goto
<1>3. pc'["force"] = pc["force"] /\ pc["force"] \in Labels("force")
  BY <1>1, <1>2 DEF TasksTyped
<1> QED BY <1>1, <1>2, <1>3 DEF Moves

\* The running stop reports its failure (performStopForSetup).
LEMMA ReportMoves ==
  ASSUME TypeOK, TasksTyped, NEW failed, StopReports(failed)
  PROVE  Moves("stop") /\ pc'["stop"] = "idle" /\ file' = Snapshot(StateProven(failed))
<1>1. /\ DOMAIN pc = Tasks /\ {"stop", "force"} \subseteq Tasks
      /\ timer \in [Names -> BOOLEAN] /\ tries \in [Names -> 0..(MaxRestarts + 1)]
      /\ quitting \in BOOLEAN
      /\ job \in [Recoveries -> Names] /\ NothingToUndo \in Undos
  BY TypeParts, NothingTyped DEF Tasks
<1>2. StateProven(failed) \in Statuses
  BY DEF StateProven, Statuses
<1>3. /\ DOMAIN pc' = Tasks /\ pc'["stop"] = "idle" /\ pc'["force"] \in {"begin", pc["force"]}
      /\ \A j \in Tasks \ {"stop", "force"} : pc'[j] = pc[j]
  BY <1>1 DEF StopReports
<1>4. pc'["force"] \in Labels("force") /\ pc'["stop"] \in Labels("stop")
  BY <1>1, <1>3, LabelSets DEF TasksTyped
<1>5. Snapshot(StateProven(failed)) # NoFile
  BY <1>2 DEF Snapshot, NoFile
<1>6. "stop" \notin Recoveries
  BY LabelSets
<1> QED BY <1>1, <1>2, <1>3, <1>4, <1>5, <1>6 DEF Moves, StopReports, FileStep, retry

\* The graceful stop ends well and clears the file.
LEMMA EndMoves ==
  ASSUME TypeOK, TasksTyped, StopEnds
  PROVE  Moves("stop") /\ pc'["stop"] = "idle" /\ file' = NoFile
<1>1. /\ DOMAIN pc = Tasks /\ {"stop", "force"} \subseteq Tasks
      /\ timer \in [Names -> BOOLEAN] /\ tries \in [Names -> 0..(MaxRestarts + 1)]
      /\ quitting \in BOOLEAN
      /\ job \in [Recoveries -> Names] /\ NothingToUndo \in Undos
  BY TypeParts, NothingTyped DEF Tasks
<1>3. /\ DOMAIN pc' = Tasks /\ pc'["stop"] = "idle" /\ pc'["force"] \in {"leave", pc["force"]}
      /\ \A j \in Tasks \ {"stop", "force"} : pc'[j] = pc[j]
  BY <1>1 DEF StopEnds
<1>4. pc'["force"] \in Labels("force") /\ pc'["stop"] \in Labels("stop")
  BY <1>1, <1>3, LabelSets DEF TasksTyped
<1>6. "stop" \notin Recoveries
  BY LabelSets
<1> QED BY <1>1, <1>3, <1>4, <1>6 DEF Moves, StopEnds, FileStep, retry

\* The compensation of a stop goes on with what is left to be done.
LEMMA StopFailsMoves ==
  ASSUME TypeOK, TasksTyped, NEW u \in Undos, StopFails(u)
  PROVE  Moves("stop")
<1>1. file = NoFile \/ file \in OwnershipFiles
  BY TypeParts
<1>2. CASE u.untunnelled /\ ~handle'
  <2>1. "inspect" \in Labels("stop") /\ "stop" \in StartTasks
    BY LabelSets DEF StartTasks, Tasks
  <2> QED BY <1>1, <1>2, <2>1, UnwrittenSays, GotoMoves DEF StopFails, FileStep, retry
<1>3. CASE ~(u.untunnelled /\ ~handle') /\ u.drained
  <2>1. "restore" \in Labels("stop") /\ "stop" \in StartTasks
    BY LabelSets DEF StartTasks, Tasks
  <2> QED BY <1>1, <1>3, <2>1, UnwrittenSays, GotoMoves DEF StopFails, FileStep, retry
<1>4. CASE ~(u.untunnelled /\ ~handle') /\ ~u.drained
  BY <1>4, ReportMoves DEF StopFails
<1> QED BY <1>2, <1>3, <1>4

\* A start that failed is over, and says so.
LEMMA CleanupMoves ==
  ASSUME TypeOK, TasksTyped, CleanupEnds
  PROVE  Moves("start") /\ pc'["start"] = "idle" /\ file' = Snapshot("failed")
<1>1. /\ DOMAIN pc = Tasks /\ {"start", "force"} \subseteq Tasks
      /\ timer \in [Names -> BOOLEAN] /\ tries \in [Names -> 0..(MaxRestarts + 1)]
      /\ quitting \in BOOLEAN
      /\ job \in [Recoveries -> Names] /\ undo \in Undos
  BY TypeParts DEF Tasks
<1>2. /\ DOMAIN pc' = Tasks /\ pc'["start"] = "idle" /\ pc'["force"] = pc["force"]
      /\ \A j \in Tasks \ {"start"} : pc'[j] = pc[j]
  BY <1>1 DEF CleanupEnds, Goto
<1>3. pc'["force"] \in Labels("force") /\ pc'["start"] \in Labels("start")
  BY <1>1, <1>2, LabelSets DEF TasksTyped
<1>4. "start" \notin Recoveries /\ Snapshot("failed") # NoFile /\ "failed" \in Statuses
  BY LabelSets DEF Snapshot, NoFile, Statuses
<1> QED BY <1>1, <1>2, <1>3, <1>4 DEF Moves, CleanupEnds, FileStep, retry

\* A task that fails cleans up, compensates or is scheduled again.
LEMMA FailsMoves ==
  ASSUME TypeOK, TasksTyped, NEW k \in StartTasks, Fails(k)
  PROVE  Moves(k)
<1>1. file = NoFile \/ file \in OwnershipFiles
  BY TypeParts
<1>2. CASE k = "start"
  <2>1. /\ DOMAIN pc = Tasks /\ {"start", "force"} \subseteq Tasks
        /\ timer \in [Names -> BOOLEAN] /\ tries \in [Names -> 0..(MaxRestarts + 1)]
        /\ quitting \in BOOLEAN
        /\ job \in [Recoveries -> Names] /\ undo \in Undos
    BY TypeParts DEF Tasks
  <2>2. /\ stopping' = TRUE /\ Goto("start", "cleanup")
        /\ Unwritten /\ UNCHANGED <<retry, job, undo, quitting>>
    BY <1>2, Zenon DEF Fails
  <2>3. /\ DOMAIN pc' = Tasks /\ pc'["start"] = "cleanup" /\ pc'["force"] = pc["force"]
        /\ \A j \in Tasks \ {"start"} : pc'[j] = pc[j]
    BY <2>1, <2>2 DEF Goto
  <2>4. pc'["force"] \in Labels("force") /\ pc'["start"] \in Labels("start") /\ "start" \notin Recoveries
    BY <2>1, <2>3, LabelSets DEF TasksTyped
  <2>5. file' = NoFile => file = NoFile
    BY <1>1, <2>2, UnwrittenSays
  <2> QED BY <1>2, <2>1, <2>2, <2>3, <2>4, <2>5 DEF Moves, FileStep, retry
<1>3. CASE k = "stop"
  <2>1. CASE pc[k] = "spawned" \/ ~undo.drained
    BY <1>3, <2>1, ReportMoves DEF Fails
  <2>2. CASE ~(pc[k] = "spawned" \/ ~undo.drained)
    <3>1. /\ Goto(k, "restore") /\ undo' = [undo EXCEPT !.failed = TRUE]
          /\ Unwritten /\ UNCHANGED <<stopping, job, quitting, retry>>
      BY <1>3, <2>2, SMT DEF Fails
    <3>2. undo' \in Undos
      BY <3>1, TypeParts DEF Undos
    <3>3. "restore" \in Labels(k) /\ k # "start"
      BY <1>3, LabelSets
    <3>4. FileStep /\ (file' = NoFile => file = NoFile)
      BY <1>1, <3>1, UnwrittenSays DEF FileStep
    <3> QED BY <1>3, <3>1, <3>2, <3>3, <3>4, GotoMoves DEF retry
  <2> QED BY <2>1, <2>2
<1>4. CASE k \in Recoveries
  <2>1. k \notin {"start", "stop", "force"} /\ "idle" \in Labels(k)
    BY <1>4, LabelSets
  <2>2. /\ Goto(k, "idle") /\ Schedule(job[k], Snapshot("failed"))
        /\ UNCHANGED <<stopping, job, undo, quitting>>
    BY <2>1, Zenon DEF Fails
  <2>3. job[k] \in Names
    BY <1>4, TypeParts
  <2>4. /\ timer' \in [Names -> BOOLEAN] /\ tries' \in [Names -> 0..(MaxRestarts + 1)]
        /\ stopping => timer' = timer
        /\ file' = Snapshot("failed")
    BY <2>2, <2>3, ScheduleSays
  <2>5. Snapshot("failed") # NoFile /\ "failed" \in Statuses
    BY DEF Snapshot, NoFile, Statuses
  <2>6. /\ DOMAIN pc = Tasks /\ k \in Tasks /\ "force" \in Tasks
        /\ quitting \in BOOLEAN /\ stopping \in BOOLEAN
        /\ job \in [Recoveries -> Names] /\ undo \in Undos
    BY TypeParts DEF Tasks, StartTasks
  <2>7. /\ DOMAIN pc' = Tasks /\ pc'[k] = "idle" /\ pc'["force"] = pc["force"]
        /\ \A j \in Tasks \ {k} : pc'[j] = pc[j]
    BY <2>1, <2>2, <2>6 DEF Goto
  <2>8. pc'["force"] \in Labels("force")
    BY <2>6, <2>7 DEF TasksTyped
  <2> QED BY <2>1, <2>2, <2>4, <2>5, <2>6, <2>7, <2>8 DEF Moves, FileStep
<1> QED BY <1>2, <1>3, <1>4 DEF StartTasks, Tasks

\* A task whose tunnel or daemon is ready goes on with what its caller does.
LEMMA ContinueMoves ==
  ASSUME TypeOK, TasksTyped, NEW k \in StartTasks, Continue(k),
         k = "start" => pc[k] \in {"inspect", "connected", "await", "spawned"}
  PROVE  Moves(k)
<1>1. file = NoFile \/ file \in OwnershipFiles
  BY TypeParts
<1>2. CASE k = "start" /\ pc[k] \in {"inspect", "connected"}
  <2>1. "daemon" \in Labels(k)
    BY <1>2, LabelSets
  <2>2. /\ Goto(k, "daemon") /\ Unwritten
        /\ UNCHANGED <<stopping, retry, job, undo, quitting>>
    BY <1>2, Zenon DEF Continue
  <2> QED BY <1>1, <2>1, <2>2, UnwrittenSays, GotoMoves DEF FileStep, retry
<1>3. CASE k = "start" /\ pc[k] \in {"await", "spawned"}
  <2>1. /\ Goto("start", "idle") /\ tries' = [n \in Names |-> 0] /\ file' = Snapshot("ready")
        /\ UNCHANGED <<stopping, timer, job, undo, quitting>>
    BY <1>3, SMT DEF Continue
  <2>2. /\ DOMAIN pc = Tasks /\ {"start", "force"} \subseteq Tasks
        /\ timer \in [Names -> BOOLEAN] /\ stopping \in BOOLEAN
        /\ quitting \in BOOLEAN
        /\ job \in [Recoveries -> Names] /\ undo \in Undos
    BY TypeParts DEF Tasks
  <2>3. /\ DOMAIN pc' = Tasks /\ pc'["start"] = "idle" /\ pc'["force"] = pc["force"]
        /\ \A j \in Tasks \ {"start"} : pc'[j] = pc[j]
    BY <2>1, <2>2 DEF Goto
  <2>4. pc'["force"] \in Labels("force") /\ pc'["start"] \in Labels("start")
    BY <2>2, <2>3, LabelSets DEF TasksTyped
  <2>5. "start" \notin Recoveries /\ Snapshot("ready") # NoFile /\ "ready" \in Statuses
    BY LabelSets DEF Snapshot, NoFile, Statuses
  <2>6. tries' \in [Names -> 0..(MaxRestarts + 1)]
    BY <2>1, SupervisorAssumption
  <2> QED BY <1>3, <2>1, <2>2, <2>3, <2>4, <2>5, <2>6 DEF Moves, FileStep
<1>4. CASE k = "stop" /\ undo.drained /\ pc[k] # "spawned"
  <2>1. "restore" \in Labels(k) /\ k # "start"
    BY <1>4, LabelSets
  <2>2. /\ Goto(k, "restore") /\ Unwritten
        /\ UNCHANGED <<stopping, retry, job, undo, quitting>>
    BY <1>4, <2>1, SMT DEF Continue
  <2> QED BY <1>1, <2>1, <2>2, UnwrittenSays, GotoMoves DEF FileStep, retry
<1>5. CASE k = "stop" /\ ~(undo.drained /\ pc[k] # "spawned")
  BY <1>5, ReportMoves, SMT DEF Continue
<1>6. CASE k \in Recoveries
  <2>1. k \notin {"start", "stop", "force"} /\ "verify" \in Labels(k)
    BY <1>6, LabelSets
  <2>2. /\ Goto(k, "verify") /\ Unwritten
        /\ UNCHANGED <<stopping, retry, job, undo, quitting>>
    BY <2>1, Zenon DEF Continue
  <2> QED BY <1>1, <2>1, <2>2, UnwrittenSays, GotoMoves DEF FileStep, retry
<1> QED BY <1>2, <1>3, <1>4, <1>5, <1>6 DEF StartTasks, Tasks

\* A part of a stop failed, whoever asked for it.
LEMMA PartFailsMoves ==
  ASSUME TypeOK, TasksTyped, NEW k \in Stoppers, PartFails(k)
  PROVE  Moves(k)
<1>1. CASE k = "stop"
  <2>1. (IF Stale(k) THEN NothingToUndo ELSE undo) \in Undos
    BY TypeParts, NothingTyped
  <2> QED BY <1>1, <2>1, StopFailsMoves DEF PartFails
<1>2. CASE k = "start" /\ Stale(k)
  <2>1. External /\ Goto("start", "idle") /\ UNCHANGED <<stopping, retry, job, undo, quitting>>
    BY <1>2 DEF PartFails
  <2>2. /\ DOMAIN pc = Tasks /\ {"start", "force"} \subseteq Tasks
        /\ timer \in [Names -> BOOLEAN] /\ tries \in [Names -> 0..(MaxRestarts + 1)]
        /\ stopping \in BOOLEAN /\ quitting \in BOOLEAN
        /\ job \in [Recoveries -> Names] /\ undo \in Undos
    BY TypeParts DEF Tasks
  <2>3. /\ DOMAIN pc' = Tasks /\ pc'["start"] = "idle" /\ pc'["force"] = pc["force"]
        /\ \A j \in Tasks \ {"start"} : pc'[j] = pc[j]
    BY <2>1, <2>2 DEF Goto
  <2>4. pc'["force"] \in Labels("force") /\ pc'["start"] \in Labels("start")
    BY <2>2, <2>3, LabelSets DEF TasksTyped
  <2>5. "start" \notin Recoveries /\ "external" \in Statuses
    BY LabelSets DEF Statuses
  <2> QED BY <1>2, <2>1, <2>2, <2>3, <2>4, <2>5, ExternalSays DEF Moves, FileStep, retry
<1>3. CASE k = "start" /\ ~Stale(k)
  BY <1>3, CleanupMoves DEF PartFails
<1> QED BY <1>1, <1>2, <1>3 DEF Stoppers

\* Nothing stale is left: the stop is over, the start goes on.
LEMMA StaleEndsMoves ==
  ASSUME TypeOK, TasksTyped, NEW k \in Stoppers, StaleEnds(k)
  PROVE  Moves(k) /\ file' = NoFile /\ (k = "stop" => pc'[k] = "idle")
<1>1. CASE k = "stop"
  BY <1>1, EndMoves DEF StaleEnds
<1>2. CASE k = "start"
  <2>1. /\ file' = NoFile /\ stopping' = FALSE /\ Goto("start", "inspect")
        /\ UNCHANGED <<retry, job, undo, quitting>>
    BY <1>2 DEF StaleEnds
  <2>2. /\ DOMAIN pc = Tasks /\ {"start", "force"} \subseteq Tasks
        /\ timer \in [Names -> BOOLEAN] /\ tries \in [Names -> 0..(MaxRestarts + 1)]
        /\ quitting \in BOOLEAN
        /\ job \in [Recoveries -> Names] /\ undo \in Undos
    BY TypeParts DEF Tasks
  <2>3. /\ DOMAIN pc' = Tasks /\ pc'["start"] = "inspect" /\ pc'["force"] = pc["force"]
        /\ \A j \in Tasks \ {"start"} : pc'[j] = pc[j]
    BY <2>1, <2>2 DEF Goto
  <2>4. pc'["force"] \in Labels("force") /\ pc'["start"] \in Labels("start") /\ "start" \notin Recoveries
    BY <2>2, <2>3, LabelSets DEF TasksTyped
  <2> QED BY <1>2, <2>1, <2>2, <2>3, <2>4 DEF Moves, FileStep, retry
<1> QED BY <1>1, <1>2 DEF Stoppers

\* The daemon is shut down: the tunnel is next, but for a stop that is over.
LEMMA AfterMoves ==
  ASSUME TypeOK, TasksTyped, NEW k \in Stoppers, AfterShutdown(k)
  PROVE  Moves(k) /\ (k = "stop" /\ pc'[k] = "idle" => ~Stale(k))
<1>1. CASE k = "stop" /\ ~Stale(k)
  BY <1>1, EndMoves DEF AfterShutdown
<1>2. CASE ~(k = "stop" /\ ~Stale(k))
  <2> DEFINE label == IF Stale(k) THEN "staleUntunnel" ELSE "untunnel"
  <2>1. label \in Labels(k) /\ k \in StartTasks /\ label # "idle"
    BY LabelSets DEF Stoppers, StartTasks, Tasks
  <2>2. /\ Goto(k, label) /\ Unwritten /\ UNCHANGED <<stopping, retry, job, undo, quitting>>
    BY <1>2, Zenon DEF AfterShutdown
  <2>3. FileStep /\ (file' = NoFile => file = NoFile)
    BY <2>2, TypeParts, UnwrittenSays DEF FileStep
  <2>4. pc'[k] = label
    BY <2>1, <2>2, TypeParts DEF Goto, StartTasks
  <2> QED BY <2>1, <2>2, <2>3, <2>4, GotoMoves DEF retry
<1> QED BY <1>1, <1>2

\* A spawned daemon is written down before anything is awaited (startDaemon).
LEMMA SpawnMoves ==
  ASSUME TypeOK, TasksTyped, NEW k \in StartTasks, DaemonSpawned(k), UNCHANGED <<timer, tries, job>>
  PROVE  Moves(k) /\ file' = Snapshot("starting") /\ pc'[k] = "spawned"
<1>1. "spawned" \in Labels(k) /\ k \in Tasks /\ "starting" \in Statuses
  BY LabelSets DEF StartTasks, Tasks, Statuses
<1>2. file' = Snapshot("starting") /\ file' # NoFile
  BY DEF DaemonSpawned, SpawnRecorded, Snapshot, NoFile
<1>3. FileStep
  BY <1>1, <1>2 DEF FileStep
<1>4. Goto(k, "spawned") /\ UNCHANGED <<stopping, undo, quitting>>
  BY DEF DaemonSpawned
<1>5. pc'[k] = "spawned"
  BY <1>1, <1>4, TypeParts DEF Goto
<1> QED BY <1>1, <1>2, <1>3, <1>4, <1>5, GotoMoves

\* The steps of startTunnel and startDaemon.
LEMMA WorkMoves ==
  ASSUME TypeOK, TasksTyped, NEW k \in StartTasks, TunnelWork(k) \/ DaemonWork(k)
  PROVE  Moves(k)
<1> USE DEF retry
<1>0. /\ file = NoFile \/ file \in OwnershipFiles
      /\ {"connect", "connected", "spawned"} \subseteq Labels(k)
  BY TypeParts, LabelSets DEF StartTasks, Tasks
<1>1. CASE TunnelInspected(k)
  <2>1. CASE tunnel = "ready" /\ k \notin Recoveries
    <3>1. Continue(k) /\ pc[k] = "inspect"
      BY <1>1, <2>1 DEF TunnelInspected
    <3> QED BY <3>1, ContinueMoves
  <2>2. CASE ~(tunnel = "ready" /\ k \notin Recoveries)
    <3>1. Goto(k, "connect") /\ Unwritten /\ UNCHANGED <<stopping, timer, tries, job, undo, quitting>>
      BY <1>1, <2>2 DEF TunnelInspected
    <3> QED BY <1>0, <3>1, GotoMoves, UnwrittenSays DEF FileStep
  <2> QED BY <2>1, <2>2
<1>2. CASE TunnelConnected(k)
  <2>1. Goto(k, "connected") /\ UNCHANGED <<file, stopping, timer, tries, job, undo, quitting>>
    BY <1>2 DEF TunnelConnected
  <2> QED BY <1>0, <2>1, GotoMoves DEF FileStep
<1>3. CASE TunnelReady(k)
  <2>1. Continue(k) /\ pc[k] = "connected"
    BY <1>3 DEF TunnelReady
  <2> QED BY <2>1, ContinueMoves
<1>4. CASE TunnelFails(k)
  <2>1. Fails(k)
    BY <1>4 DEF TunnelFails
  <2> QED BY <2>1, FailsMoves
<1>5. CASE DaemonStarted(k)
  <2>1. CASE child = "none"
    <3>1. DaemonSpawned(k) /\ UNCHANGED <<timer, tries, job>>
      BY <1>5, <2>1 DEF DaemonStarted
    <3> QED BY <3>1, SpawnMoves
  <2>2. CASE child # "none"
    <3>1. Goto(k, "await") /\ UNCHANGED <<file, stopping, timer, tries, job, undo, quitting>>
      BY <1>5, <2>2 DEF DaemonStarted
    <3>2. "await" \in Labels(k)
      BY <1>5, LabelSets DEF StartTasks, Tasks, TasksTyped, DaemonStarted
    <3> QED BY <3>1, <3>2, GotoMoves DEF FileStep
  <2> QED BY <2>1, <2>2
<1>6. CASE DaemonReady(k)
  <2>1. Continue(k) /\ pc[k] \in {"await", "spawned"}
    BY <1>6 DEF DaemonReady
  <2> QED BY <2>1, ContinueMoves
<1>7. CASE DaemonFails(k)
  <2>1. Fails(k)
    BY <1>7 DEF DaemonFails
  <2> QED BY <2>1, FailsMoves
<1> QED BY <1>1, <1>2, <1>3, <1>4, <1>5, <1>6, <1>7 DEF TunnelWork, DaemonWork

\* The steps of the two stops and of the recovery of stale ownership.
LEMMA StopMoves ==
  ASSUME TypeOK, TasksTyped, NEW k \in Stoppers, StopWork(k)
  PROVE  Moves(k)
<1> USE DEF retry
<1>0. /\ {"stale", "staleDrain", "staleDraining", "staleShutdown", "staleUntunnel",
          "drain", "draining", "untunnel", "shutdown"} \subseteq Labels(k)
      /\ k \in StartTasks /\ undo \in Undos
  BY TypeParts, LabelSets DEF Stoppers, StartTasks, Tasks
<1>1. CASE StaleLooks(k)
  <2>1. CASE file = NoFile \/ (Healthy # (file.daemon = "live"))
    BY <1>1, <2>1, PartFailsMoves DEF StaleLooks
  <2>2. CASE ~(file = NoFile \/ (Healthy # (file.daemon = "live"))) /\ ~Healthy /\ tunnel = "stopped"
    BY <1>1, <2>2, StaleEndsMoves DEF StaleLooks
  <2>3. CASE ~(file = NoFile \/ (Healthy # (file.daemon = "live"))) /\ ~(~Healthy /\ tunnel = "stopped")
    <3> DEFINE label == IF Healthy THEN "staleDrain" ELSE "staleUntunnel"
    <3>1. Goto(k, label) /\ UNCHANGED <<file, stopping, timer, tries, job, undo, quitting>>
      BY <1>1, <2>3 DEF StaleLooks
    <3>2. label \in Labels(k) /\ label # "idle"
      BY <1>0
    <3> HIDE DEF label
    <3> QED BY <1>0, <3>1, <3>2, GotoMoves DEF FileStep
  <2> QED BY <2>1, <2>2, <2>3
<1>2. CASE DrainAsked(k)
  <2> DEFINE label == IF Stale(k) THEN "staleDraining" ELSE "draining"
  <2>1. Goto(k, label) /\ UNCHANGED <<file, stopping, timer, tries, job, undo, quitting>>
    BY <1>2 DEF DrainAsked
  <2>2. label \in Labels(k) /\ label # "idle"
    BY <1>0
  <2> HIDE DEF label
  <2> QED BY <1>0, <2>1, <2>2, GotoMoves DEF FileStep
<1>3. CASE DrainHolds(k)
  <2> DEFINE label == IF Stale(k) THEN "staleShutdown" ELSE IF k = "stop" THEN "untunnel" ELSE "shutdown"
  <2>1. Goto(k, label) /\ UNCHANGED <<file, stopping, timer, tries, job, quitting>>
    BY <1>3 DEF DrainHolds
  <2>2. label \in Labels(k) /\ label # "idle"
    BY <1>0
  <2>3. undo' = undo \/ (k = "stop" /\ undo' \in Undos)
    BY <1>0, <1>3 DEF DrainHolds, Undos
  <2> HIDE DEF label
  <2> QED BY <1>0, <2>1, <2>2, <2>3, GotoMoves DEF FileStep
<1>4. CASE DrainFails(k)
  BY <1>4, PartFailsMoves DEF DrainFails
<1>5. CASE TunnelStopped(k)
  <2>1. CASE Stale(k)
    BY <1>5, <2>1, StaleEndsMoves DEF TunnelStopped
  <2>2. CASE ~Stale(k) /\ k = "start"
    BY <1>5, <2>2, CleanupMoves DEF TunnelStopped
  <2>3. CASE ~Stale(k) /\ k # "start"
    <3>1. /\ Goto(k, "shutdown") /\ undo' = [undo EXCEPT !.untunnelled = handle]
          /\ Unwritten /\ UNCHANGED <<stopping, timer, tries, job, quitting>>
      BY <1>5, <2>3 DEF TunnelStopped
    <3>2. k = "stop" /\ undo' \in Undos
      BY <1>0, <2>3, <3>1, TypeParts DEF Undos, Stoppers
    <3>3. FileStep /\ (file' = NoFile => file = NoFile)
      BY <3>1, TypeParts, UnwrittenSays DEF FileStep
    <3> QED BY <1>0, <3>1, <3>2, <3>3, GotoMoves
  <2> QED BY <2>1, <2>2, <2>3
<1>6. CASE TunnelRefuses(k)
  BY <1>6, PartFailsMoves DEF TunnelRefuses
<1>7. CASE DaemonShutDown(k)
  BY <1>7, AfterMoves DEF DaemonShutDown
<1>8. CASE ShutdownFails(k)
  BY <1>8, PartFailsMoves DEF ShutdownFails
<1> QED BY <1>1, <1>2, <1>3, <1>4, <1>5, <1>6, <1>7, <1>8 DEF StopWork

\* The first looks of a start and of a stop, and their compensations.
LEMMA LooksMoves ==
  ASSUME TypeOK, TasksTyped
  PROVE  /\ StartLooks \/ CleanupLooks => Moves("start")
         /\ StopLooks \/ DaemonRestored => Moves("stop")
<1> USE DEF retry
<1>0. /\ DOMAIN pc = Tasks /\ {"start", "stop", "force"} \subseteq Tasks
      /\ {"start", "stop"} \subseteq StartTasks
      /\ timer \in [Names -> BOOLEAN] /\ tries \in [Names -> 0..(MaxRestarts + 1)]
      /\ stopping \in BOOLEAN /\ quitting \in BOOLEAN
      /\ job \in [Recoveries -> Names] /\ undo \in Undos
      /\ file = NoFile \/ file \in OwnershipFiles
  BY TypeParts DEF Tasks, StartTasks
<1>1. ASSUME StartLooks PROVE Moves("start")
  <2>1. CASE MustRecoverStale
    <3>1. Goto("start", "stale") /\ UNCHANGED <<file, stopping, timer, tries, job, undo, quitting>>
      BY <1>1, <2>1 DEF StartLooks
    <3> QED BY <1>0, <3>1, GotoMoves, LabelSets DEF FileStep
  <2>2. CASE ~MustRecoverStale
    <3>1. /\ Goto("start", "inspect") /\ stopping' = FALSE
          /\ UNCHANGED <<file, timer, tries, job, undo, quitting>>
      BY <1>1, <2>2 DEF StartLooks
    <3>2. /\ DOMAIN pc' = Tasks /\ pc'["start"] = "inspect" /\ pc'["force"] = pc["force"]
          /\ \A j \in Tasks \ {"start"} : pc'[j] = pc[j]
      BY <1>0, <3>1 DEF Goto
    <3>3. pc'["force"] \in Labels("force") /\ pc'["start"] \in Labels("start") /\ "start" \notin Recoveries
      BY <1>0, <3>2, LabelSets DEF TasksTyped
    <3> QED BY <1>0, <3>1, <3>2, <3>3 DEF Moves, FileStep
  <2> QED BY <2>1, <2>2
<1>2. ASSUME CleanupLooks PROVE Moves("start")
  <2>1. \E label \in {"drain", "untunnel"} : Goto("start", label)
    BY <1>2 DEF CleanupLooks
  <2>2. PICK label \in {"drain", "untunnel"} : Goto("start", label)
    BY <2>1
  <2>3. Unwritten /\ UNCHANGED <<stopping, timer, tries, job, undo, quitting>>
    BY <1>2 DEF CleanupLooks
  <2>4. FileStep /\ (file' = NoFile => file = NoFile)
    BY <1>0, <2>3, UnwrittenSays DEF FileStep
  <2> QED BY <1>0, <2>2, <2>3, <2>4, GotoMoves, LabelSets
<1>3. ASSUME StopLooks PROVE Moves("stop")
  <2>1. \/ StopFails(NothingToUndo) \/ StopEnds
        \/ \E label \in {"stale", "drain", "untunnel"} :
             Goto("stop", label) /\ UNCHANGED <<file, stopping, retry, job, undo, quitting>>
    BY <1>3, Zenon DEF StopLooks
  <2>2. CASE \E label \in {"stale", "drain", "untunnel"} :
               Goto("stop", label) /\ UNCHANGED <<file, stopping, retry, job, undo, quitting>>
    <3>1. PICK label \in {"stale", "drain", "untunnel"} :
            Goto("stop", label) /\ UNCHANGED <<file, stopping, timer, tries, job, undo, quitting>>
      BY <2>2
    <3> QED BY <1>0, <3>1, GotoMoves, LabelSets DEF FileStep
  <2> QED BY <2>1, <2>2, StopFailsMoves, NothingTyped, EndMoves
<1>4. ASSUME DaemonRestored PROVE Moves("stop")
  <2>1. CASE child = "live"
    BY <1>4, <2>1, ReportMoves DEF DaemonRestored
  <2>2. CASE child # "live"
    <3>1. DaemonSpawned("stop") /\ UNCHANGED <<timer, tries, job>>
      BY <1>4, <2>2 DEF DaemonRestored
    <3> QED BY <1>0, <3>1, SpawnMoves
  <2> QED BY <2>1, <2>2
<1> QED BY <1>1, <1>2, <1>3, <1>4

\* A recovery is verified, or is scheduled again.
LEMMA RecoveryMoves ==
  ASSUME TypeOK, TasksTyped, NEW r \in Recoveries, RecoveryVerified(r) \/ RecoveryFails(r)
  PROVE  Moves(r)
<1>1. r \in StartTasks /\ "idle" \in Labels(r) /\ r # "start" /\ "ready" \in Statuses
  BY LabelSets DEF StartTasks, Tasks, Statuses
<1>2. CASE RecoveryVerified(r)
  <2>1. /\ Goto(r, "idle") /\ file' = Snapshot("ready")
        /\ UNCHANGED <<stopping, timer, tries, job, undo, quitting>>
    BY <1>2 DEF RecoveryVerified, retry
  <2>2. file' # NoFile
    BY <2>1 DEF Snapshot, NoFile
  <2> QED BY <1>1, <2>1, <2>2, GotoMoves DEF FileStep
<1>3. CASE RecoveryFails(r)
  BY <1>1, <1>3, FailsMoves DEF RecoveryFails
<1> QED BY <1>2, <1>3

\* The steps of the supervisor, of the processes and of the launcher's end.
LEMMA NextSteps ==
  ASSUME [Next]_vars
  PROVE  \/ UNCHANGED vars
         \/ StartLooks
         \/ CleanupLooks
         \/ \E k \in StartTasks : TunnelInspected(k)
         \/ \E k \in StartTasks : TunnelConnected(k)
         \/ \E k \in StartTasks : TunnelReady(k)
         \/ \E k \in StartTasks : TunnelFails(k)
         \/ \E k \in StartTasks : DaemonStarted(k)
         \/ \E k \in StartTasks : DaemonReady(k)
         \/ \E k \in StartTasks : DaemonFails(k)
         \/ \E k \in Stoppers : StaleLooks(k)
         \/ \E k \in Stoppers : DrainAsked(k)
         \/ \E k \in Stoppers : DrainHolds(k)
         \/ \E k \in Stoppers : DrainFails(k)
         \/ \E k \in Stoppers : TunnelStopped(k)
         \/ \E k \in Stoppers : TunnelRefuses(k)
         \/ \E k \in Stoppers : DaemonShutDown(k)
         \/ \E k \in Stoppers : ShutdownFails(k)
         \/ \E k \in {"stop", "force"} : StopBegins(k)
         \/ StopLooks
         \/ DaemonRestored
         \/ ForceStops
         \/ Leaves
         \/ \E k \in Recoveries : RecoveryVerified(k)
         \/ \E k \in Recoveries : RecoveryFails(k)
         \/ StartCalled
         \/ StopCalled
         \/ QuitCalled
         \/ ChildExitSeen
         \/ MonitorPolls
         \/ \E n \in Names : TimerFires(n)
         \/ DaemonBoots
         \/ DaemonCrashes
         \/ TurnBegins
         \/ TurnEnds
         \/ TunnelConnects
         \/ TunnelBreaks
         \/ LauncherCrashes
         \/ LauncherStarts
<1>0. \A r \in Recoveries : r \in StartTasks
  BY SupervisorAssumption DEF StartTasks, Tasks
<1>1. /\ "start" \in StartTasks /\ "stop" \in StartTasks /\ Recoveries \subseteq StartTasks
      /\ "start" \in Stoppers /\ "stop" \in Stoppers
  BY SupervisorAssumption DEF StartTasks, Stoppers, Tasks
<1>2. ASSUME NEW k \in {"start", "stop"}, StopWork(k)
      PROVE  \E j \in Stoppers : \/ StaleLooks(j) \/ DrainAsked(j) \/ DrainHolds(j) \/ DrainFails(j)
                                 \/ TunnelStopped(j) \/ TunnelRefuses(j) \/ DaemonShutDown(j) \/ ShutdownFails(j)
  BY <1>1, <1>2, Zenon DEF StopWork, Stoppers
<1>3. ASSUME NEW k \in {"start", "stop"} \cup Recoveries, TunnelWork(k) \/ DaemonWork(k)
      PROVE  \E j \in StartTasks : \/ TunnelInspected(j) \/ TunnelConnected(j) \/ TunnelReady(j) \/ TunnelFails(j)
                                \/ DaemonStarted(j) \/ DaemonReady(j) \/ DaemonFails(j)
  BY <1>1, <1>3, SMT DEF TunnelWork, DaemonWork
<1>4. CASE StartStep
  BY <1>1, <1>2, <1>3, <1>4, SMT DEF StartStep
<1>5. CASE StopStep
  BY <1>1, <1>2, <1>3, <1>5, SMT DEF StopStep
<1>6. CASE ForceStep
  BY <1>6, SMT DEF ForceStep
<1>7. CASE \E r \in Recoveries : RecoveryStep(r)
  <2>1. PICK r \in Recoveries : RecoveryStep(r)
    BY <1>7
  <2>2. r \in {"start", "stop"} \cup Recoveries
    OBVIOUS
  <2>3. CASE TunnelWork(r) \/ DaemonWork(r)
    BY <1>3, <2>2, <2>3, SMT
  <2>4. CASE RecoveryVerified(r) \/ RecoveryFails(r)
    BY <2>4, SMT
  <2> QED BY <2>1, <2>3, <2>4 DEF RecoveryStep
<1> QED BY <1>4, <1>5, <1>6, <1>7 DEF Next

\* Next, with the actions that tasks share taken together.
LEMMA NextParts ==
  ASSUME [Next]_vars
  PROVE  \/ \E k \in StartTasks : TunnelWork(k) \/ DaemonWork(k)
         \/ \E k \in Stoppers : StopWork(k)
         \/ StartLooks \/ CleanupLooks \/ StopLooks \/ DaemonRestored
         \/ \E r \in Recoveries : RecoveryVerified(r) \/ RecoveryFails(r)
         \/ \E k \in {"stop", "force"} : StopBegins(k)
         \/ ForceStops \/ Leaves \/ StartCalled \/ StopCalled \/ QuitCalled
         \/ ChildExitSeen \/ MonitorPolls \/ \E n \in Names : TimerFires(n)
         \/ DaemonBoots \/ DaemonCrashes \/ TurnBegins \/ TurnEnds
         \/ TunnelConnects \/ TunnelBreaks \/ LauncherCrashes \/ LauncherStarts
         \/ UNCHANGED vars
BY NextSteps, SMT DEF TunnelWork, DaemonWork, StopWork

-----------------------------------------------------------------------------
(* Types.                                                                  *)

Misses == 0..(Threshold - 1)
Counts == 0..MaxFaults

\* The processes, and what the supervisor holds of them.
CoreTyped ==
  /\ daemon \in {"none", "booting", "open", "drained"}
  /\ tunnel \in {"stopped", "unready", "ready"}
  /\ busy \in BOOLEAN /\ (busy => daemon \in {"open", "drained"})
  /\ child \in {"none", "live", "dead"} /\ (child = "live" => daemon # "none")
  /\ up \in BOOLEAN /\ restartable \in BOOLEAN /\ handle \in BOOLEAN /\ watch \in BOOLEAN
  /\ misses \in Misses /\ faults \in Counts

\* Type correctness of the program's own state is part of TypeOK.
LEMMA CoreParts == ASSUME TypeOK PROVE CoreTyped
BY TypeParts DEF CoreTyped, Healthy, Misses, Counts

\* Every action keeps them typed: a daemon that ends ends its turn, and the
\* child the supervisor holds for live is never one that is gone.
LEMMA CoreStep ==
  ASSUME CoreTyped, [Next]_vars
  PROVE  CoreTyped'
<1> USE DEF CoreTyped, world, monitor, retry, tasks
<1>a. Fault => faults' \in Counts
  BY SupervisorAssumption DEF Fault, Counts, CoreTyped
<1>b. 0 \in Misses
  BY SupervisorAssumption DEF Misses
<1>c. \A fatal : Tolerated(fatal) => misses + 1 \in Misses
  BY SupervisorAssumption DEF Tolerated, Misses
<1>1. ASSUME StartLooks PROVE CoreTyped'
  BY <1>1, <1>a, <1>b DEF StartLooks
<1>2. ASSUME CleanupLooks PROVE CoreTyped'
  BY <1>2, <1>a, <1>b DEF CleanupLooks, ChildStopped, DaemonGone, Healthy
<1>3. ASSUME NEW k \in StartTasks, TunnelInspected(k) PROVE CoreTyped'
  BY <1>3, <1>a, <1>b DEF TunnelInspected, TunnelGone, ArmMonitor
<1>4. ASSUME NEW k \in StartTasks, TunnelConnected(k) PROVE CoreTyped'
  BY <1>4, <1>a, <1>b DEF TunnelConnected
<1>5. ASSUME NEW k \in StartTasks, TunnelReady(k) PROVE CoreTyped'
  BY <1>5, <1>a, <1>b DEF TunnelReady, ArmMonitor
<1>6. ASSUME NEW k \in StartTasks, TunnelFails(k) PROVE CoreTyped'
  BY <1>6, <1>a, <1>b DEF TunnelFails, TunnelGone, StopMonitor, Keeps
<1>7. ASSUME NEW k \in StartTasks, DaemonStarted(k) PROVE CoreTyped'
  BY <1>7, <1>a, <1>b DEF DaemonStarted, DaemonSpawned
<1>8. ASSUME NEW k \in StartTasks, DaemonReady(k) PROVE CoreTyped'
  BY <1>8, <1>a, <1>b DEF DaemonReady
<1>9. ASSUME NEW k \in StartTasks, DaemonFails(k) PROVE CoreTyped'
  BY <1>9, <1>a, <1>b DEF DaemonFails, ChildStopped, DaemonGone, Keeps
<1>10. ASSUME NEW k \in Stoppers, StaleLooks(k) PROVE CoreTyped'
  BY <1>10, <1>a, <1>b DEF StaleLooks, Healthy, NoFile
<1>11. ASSUME NEW k \in Stoppers, DrainAsked(k) PROVE CoreTyped'
  BY <1>11, <1>a, <1>b DEF DrainAsked, Healthy
<1>12. ASSUME NEW k \in Stoppers, DrainHolds(k) PROVE CoreTyped'
  BY <1>12, <1>a, <1>b DEF DrainHolds, Healthy
<1>13. ASSUME NEW k \in Stoppers, DrainFails(k) PROVE CoreTyped'
  BY <1>13, <1>a, <1>b DEF DrainFails, Healthy, Resumed, Keeps, Drains
<1>14. ASSUME NEW k \in Stoppers, TunnelStopped(k) PROVE CoreTyped'
  BY <1>14, <1>a, <1>b DEF TunnelStopped, StopMonitor
<1>15. ASSUME NEW k \in Stoppers, TunnelRefuses(k) PROVE CoreTyped'
  BY <1>15, <1>a, <1>b DEF TunnelRefuses, ArmMonitor
<1>16. ASSUME NEW k \in Stoppers, DaemonShutDown(k) PROVE CoreTyped'
  BY <1>16, <1>a, <1>b DEF DaemonShutDown, Orphaned, DaemonGone
<1>17. ASSUME NEW k \in Stoppers, ShutdownFails(k) PROVE CoreTyped'
  <2>1. CASE /\ IF Healthy /\ daemon = "drained" /\ ~busy THEN Fault ELSE Keeps
             /\ IF k = "stop" /\ ~Stale(k) THEN UNCHANGED daemon ELSE Resumed
             /\ UNCHANGED <<busy, child, restartable>>
    <3>1. faults' \in Counts
      BY <1>a, <2>1 DEF Keeps
    <3> QED BY <1>17, <2>1, <3>1 DEF ShutdownFails, Resumed
  <2>2. CASE /\ Fault /\ daemon = "drained" /\ ~busy /\ DaemonGone
             /\ IF Stale(k) THEN Orphaned /\ UNCHANGED restartable
                ELSE child' = "none" /\ restartable' = FALSE
    BY <1>17, <1>a, <2>2 DEF ShutdownFails, DaemonGone, Orphaned
  <2> QED BY <1>17, <2>1, <2>2, Zenon DEF ShutdownFails
<1>18. ASSUME NEW k \in {"stop", "force"}, StopBegins(k) PROVE CoreTyped'
  BY <1>18, <1>a, <1>b DEF StopBegins, TimersCleared, NoTimers, StopMonitor
<1>19. ASSUME StopLooks PROVE CoreTyped'
  BY <1>19, <1>a, <1>b DEF StopLooks, NothingToUndo, Healthy, Keeps, NoFile
<1>20. ASSUME DaemonRestored PROVE CoreTyped'
  BY <1>20, <1>a, <1>b DEF DaemonRestored, DaemonSpawned, Keeps, Healthy
<1>21. ASSUME ForceStops PROVE CoreTyped'
  BY <1>21, <1>a, <1>b DEF ForceStops, NoFile, ChildStopped, DaemonGone, TunnelGone, Keeps
<1>22. ASSUME Leaves PROVE CoreTyped'
  BY <1>22, <1>a, <1>b DEF Leaves, LauncherEnds, NoFile, AllIdle, NoJobs, NoTries, NoTimers, NothingToUndo, Keeps
<1>23. ASSUME NEW k \in Recoveries, RecoveryVerified(k) PROVE CoreTyped'
  BY <1>23, <1>a, <1>b DEF RecoveryVerified
<1>24. ASSUME NEW k \in Recoveries, RecoveryFails(k) PROVE CoreTyped'
  BY <1>24, <1>a, <1>b DEF RecoveryFails, Keeps
<1>25. ASSUME StartCalled PROVE CoreTyped'
  BY <1>25, <1>a, <1>b DEF StartCalled, Idle
<1>26. ASSUME StopCalled PROVE CoreTyped'
  BY <1>26, <1>a, <1>b DEF StopCalled, Idle
<1>27. ASSUME QuitCalled PROVE CoreTyped'
  <2>1. CASE Keeps /\ busy' = (busy /\ child # "live")
    <3>1. busy' \in BOOLEAN /\ (busy' => busy)
      BY <2>1
    <3> QED BY <1>27, <2>1, <3>1 DEF QuitCalled, Keeps
  <2>2. CASE Fault /\ UNCHANGED busy
    BY <1>27, <1>a, <2>2 DEF QuitCalled
  <2> QED BY <1>27, <2>1, <2>2, Zenon DEF QuitCalled
<1>28. ASSUME ChildExitSeen PROVE CoreTyped'
  BY <1>28, <1>a, <1>b DEF ChildExitSeen
<1>29. ASSUME MonitorPolls PROVE CoreTyped'
  <2>1. CASE tunnel = "ready"
    BY <1>29, <1>b, <2>1 DEF MonitorPolls
  <2>2. CASE tunnel # "ready"
    <3>1. misses' \in Misses /\ handle' \in BOOLEAN /\ watch' \in BOOLEAN
      BY <1>29, <1>b, <1>c, <2>2 DEF MonitorPolls
    <3> QED BY <1>29, <3>1 DEF MonitorPolls
  <2> QED BY <2>1, <2>2
<1>30. ASSUME NEW n \in Names, TimerFires(n) PROVE CoreTyped'
  BY <1>30, <1>a, <1>b DEF TimerFires, DaemonSpawned
<1>31. ASSUME DaemonBoots PROVE CoreTyped'
  BY <1>31, <1>a, <1>b DEF DaemonBoots
<1>32. ASSUME DaemonCrashes PROVE CoreTyped'
  BY <1>32, <1>a, <1>b DEF DaemonCrashes, Orphaned, DaemonGone
<1>33. ASSUME TurnBegins PROVE CoreTyped'
  BY <1>33, <1>a, <1>b DEF TurnBegins
<1>34. ASSUME TurnEnds PROVE CoreTyped'
  BY <1>34, <1>a, <1>b DEF TurnEnds
<1>35. ASSUME TunnelConnects PROVE CoreTyped'
  BY <1>35, <1>a, <1>b DEF TunnelConnects
<1>36. ASSUME TunnelBreaks PROVE CoreTyped'
  BY <1>36, <1>a, <1>b DEF TunnelBreaks
<1>37. ASSUME LauncherCrashes PROVE CoreTyped'
  BY <1>37, <1>a, <1>b DEF LauncherCrashes, LauncherEnds, NoFile, AllIdle, NoJobs, NoTries, NoTimers, NothingToUndo
<1>38. ASSUME LauncherStarts PROVE CoreTyped'
  BY <1>38, <1>a, <1>b DEF LauncherStarts
<1>39. CASE UNCHANGED vars
  BY <1>39 DEF vars
<1> QED BY <1>1, <1>2, <1>3, <1>4, <1>5, <1>6, <1>7, <1>8, <1>9, <1>10, <1>11, <1>12, <1>13, <1>14, <1>15, <1>16, <1>17, <1>18, <1>19, <1>20, <1>21, <1>22, <1>23, <1>24, <1>25, <1>26, <1>27, <1>28, <1>29, <1>30, <1>31, <1>32, <1>33, <1>34, <1>35, <1>36, <1>37, <1>38, <1>39, NextSteps

\* The supervisor's records, where each task stands, and the file.
BookTyped ==
  /\ timer \in [Names -> BOOLEAN] /\ tries \in [Names -> 0..(MaxRestarts + 1)]
  /\ stopping \in BOOLEAN /\ quitting \in BOOLEAN
  /\ job \in [Recoveries -> Names] /\ undo \in Undos
  /\ DOMAIN pc = Tasks /\ TasksTyped
  /\ file = NoFile \/ file \in OwnershipFiles

\* Type correctness is that of the program's state and of its books.
LEMMA TypeSplits == TypeOK /\ TasksTyped <=> CoreTyped /\ BookTyped
BY TypeParts DEF CoreTyped, BookTyped, Healthy, Misses, Counts

\* A step of the ownership file writes a snapshot, or clears or keeps it.
LEMMA FileStepTyped ==
  ASSUME TypeOK, CoreTyped', FileStep
  PROVE  file' = NoFile \/ file' \in OwnershipFiles
<1>1. file = NoFile \/ file \in OwnershipFiles
  BY TypeParts
<1>2. child' \in {"none", "live", "dead"}
  BY DEF CoreTyped
<1> QED BY <1>1, <1>2, SnapshotSays, UnwrittenSays DEF FileStep

\* A step of one task keeps the records typed.
LEMMA MovesTyped ==
  ASSUME TypeOK, TasksTyped, CoreTyped', NEW k \in StartTasks, Moves(k)
  PROVE  BookTyped'
<1>1. \A j \in Tasks : pc'[j] \in Labels(j)
  BY DEF Moves, TasksTyped, StartTasks, Tasks
<1> QED BY <1>1, FileStepTyped DEF BookTyped, TasksTyped, Moves

\* One of the tasks goes to another of its awaits, the file is written or not.
LEMMA GotoTyped ==
  ASSUME TypeOK, TasksTyped, NEW k \in Tasks, NEW label \in Labels(k), Goto(k, label)
  PROVE  DOMAIN pc' = Tasks /\ TasksTyped' /\ pc'[k] = label
         /\ \A j \in Tasks \ {k} : pc'[j] = pc[j]
BY TypeParts DEF Goto, TasksTyped

\* Every action keeps the books typed: a task goes to a label of its own,
\* a timer or a retry count is only changed for a name.
LEMMA BookStep ==
  ASSUME TypeOK, TasksTyped, CoreTyped', [Next]_vars
  PROVE  BookTyped'
<1> USE DEF retry, tasks
<1>0. /\ BookTyped /\ "start" \in StartTasks /\ "stop" \in StartTasks
      /\ {"start", "stop", "force"} \subseteq Tasks
      /\ Recoveries \subseteq StartTasks /\ Recoveries \subseteq Tasks
      /\ Stoppers \subseteq StartTasks /\ TasksTyped
  BY TypeSplits, SupervisorAssumption DEF StartTasks, Stoppers, Tasks, BookTyped
<1>1. ASSUME NEW k \in StartTasks, TunnelWork(k) \/ DaemonWork(k) PROVE BookTyped'
  BY <1>1, WorkMoves, MovesTyped
<1>2. ASSUME NEW k \in Stoppers, StopWork(k) PROVE BookTyped'
  BY <1>0, <1>2, StopMoves, MovesTyped
<1>3. ASSUME StartLooks \/ CleanupLooks \/ StopLooks \/ DaemonRestored PROVE BookTyped'
  BY <1>0, <1>3, LooksMoves, MovesTyped
<1>4. ASSUME NEW r \in Recoveries, RecoveryVerified(r) \/ RecoveryFails(r) PROVE BookTyped'
  BY <1>0, <1>4, RecoveryMoves, MovesTyped
<1>5. ASSUME NEW k \in {"stop", "force"}, StopBegins(k) PROVE BookTyped'
  <2>1. k \in Tasks /\ "settle" \in Labels(k)
    BY <1>0, LabelSets
  <2>2. Goto(k, "settle") /\ stopping' = TRUE /\ timer' = NoTimers
        /\ UNCHANGED <<file, tries, job, undo, quitting>>
    BY <1>5 DEF StopBegins, TimersCleared
  <2> QED BY <1>0, <2>1, <2>2, GotoTyped DEF BookTyped, NoTimers
<1>6. ASSUME ForceStops PROVE BookTyped'
  <2>1. "leave" \in Labels("force") /\ "failed" \in Statuses
    BY LabelSets DEF Statuses
  <2>2. Goto("force", "leave") /\ stopping' = FALSE /\ (file' = NoFile \/ file' = Snapshot("failed"))
        /\ UNCHANGED <<retry, job, undo, quitting>>
    BY <1>6 DEF ForceStops
  <2>3. file' = NoFile \/ file' \in OwnershipFiles
    BY <2>1, <2>2, FileStepTyped DEF FileStep
  <2> QED BY <1>0, <2>1, <2>2, <2>3, GotoTyped DEF BookTyped
<1>7. ASSUME LauncherEnds PROVE BookTyped'
  <2>1. \A k \in Tasks : "idle" \in Labels(k)
    BY LabelSets DEF Tasks
  <2>2. file' = NoFile \/ file' \in OwnershipFiles
    BY <1>0, <1>7 DEF LauncherEnds, BookTyped, OwnershipFiles
  <2>3. 0 \in 0..(MaxRestarts + 1)
    BY SupervisorAssumption
  <2> QED BY <1>7, <2>1, <2>2, <2>3, NothingTyped
          DEF LauncherEnds, BookTyped, TasksTyped, AllIdle, NoTimers, NoTries, NoJobs
<1>8. ASSUME StartCalled \/ StopCalled \/ QuitCalled PROVE BookTyped'
  <2>1. /\ "look" \in Labels("start") /\ "begin" \in Labels("stop") /\ "begin" \in Labels("force")
    BY LabelSets
  <2>2. \/ Goto("start", "look") \/ Goto("stop", "begin") \/ Goto("force", "begin")
    BY <1>8 DEF StartCalled, StopCalled, QuitCalled
  <2>3. UNCHANGED <<stopping, file, timer, tries, job, undo>> /\ quitting' \in {quitting, TRUE}
    BY <1>8 DEF StartCalled, StopCalled, QuitCalled
  <2> QED BY <1>0, <2>1, <2>2, <2>3, GotoTyped DEF BookTyped
<1>9. ASSUME ChildExitSeen PROVE BookTyped'
  <2>1. \/ (file' = Snapshot("stopping") \/ file' = Snapshot("degraded")) /\ UNCHANGED <<timer, tries>>
        \/ Schedule("daemon", Snapshot("degraded"))
    BY <1>9 DEF ChildExitSeen
  <2>2. {"stopping", "degraded", "failed"} \subseteq Statuses
    BY DEF Statuses
  <2>3. FileStep /\ timer' \in [Names -> BOOLEAN] /\ tries' \in [Names -> 0..(MaxRestarts + 1)]
    BY <1>0, <2>1, <2>2, ScheduleSays DEF FileStep, BookTyped
  <2>4. UNCHANGED <<stopping, job, pc, undo, quitting>>
    BY <1>9 DEF ChildExitSeen
  <2> QED BY <1>0, <2>3, <2>4, FileStepTyped DEF BookTyped, TasksTyped
<1>10. ASSUME MonitorPolls PROVE BookTyped'
  <2>1. \/ (file' = file \/ file' = Snapshot("ready")) /\ UNCHANGED <<timer, tries>>
        \/ Schedule("tunnel", Snapshot("degraded"))
    <3>1. CASE tunnel = "ready"
      BY <1>10, <3>1, SMT DEF MonitorPolls
    <3>2. CASE tunnel # "ready"
      BY <1>10, <3>2, Zenon DEF MonitorPolls
    <3> QED BY <3>1, <3>2
  <2>2. {"ready", "degraded", "failed"} \subseteq Statuses
    BY DEF Statuses
  <2>3. FileStep /\ timer' \in [Names -> BOOLEAN] /\ tries' \in [Names -> 0..(MaxRestarts + 1)]
    BY <1>0, <2>1, <2>2, ScheduleSays DEF FileStep, BookTyped
  <2>4. UNCHANGED <<stopping, job, pc, undo, quitting>>
    BY <1>10 DEF MonitorPolls
  <2> QED BY <1>0, <2>3, <2>4, FileStepTyped DEF BookTyped, TasksTyped
<1>11. ASSUME NEW n \in Names, TimerFires(n) PROVE BookTyped'
  <2>1. timer' \in [Names -> BOOLEAN] /\ tries' = tries
    BY <1>0, <1>11 DEF TimerFires, BookTyped
  <2>2. CASE UNCHANGED <<file, stopping, tasks>>
    BY <1>0, <2>1, <2>2 DEF BookTyped, TasksTyped
  <2>3. ASSUME NEW r \in Recoveries, job' = [job EXCEPT ![r] = n], DaemonSpawned(r) PROVE BookTyped'
    <3>1. "spawned" \in Labels(r) /\ r \in Tasks /\ "starting" \in Statuses
      BY <1>0, LabelSets DEF Statuses
    <3>2. Goto(r, "spawned") /\ file' = Snapshot("starting") /\ UNCHANGED <<stopping, undo, quitting>>
      BY <2>3 DEF DaemonSpawned, SpawnRecorded
    <3>3. FileStep /\ job' \in [Recoveries -> Names]
      BY <1>0, <2>3, <3>1, <3>2 DEF FileStep, BookTyped
    <3> QED BY <1>0, <2>1, <3>1, <3>2, <3>3, GotoTyped, FileStepTyped DEF BookTyped
  <2>4. ASSUME NEW r \in Recoveries, job' = [job EXCEPT ![r] = n],
               NEW label \in {"inspect", "daemon"}, Goto(r, label),
               UNCHANGED <<file, stopping, undo, quitting>>
        PROVE  BookTyped'
    <3>1. label \in Labels(r) /\ r \in Tasks
      BY <1>0, LabelSets
    <3>2. job' \in [Recoveries -> Names]
      BY <1>0, <2>4 DEF BookTyped
    <3> QED BY <1>0, <2>1, <2>4, <3>1, <3>2, GotoTyped DEF BookTyped
  <2> QED BY <1>11, <2>2, <2>3, <2>4, SMT DEF TimerFires
<1>12. ASSUME DaemonCrashes \/ TunnelBreaks PROVE BookTyped'
  <2>1. Unwritten /\ UNCHANGED <<stopping, retry, tasks>>
    BY <1>12 DEF DaemonCrashes, TunnelBreaks
  <2> QED BY <1>0, <2>1, FileStepTyped DEF BookTyped, TasksTyped, FileStep
<1>13. ASSUME DaemonBoots \/ TurnBegins \/ TurnEnds \/ TunnelConnects \/ LauncherStarts
              \/ UNCHANGED vars
       PROVE  BookTyped'
  <2>1. UNCHANGED <<file, stopping, timer, tries, job, pc, undo, quitting>>
    BY <1>13 DEF DaemonBoots, TurnBegins, TurnEnds, TunnelConnects, LauncherStarts, vars
  <2> QED BY <1>0, <2>1 DEF BookTyped, TasksTyped
<1>14. ASSUME Leaves \/ LauncherCrashes PROVE BookTyped'
  BY <1>7, <1>14 DEF Leaves, LauncherCrashes
<1> QED BY <1>1, <1>2, <1>3, <1>4, <1>5, <1>6, <1>8, <1>9, <1>10, <1>11, <1>12, <1>13, <1>14, NextParts

\* Type correctness is inductive.
LEMMA TypeStep ==
  ASSUME TypeOK, TasksTyped, [Next]_vars
  PROVE  TypeOK' /\ TasksTyped'
<1>1. CoreTyped'
  BY CoreParts, CoreStep
<1>2. BookTyped'
  BY <1>1, BookStep
<1>3. (TypeOK /\ TasksTyped)' <=> (CoreTyped /\ BookTyped)'
  BY TypeSplits, PTL
<1> QED BY <1>1, <1>2, <1>3

-----------------------------------------------------------------------------
(* A stop is alone.                                                        *)

\* Whoever works has left its first awaits.
LEMMA AtWork ==
  ASSUME TypeOK, TasksTyped
  PROVE  /\ \A k \in StartTasks : TunnelWork(k) \/ DaemonWork(k) => pc[k] \notin {"idle", "begin", "settle"}
         /\ \A k \in Stoppers : StopWork(k) => pc[k] \notin {"idle", "begin", "settle"}
         /\ StartLooks \/ CleanupLooks => pc["start"] # "idle"
         /\ StopLooks => pc["stop"] = "settle" /\ Idle(Recoveries)
         /\ DaemonRestored => pc["stop"] = "restore"
         /\ \A r \in Recoveries : RecoveryVerified(r) \/ RecoveryFails(r) => pc[r] # "idle"
<1>1. ASSUME NEW k \in StartTasks, TunnelWork(k) PROVE pc[k] \notin {"idle", "begin", "settle"}
  <2>1. TunnelInspected(k) => pc[k] = "inspect"
    BY Zenon DEF TunnelInspected
  <2>2. TunnelConnected(k) => pc[k] = "connect"
    BY Zenon DEF TunnelConnected
  <2>3. TunnelReady(k) => pc[k] = "connected"
    BY Zenon DEF TunnelReady
  <2>4. TunnelFails(k) => pc[k] \in {"inspect", "connect", "connected"}
    BY Zenon DEF TunnelFails
  <2> QED BY <1>1, <2>1, <2>2, <2>3, <2>4 DEF TunnelWork
<1>2. ASSUME NEW k \in StartTasks, DaemonWork(k) PROVE pc[k] \notin {"idle", "begin", "settle"}
  BY <1>2, SMT DEF DaemonWork, DaemonStarted, DaemonReady, DaemonFails
<1>3. ASSUME NEW k \in Stoppers, StopWork(k) PROVE pc[k] \notin {"idle", "begin", "settle"}
  BY <1>3, SMT DEF StopWork, StaleLooks, DrainAsked, DrainHolds, DrainFails, Drains,
                   TunnelStopped, TunnelRefuses, DaemonShutDown, ShutdownFails
<1>4. StartLooks \/ CleanupLooks => pc["start"] # "idle"
  BY SMT DEF StartLooks, CleanupLooks
<1>5. StopLooks => pc["stop"] = "settle" /\ Idle(Recoveries)
  BY Zenon DEF StopLooks, RecoveriesSettled
<1>6. DaemonRestored => pc["stop"] = "restore"
  BY Zenon DEF DaemonRestored
<1>7. \A r \in Recoveries : RecoveryVerified(r) \/ RecoveryFails(r) => pc[r] # "idle"
  BY SMT DEF RecoveryVerified, RecoveryFails
<1> QED BY <1>1, <1>2, <1>3, <1>4, <1>5, <1>6, <1>7

\* A step of a task at work leaves a stop alone; it may be the stop's own.
LEMMA MovesAlone ==
  ASSUME TypeOK, TasksTyped, StopAlone, OneStop, NEW k \in StartTasks, Moves(k),
         pc[k] # "idle", k = "stop" => pc[k] # "begin" /\ Idle(Recoveries)
  PROVE  StopAlone' /\ OneStop'
<1>1. /\ {"start", "stop", "force"} \subseteq Tasks /\ Recoveries \subseteq Tasks
      /\ "start" \notin Recoveries /\ "stop" \notin Recoveries /\ "force" \notin Recoveries
  BY LabelSets DEF Tasks
<1>2. CASE k = "start"
  <2>1. pc'["stop"] = pc["stop"] /\ pc'["force"] = pc["force"]
    BY <1>1, <1>2 DEF Moves
  <2>2. pc["stop"] \in {"idle", "begin"}
    BY <1>2 DEF StopAlone
  <2> QED BY <2>1, <2>2 DEF StopAlone, OneStop
<1>3. CASE k = "stop"
  <2>1. pc'["start"] = pc["start"] /\ \A r \in Recoveries : pc'[r] = pc[r]
    BY <1>1, <1>3 DEF Moves
  <2>2. pc["start"] = "idle" /\ stopping /\ \A n \in Names : ~timer[n]
    BY <1>3 DEF StopAlone
  <2>3. pc'["stop"] # "idle" => pc'["force"] = pc["force"] /\ stopping' = stopping /\ timer' = timer
    BY <1>3, <2>2 DEF Moves
  <2> QED BY <1>3, <2>1, <2>2, <2>3 DEF StopAlone, OneStop, Idle
<1>4. CASE k \in Recoveries
  <2>1. pc'["stop"] = pc["stop"] /\ pc'["force"] = pc["force"] /\ pc'["start"] = pc["start"]
    BY <1>1, <1>4 DEF Moves
  <2>2. pc["stop"] \in {"idle", "begin", "settle"}
    BY <1>4 DEF StopAlone, Idle
  <2>3. stopping' = stopping /\ (stopping => timer' = timer)
    BY <1>4 DEF Moves
  <2> QED BY <2>1, <2>2, <2>3 DEF StopAlone, OneStop
<1> QED BY <1>2, <1>3, <1>4 DEF StartTasks, Tasks

\* A step that leaves the tasks where they stand and arms no timer under a stop.
LEMMA StillAlone ==
  ASSUME StopAlone, OneStop, UNCHANGED <<pc, stopping>>,
         stopping => \A n \in Names : timer'[n] => timer[n]
  PROVE  StopAlone' /\ OneStop'
BY DEF StopAlone, OneStop, Idle

\* No step lets anything work beside a graceful stop.
LEMMA AloneStep ==
  ASSUME TypeOK, TasksTyped, StopAlone, OneStop, [Next]_vars
  PROVE  StopAlone' /\ OneStop'
<1> USE DEF retry, tasks
<1>0. /\ {"start", "stop", "force"} \subseteq Tasks /\ Recoveries \subseteq StartTasks
      /\ Stoppers \subseteq StartTasks /\ "start" \in StartTasks /\ "stop" \in StartTasks
      /\ "start" \notin Recoveries /\ "stop" \notin Recoveries /\ "force" \notin Recoveries
      /\ DOMAIN pc = Tasks /\ timer \in [Names -> BOOLEAN] /\ Recoveries \subseteq Tasks
  BY LabelSets, TypeParts DEF Tasks, StartTasks, Stoppers
<1>a. pc["stop"] \notin {"idle", "begin", "settle"} => Idle(Recoveries)
  BY DEF StopAlone
<1>1. ASSUME NEW k \in StartTasks, TunnelWork(k) \/ DaemonWork(k) PROVE StopAlone' /\ OneStop'
  BY <1>1, <1>a, WorkMoves, MovesAlone, AtWork
<1>2. ASSUME NEW k \in Stoppers, StopWork(k) PROVE StopAlone' /\ OneStop'
  BY <1>0, <1>2, <1>a, StopMoves, MovesAlone, AtWork
<1>3. ASSUME StartLooks \/ CleanupLooks \/ StopLooks \/ DaemonRestored PROVE StopAlone' /\ OneStop'
  <2>1. ASSUME StartLooks \/ CleanupLooks PROVE StopAlone' /\ OneStop'
    BY <1>0, <2>1, LooksMoves, MovesAlone, AtWork
  <2>2. ASSUME StopLooks \/ DaemonRestored PROVE StopAlone' /\ OneStop'
    <3>1. pc["stop"] \notin {"idle", "begin"} /\ Idle(Recoveries) /\ Moves("stop")
      BY <2>2, <1>a, LooksMoves, AtWork
    <3> QED BY <1>0, <3>1, MovesAlone
  <2> QED BY <1>3, <2>1, <2>2
<1>4. ASSUME NEW r \in Recoveries, RecoveryVerified(r) \/ RecoveryFails(r) PROVE StopAlone' /\ OneStop'
  BY <1>0, <1>4, RecoveryMoves, MovesAlone, AtWork
<1>5. ASSUME NEW k \in {"stop", "force"}, StopBegins(k) PROVE StopAlone' /\ OneStop'
  <2>1. /\ pc[k] = "begin" /\ (k = "stop" => pc["start"] = "idle")
        /\ stopping' = TRUE /\ timer' = NoTimers /\ Goto(k, "settle")
    BY <1>5 DEF StopBegins, TimersCleared
  <2>2. pc'[k] = "settle" /\ \A j \in Tasks \ {k} : pc'[j] = pc[j]
    BY <1>0, <2>1 DEF Goto
  <2> QED BY <1>0, <2>1, <2>2 DEF StopAlone, OneStop, NoTimers
<1>6. ASSUME ForceStops PROVE StopAlone' /\ OneStop'
  <2>1. pc["force"] = "settle" /\ Goto("force", "leave")
    BY <1>6 DEF ForceStops
  <2>2. pc'["stop"] = "idle"
    BY <1>0, <2>1 DEF Goto, OneStop
  <2> QED BY <2>2 DEF StopAlone, OneStop
<1>7. ASSUME LauncherEnds PROVE StopAlone' /\ OneStop'
  BY <1>0, <1>7 DEF LauncherEnds, AllIdle, StopAlone, OneStop
<1>8. ASSUME StartCalled \/ StopCalled \/ QuitCalled PROVE StopAlone' /\ OneStop'
  <2>1. CASE StartCalled
    <3>1. pc["stop"] = "idle" /\ Goto("start", "look")
      BY <2>1 DEF StartCalled, Idle
    <3> QED BY <1>0, <3>1 DEF Goto, StopAlone, OneStop
  <2>2. CASE StopCalled \/ QuitCalled
    <3>1. pc["stop"] = "idle" /\ pc["force"] = "idle" /\ (Goto("stop", "begin") \/ Goto("force", "begin"))
      BY <2>2 DEF StopCalled, QuitCalled, Idle
    <3> QED BY <1>0, <3>1 DEF Goto, StopAlone, OneStop
  <2> QED BY <1>8, <2>1, <2>2
<1>9. ASSUME ChildExitSeen PROVE StopAlone' /\ OneStop'
  <2>1. UNCHANGED <<timer, tries>> \/ Schedule("daemon", Snapshot("degraded"))
    BY <1>9 DEF ChildExitSeen
  <2>2. stopping => timer' = timer
    BY <2>1, ScheduleSays
  <2> QED BY <1>9, <2>2, StillAlone DEF ChildExitSeen
<1>10. ASSUME MonitorPolls PROVE StopAlone' /\ OneStop'
  <2>1. ~stopping /\ UNCHANGED <<pc, stopping>>
    BY <1>10 DEF MonitorPolls
  <2> QED BY <2>1, StillAlone
<1>11. ASSUME NEW n \in Names, TimerFires(n) PROVE StopAlone' /\ OneStop'
  <2>1. timer' = [timer EXCEPT ![n] = FALSE]
    BY <1>11 DEF TimerFires
  <2>2. CASE UNCHANGED <<stopping, tasks>>
    BY <1>0, <2>1, <2>2, StillAlone
  <2>3. CASE ~stopping /\ \E r \in Recoveries, label \in {"spawned", "inspect", "daemon"} : Goto(r, label)
    <3>1. PICK r \in Recoveries, label \in {"spawned", "inspect", "daemon"} : Goto(r, label)
      BY <2>3
    <3>2. pc'["stop"] = pc["stop"] /\ pc'["force"] = pc["force"]
      BY <1>0, <3>1 DEF Goto
    <3>3. pc["stop"] \in {"idle", "begin"}
      BY <2>3 DEF StopAlone
    <3> QED BY <3>2, <3>3 DEF StopAlone, OneStop
  <2> QED BY <1>11, <2>2, <2>3, SMT DEF TimerFires, DaemonSpawned
<1>13. ASSUME \/ DaemonCrashes \/ TunnelBreaks
              \/ DaemonBoots \/ TurnBegins \/ TurnEnds \/ TunnelConnects \/ LauncherStarts
              \/ UNCHANGED vars
       PROVE  StopAlone' /\ OneStop'
  <2>1. UNCHANGED <<stopping, timer, pc>>
    BY <1>13 DEF DaemonCrashes, TunnelBreaks, DaemonBoots, TurnBegins, TurnEnds, TunnelConnects,
                 LauncherStarts, vars
  <2> QED BY <2>1, StillAlone
<1>14. ASSUME Leaves \/ LauncherCrashes PROVE StopAlone' /\ OneStop'
  BY <1>7, <1>14 DEF Leaves, LauncherCrashes
<1> QED BY <1>1, <1>2, <1>3, <1>4, <1>5, <1>6, <1>8, <1>9, <1>10, <1>11, <1>13, <1>14, NextParts

-----------------------------------------------------------------------------
(* The drain of a stop, and the daemon it does not hold.                   *)

\* Where a stop goes when a part of it fails or is compensated.
LEMMA StopTargets ==
  ASSUME TypeOK, TasksTyped
  PROVE  /\ Fails("stop") => pc'["stop"] \in {"idle", "restore"}
         /\ Continue("stop") => pc'["stop"] \in {"idle", "restore"}
         /\ \A u \in Undos : StopFails(u) => pc'["stop"] \in {"idle", "inspect", "restore"}
         /\ PartFails("stop") => pc'["stop"] \in {"idle", "inspect", "restore"}
<1>1. DOMAIN pc = Tasks /\ "stop" \in Tasks /\ "stop" \notin Recoveries
  BY TypeParts, LabelSets DEF Tasks
<1>2. ASSUME NEW f, StopReports(f) PROVE pc'["stop"] = "idle"
  BY <1>1, <1>2 DEF StopReports
<1>3. ASSUME NEW label, Goto("stop", label) PROVE pc'["stop"] = label
  BY <1>1, <1>3 DEF Goto
<1>4. ASSUME NEW k, k = "stop", Fails(k) PROVE pc'[k] \in {"idle", "restore"}
  <2>1. CASE pc[k] = "spawned" \/ ~undo.drained
    <3>1. StopReports(TRUE)
      BY <1>4, <2>1, Zenon DEF Fails
    <3> QED BY <1>2, <1>4, <3>1
  <2>2. CASE ~(pc[k] = "spawned" \/ ~undo.drained)
    <3>1. Goto(k, "restore")
      BY <1>4, <2>2, SMT DEF Fails
    <3> QED BY <1>3, <1>4, <3>1
  <2> QED BY <2>1, <2>2
<1>5. ASSUME Continue("stop") PROVE StopReports(undo.failed) \/ Goto("stop", "restore")
  BY <1>5, SMT DEF Continue
<1>6. ASSUME NEW u \in Undos, StopFails(u)
      PROVE StopReports(u.failed) \/ Goto("stop", "restore") \/ Goto("stop", "inspect")
  BY <1>6, SMT DEF StopFails
<1>7. PartFails("stop") => \E u \in Undos : StopFails(u)
  BY NothingTyped, TypeParts DEF PartFails
<1> QED BY <1>2, <1>3, <1>4, <1>5, <1>6, <1>7

\* The tunnel and the daemon that a stop starts again belong to its
\* compensation, which drains nothing.
LEMMA CompensationTargets ==
  ASSUME TypeOK, TasksTyped, TunnelWork("stop") \/ DaemonWork("stop") \/ DaemonRestored
  PROVE  pc'["stop"] \in {"idle", "restore", "connect", "connected", "spawned"}
<1>1. DOMAIN pc = Tasks /\ "stop" \in Tasks
  BY TypeParts DEF Tasks
<1>2. ASSUME NEW label, Goto("stop", label) PROVE pc'["stop"] = label
  BY <1>1, <1>2 DEF Goto
<1>3. pc["stop"] # "daemon"
  BY <1>1, LabelSets DEF TasksTyped
<1>4. TunnelInspected("stop") => Continue("stop") \/ Goto("stop", "connect")
  BY Zenon DEF TunnelInspected
<1>5. TunnelConnected("stop") => Goto("stop", "connected")
  BY Zenon DEF TunnelConnected
<1>6. TunnelReady("stop") \/ DaemonReady("stop") => Continue("stop")
  BY Zenon DEF TunnelReady, DaemonReady
<1>7. TunnelFails("stop") \/ DaemonFails("stop") => Fails("stop")
  BY Zenon DEF TunnelFails, DaemonFails
<1>8. ~DaemonStarted("stop")
  BY <1>3 DEF DaemonStarted
<1>9. DaemonRestored => (\E f : StopReports(f)) \/ Goto("stop", "spawned")
  BY Zenon DEF DaemonRestored, DaemonSpawned
<1>10. ASSUME NEW f, StopReports(f) PROVE pc'["stop"] = "idle"
  BY <1>1, <1>10 DEF StopReports
<1> QED BY <1>2, <1>4, <1>5, <1>6, <1>7, <1>8, <1>9, <1>10, StopTargets DEF TunnelWork, DaemonWork

DrainSound == StopKeepsItsDrain /\ StaleHoldsNone
\* The steps of the stop itself.
LEMMA StopOwnDrain ==
  ASSUME TypeOK, TasksTyped, DrainSound, StopWork("stop")
  PROVE  DrainSound'
<1>0. /\ DOMAIN pc = Tasks /\ "stop" \in Tasks /\ undo \in Undos
  BY TypeParts DEF Tasks
<1>a. ASSUME NEW label, Goto("stop", label) PROVE pc'["stop"] = label
  BY <1>0, <1>a DEF Goto
<1>b. ASSUME pc'["stop"] \in {"idle", "inspect", "restore"} PROVE DrainSound'
  BY <1>b DEF DrainSound, StopKeepsItsDrain, StaleHoldsNone, Stale
<1>1. CASE PartFails("stop") \/ StaleEnds("stop")
  BY <1>1, <1>b, StopTargets, StaleEndsMoves DEF Stoppers
<1>2. CASE StaleLooks("stop")
  <2>1. CASE Goto("stop", IF Healthy THEN "staleDrain" ELSE "staleUntunnel")
    <3>1. pc'["stop"] \in {"staleDrain", "staleUntunnel"}
      BY <1>a, <2>1
    <3>2. child # "live" /\ child' = child
      BY <1>2 DEF StaleLooks, DrainSound, StaleHoldsNone, Stale
    <3> QED BY <3>1, <3>2 DEF DrainSound, StopKeepsItsDrain, StaleHoldsNone, Stale
  <2> QED BY <1>1, <1>2, <2>1, Zenon DEF StaleLooks
<1>3. CASE DrainAsked("stop")
  <2>1. pc'["stop"] \in {"staleDraining", "draining"} /\ (pc'["stop"] = "staleDraining" => Stale("stop"))
        /\ child' = child
    BY <1>3, <1>a DEF DrainAsked
  <2> QED BY <2>1 DEF DrainSound, StopKeepsItsDrain, StaleHoldsNone, Stale
<1>4. CASE DrainHolds("stop")
  <2>1. /\ pc'["stop"] \in {"staleShutdown", "untunnel"} /\ (pc'["stop"] = "staleShutdown" => Stale("stop"))
        /\ child' = child /\ daemon' = "drained"
    BY <1>4, <1>a DEF DrainHolds
  <2> QED BY <2>1 DEF DrainSound, StopKeepsItsDrain, StaleHoldsNone, Stale
<1>5. CASE DrainFails("stop")
  BY <1>1, <1>5, Zenon DEF DrainFails
<1>6. CASE TunnelStopped("stop")
  <2>1. CASE Stale("stop")
    BY <1>1, <1>6, <2>1, Zenon DEF TunnelStopped
  <2>2. CASE ~Stale("stop")
    <3>1. /\ pc["stop"] = "untunnel" /\ pc'["stop"] = "shutdown" /\ UNCHANGED <<daemon, child>>
          /\ undo' = [undo EXCEPT !.untunnelled = handle]
      BY <1>6, <1>a, <2>2 DEF TunnelStopped, Stale
    <3>2. undo'.drained = undo.drained
      BY <1>0, <3>1 DEF Undos
    <3> QED BY <3>1, <3>2 DEF DrainSound, StopKeepsItsDrain, StaleHoldsNone, Stale
  <2> QED BY <2>1, <2>2
<1>7. CASE TunnelRefuses("stop")
  BY <1>1, <1>7, Zenon DEF TunnelRefuses
<1>8. CASE DaemonShutDown("stop")
  <2>1. CASE Stale("stop")
    <3>1. /\ Goto("stop", "staleUntunnel") /\ Orphaned
      BY <1>8, <2>1, SMT DEF DaemonShutDown, AfterShutdown
    <3>2. pc'["stop"] = "staleUntunnel" /\ child' # "live"
      BY <1>a, <3>1 DEF Orphaned
    <3> QED BY <3>2 DEF DrainSound, StopKeepsItsDrain, StaleHoldsNone, Stale
  <2>2. CASE ~Stale("stop")
    <3>1. StopEnds
      BY <1>8, <2>2, SMT DEF DaemonShutDown, AfterShutdown
    <3> QED BY <1>b, <3>1, EndMoves
  <2> QED BY <2>1, <2>2
<1>9. CASE ShutdownFails("stop")
  BY <1>1, <1>9, Zenon DEF ShutdownFails
<1> QED BY <1>2, <1>3, <1>4, <1>5, <1>6, <1>7, <1>8, <1>9 DEF StopWork

\* What does not belong to the stop leaves a running one its drain.
LEMMA OtherDrain ==
  ASSUME TypeOK, DrainSound, pc'["stop"] = pc["stop"], undo' = undo,
         pc["stop"] \in {"idle", "begin", "settle"} \/ child' \in {child, "none", "dead"},
         pc["stop"] \in {"idle", "begin", "settle"} \/ child' # "live" \/ daemon' = daemon
           \/ daemon = "booting"
  PROVE  DrainSound'
BY DEF DrainSound, StopKeepsItsDrain, StaleHoldsNone, Stale

\* Nothing but a stop's own step, or the end of the daemon, ends its drain.
LEMMA DrainStep ==
  ASSUME TypeOK, TasksTyped, StopAlone, OneStop, DrainSound, [Next]_vars
  PROVE  DrainSound'
<1> USE DEF retry, tasks, world
<1>0. /\ {"start", "stop", "force"} \subseteq Tasks /\ Recoveries \subseteq StartTasks
      /\ "start" \notin Recoveries /\ "stop" \notin Recoveries /\ "force" \notin Recoveries
      /\ DOMAIN pc = Tasks /\ Recoveries \subseteq Tasks
      /\ StartTasks = {"start", "stop"} \cup Recoveries
  BY LabelSets, TypeParts DEF Tasks, StartTasks
<1>a. ASSUME NEW k \in StartTasks, k # "stop", Moves(k), pc[k] # "idle" PROVE DrainSound'
  <2>1. pc["stop"] \in {"idle", "begin", "settle"}
    BY <1>0, <1>a DEF StopAlone, Idle
  <2>2. pc'["stop"] = pc["stop"] /\ undo' = undo
    BY <1>0, <1>a DEF Moves
  <2> QED BY <2>1, <2>2, OtherDrain
<1>b. ASSUME pc'["stop"] \in {"idle", "begin", "settle", "restore", "connect", "connected", "spawned", "inspect", "drain"}
      PROVE  DrainSound'
  BY <1>b DEF DrainSound, StopKeepsItsDrain, StaleHoldsNone, Stale
<1>1. ASSUME NEW k \in StartTasks, TunnelWork(k) \/ DaemonWork(k) PROVE DrainSound'
  BY <1>1, <1>a, <1>b, WorkMoves, AtWork, CompensationTargets
<1>2. ASSUME NEW k \in Stoppers, StopWork(k) PROVE DrainSound'
  <2>1. CASE k = "stop"
    BY <1>2, <2>1, StopOwnDrain
  <2>2. CASE k # "stop"
    BY <1>0, <1>2, <1>a, <2>2, StopMoves, AtWork DEF Stoppers
  <2> QED BY <2>1, <2>2
<1>3. ASSUME StartLooks \/ CleanupLooks PROVE DrainSound'
  BY <1>0, <1>3, <1>a, LooksMoves, AtWork
<1>4. ASSUME NEW r \in Recoveries, RecoveryVerified(r) \/ RecoveryFails(r) PROVE DrainSound'
  BY <1>0, <1>4, <1>a, RecoveryMoves, AtWork
<1>5. ASSUME NEW k \in {"stop", "force"}, StopBegins(k) PROVE DrainSound'
  <2>1. pc[k] = "begin" /\ Goto(k, "settle") /\ UNCHANGED <<daemon, child, undo>>
    BY <1>5 DEF StopBegins
  <2>2. CASE k = "stop"
    BY <1>0, <1>b, <2>1, <2>2 DEF Goto
  <2>3. CASE k = "force"
    <3>1. pc'["stop"] = pc["stop"]
      BY <1>0, <2>1, <2>3 DEF Goto
    <3> QED BY <2>1, <3>1, OtherDrain
  <2> QED BY <2>2, <2>3
<1>6. ASSUME ForceStops PROVE DrainSound'
  <2>1. pc["force"] = "settle" /\ Goto("force", "leave") /\ undo' = undo
    BY <1>6 DEF ForceStops
  <2>2. pc'["stop"] = "idle"
    BY <1>0, <2>1 DEF Goto, OneStop
  <2> QED BY <1>b, <2>2
<1>7. ASSUME Leaves \/ LauncherCrashes PROVE DrainSound'
  <2>1. pc' = AllIdle
    BY <1>7 DEF Leaves, LauncherCrashes, LauncherEnds
  <2> QED BY <1>0, <1>b, <2>1 DEF AllIdle
<1>8. ASSUME StartCalled \/ StopCalled \/ QuitCalled PROVE DrainSound'
  <2>1. pc["stop"] = "idle" /\ \E k \in {"start", "stop", "force"}, label \in {"look", "begin"} : Goto(k, label) /\ (k = "stop" => label = "begin")
    BY <1>8 DEF StartCalled, StopCalled, QuitCalled, Idle
  <2>2. pc'["stop"] \in {"idle", "begin"}
    BY <1>0, <2>1 DEF Goto
  <2> QED BY <1>b, <2>2
<1>9. ASSUME ChildExitSeen PROVE DrainSound'
  <2>1. UNCHANGED <<pc, undo, daemon>> /\ child' = "none"
    BY <1>9 DEF ChildExitSeen
  <2> QED BY <2>1, OtherDrain
<1>10. ASSUME MonitorPolls PROVE DrainSound'
  <2>1. UNCHANGED <<pc, undo, daemon, child>>
    BY <1>10 DEF MonitorPolls
  <2> QED BY <2>1, OtherDrain
<1>11. ASSUME NEW n \in Names, TimerFires(n) PROVE DrainSound'
  <2>1. timer[n] /\ pc["stop"] \in {"idle", "begin"}
    BY <1>11 DEF TimerFires, StopAlone
  <2>2. pc'["stop"] = pc["stop"]
    BY <1>0, <1>11 DEF TimerFires, DaemonSpawned, Goto
  <2> QED BY <1>b, <2>1, <2>2
<1>12. ASSUME DaemonCrashes PROVE DrainSound'
  <2>1. UNCHANGED <<pc, undo>> /\ child' # "live" /\ child' \in {child, "dead"}
    BY <1>12 DEF DaemonCrashes, Orphaned
  <2> QED BY <2>1, OtherDrain
<1>13. ASSUME \/ TunnelBreaks \/ TurnBegins \/ TurnEnds \/ TunnelConnects \/ LauncherStarts
              \/ UNCHANGED vars \/ DaemonBoots
       PROVE  DrainSound'
  <2>1. UNCHANGED <<pc, undo, child>> /\ (daemon' = daemon \/ daemon = "booting")
    BY <1>13 DEF TunnelBreaks, TurnBegins, TurnEnds, TunnelConnects, LauncherStarts, vars, DaemonBoots
  <2> QED BY <2>1, OtherDrain
<1>14. ASSUME StopLooks PROVE DrainSound'
  <2>1. CASE \E u \in Undos : StopFails(u)
    BY <1>b, <2>1, StopTargets
  <2>2. CASE StopEnds
    BY <1>b, <2>2, EndMoves
  <2>3. CASE \E label \in {"stale", "untunnel"} : Goto("stop", label) /\ child = "none"
    <3>1. PICK label \in {"stale", "untunnel"} : Goto("stop", label) /\ child = "none"
      BY <2>3
    <3>2. child' = "none"
      BY <1>14, <3>1 DEF StopLooks
    <3> QED BY <3>2 DEF DrainSound, StopKeepsItsDrain, StaleHoldsNone
  <2>4. CASE Goto("stop", "drain")
    BY <1>0, <1>b, <2>4 DEF Goto
  <2>5. \/ StopFails(NothingToUndo) \/ StopEnds \/ Goto("stop", "drain")
        \/ (child = "none" /\ (Goto("stop", "stale") \/ Goto("stop", "untunnel")))
    BY <1>14, Zenon DEF StopLooks
  <2> QED BY <2>1, <2>2, <2>3, <2>4, <2>5, NothingTyped
<1>15. ASSUME DaemonRestored PROVE DrainSound'
  BY <1>b, <1>15, CompensationTargets
<1> QED BY <1>1, <1>2, <1>3, <1>4, <1>5, <1>6, <1>7, <1>8, <1>9, <1>10, <1>11, <1>12, <1>13, <1>14, <1>15, NextParts

-----------------------------------------------------------------------------
(* The ownership file.                                                     *)

\* Only a spawned daemon is one more to hold, and it is written down at once.
LEMMA ChildStep ==
  ASSUME CoreTyped, [Next]_vars, child' = "live", child # "live"
  PROVE  file' = Snapshot("starting")
<1>1. ASSUME StartLooks PROVE file' = Snapshot("starting")
  BY <1>1 DEF StartLooks, world
<1>2. ASSUME CleanupLooks PROVE file' = Snapshot("starting")
  BY <1>2 DEF CleanupLooks, ChildStopped, DaemonGone, world
<1>3. ASSUME NEW k \in StartTasks, TunnelInspected(k) PROVE file' = Snapshot("starting")
  BY <1>3 DEF TunnelInspected, TunnelGone, ArmMonitor, world
<1>4. ASSUME NEW k \in StartTasks, TunnelConnected(k) PROVE file' = Snapshot("starting")
  BY <1>4 DEF TunnelConnected, world
<1>5. ASSUME NEW k \in StartTasks, TunnelReady(k) PROVE file' = Snapshot("starting")
  BY <1>5 DEF TunnelReady, ArmMonitor, world
<1>6. ASSUME NEW k \in StartTasks, TunnelFails(k) PROVE file' = Snapshot("starting")
  BY <1>6 DEF TunnelFails, TunnelGone, StopMonitor, world
<1>7. ASSUME NEW k \in StartTasks, DaemonStarted(k) PROVE file' = Snapshot("starting")
  BY <1>7 DEF DaemonStarted, DaemonSpawned, SpawnRecorded, world
<1>8. ASSUME NEW k \in StartTasks, DaemonReady(k) PROVE file' = Snapshot("starting")
  BY <1>8 DEF DaemonReady, world
<1>9. ASSUME NEW k \in StartTasks, DaemonFails(k) PROVE file' = Snapshot("starting")
  BY <1>9 DEF DaemonFails, ChildStopped, DaemonGone, world
<1>10. ASSUME NEW k \in Stoppers, StaleLooks(k) PROVE file' = Snapshot("starting")
  BY <1>10 DEF StaleLooks, NoFile, world
<1>11. ASSUME NEW k \in Stoppers, DrainAsked(k) PROVE file' = Snapshot("starting")
  BY <1>11 DEF DrainAsked, world
<1>12. ASSUME NEW k \in Stoppers, DrainHolds(k) PROVE file' = Snapshot("starting")
  BY <1>12 DEF DrainHolds, world
<1>13. ASSUME NEW k \in Stoppers, DrainFails(k) PROVE file' = Snapshot("starting")
  BY <1>13 DEF DrainFails, Resumed, Drains, world
<1>14. ASSUME NEW k \in Stoppers, TunnelStopped(k) PROVE file' = Snapshot("starting")
  BY <1>14 DEF TunnelStopped, StopMonitor, world
<1>15. ASSUME NEW k \in Stoppers, TunnelRefuses(k) PROVE file' = Snapshot("starting")
  BY <1>15 DEF TunnelRefuses, ArmMonitor, world
<1>16. ASSUME NEW k \in Stoppers, DaemonShutDown(k) PROVE file' = Snapshot("starting")
  BY <1>16 DEF DaemonShutDown, Orphaned, DaemonGone, world
<1>17. ASSUME NEW k \in Stoppers, ShutdownFails(k) PROVE file' = Snapshot("starting")
  BY <1>17 DEF ShutdownFails, Orphaned, DaemonGone, Resumed, world
<1>18. ASSUME NEW k \in {"stop", "force"}, StopBegins(k) PROVE file' = Snapshot("starting")
  BY <1>18 DEF StopBegins, TimersCleared, NoTimers, StopMonitor, world
<1>19. ASSUME StopLooks PROVE file' = Snapshot("starting")
  BY <1>19 DEF StopLooks, NothingToUndo, NoFile, world
<1>20. ASSUME DaemonRestored PROVE file' = Snapshot("starting")
  BY <1>20 DEF DaemonRestored, DaemonSpawned, SpawnRecorded, world
<1>21. ASSUME ForceStops PROVE file' = Snapshot("starting")
  BY <1>21 DEF ForceStops, NoFile, ChildStopped, DaemonGone, TunnelGone, world
<1>22. ASSUME Leaves PROVE file' = Snapshot("starting")
  BY <1>22 DEF Leaves, LauncherEnds, NoFile, AllIdle, NoJobs, NoTries, NoTimers, NothingToUndo, world
<1>23. ASSUME NEW k \in Recoveries, RecoveryVerified(k) PROVE file' = Snapshot("starting")
  BY <1>23 DEF RecoveryVerified, world
<1>24. ASSUME NEW k \in Recoveries, RecoveryFails(k) PROVE file' = Snapshot("starting")
  BY <1>24 DEF RecoveryFails, world
<1>25. ASSUME StartCalled PROVE file' = Snapshot("starting")
  BY <1>25 DEF StartCalled, world
<1>26. ASSUME StopCalled PROVE file' = Snapshot("starting")
  BY <1>26 DEF StopCalled, world
<1>27. ASSUME QuitCalled PROVE file' = Snapshot("starting")
  BY <1>27 DEF QuitCalled, world
<1>28. ASSUME ChildExitSeen PROVE file' = Snapshot("starting")
  BY <1>28 DEF ChildExitSeen, world
<1>29. ASSUME MonitorPolls PROVE file' = Snapshot("starting")
  BY <1>29 DEF MonitorPolls, world
<1>30. ASSUME NEW n \in Names, TimerFires(n) PROVE file' = Snapshot("starting")
  BY <1>30 DEF TimerFires, DaemonSpawned, SpawnRecorded, world
<1>31. ASSUME DaemonBoots PROVE file' = Snapshot("starting")
  BY <1>31 DEF DaemonBoots, world
<1>32. ASSUME DaemonCrashes PROVE file' = Snapshot("starting")
  BY <1>32 DEF DaemonCrashes, Orphaned, DaemonGone, world
<1>33. ASSUME TurnBegins PROVE file' = Snapshot("starting")
  BY <1>33 DEF TurnBegins, world
<1>34. ASSUME TurnEnds PROVE file' = Snapshot("starting")
  BY <1>34 DEF TurnEnds, world
<1>35. ASSUME TunnelConnects PROVE file' = Snapshot("starting")
  BY <1>35 DEF TunnelConnects, world
<1>36. ASSUME TunnelBreaks PROVE file' = Snapshot("starting")
  BY <1>36 DEF TunnelBreaks, world
<1>37. ASSUME LauncherCrashes PROVE file' = Snapshot("starting")
  BY <1>37 DEF LauncherCrashes, LauncherEnds, NoFile, AllIdle, NoJobs, NoTries, NoTimers, NothingToUndo, world
<1>38. ASSUME LauncherStarts PROVE file' = Snapshot("starting")
  BY <1>38 DEF LauncherStarts, world
<1>39. CASE UNCHANGED vars
  BY <1>39 DEF vars
<1> QED BY <1>1, <1>2, <1>3, <1>4, <1>5, <1>6, <1>7, <1>8, <1>9, <1>10, <1>11, <1>12, <1>13, <1>14, <1>15, <1>16, <1>17, <1>18, <1>19, <1>20, <1>21, <1>22, <1>23, <1>24, <1>25, <1>26, <1>27, <1>28, <1>29, <1>30, <1>31, <1>32, <1>33, <1>34, <1>35, <1>36, <1>37, <1>38, <1>39, NextSteps

\* A file that a step leaves, clears or writes keeps to what is held.
LEMMA FileKept ==
  ASSUME TypeOK, CoreTyped', FileSound, FileStep, [Next]_vars,
         file' = NoFile /\ child' = "live" => ~Idle({"start", "force"})'
  PROVE  FileSound'
<1> SUFFICES ASSUME child' = "live" PROVE file' # NoFile => file'.daemon = "live"
  BY DEF FileSound
<1>1. daemon' # "none" /\ child' \in {"none", "live", "dead"} /\ (file = NoFile \/ file \in OwnershipFiles) /\ CoreTyped
  BY CoreParts, TypeParts DEF CoreTyped
<1>2. CASE \E status \in Statuses : file' = Snapshot(status)
  BY <1>1, <1>2, SnapshotSays
<1>3. CASE file' = file \/ Unwritten
  <2>1. CASE child = "live"
    BY <1>1, <1>3, <2>1, UnwrittenSays DEF FileSound
  <2>2. CASE child # "live"
    <3>1. file' = Snapshot("starting") /\ "starting" \in Statuses
      BY <1>1, <2>2, ChildStep DEF Statuses
    <3> QED BY <1>1, <3>1, SnapshotSays
  <2> QED BY <2>1, <2>2
<1> QED BY <1>2, <1>3 DEF FileStep

\* A step of a task at work clears the file only if it may.
LEMMA MovesFile ==
  ASSUME TypeOK, TasksTyped, OneStop, FileSound, CoreTyped', [Next]_vars,
         NEW k \in StartTasks, Moves(k), pc[k] # "idle",
         k = "stop" /\ file' = NoFile /\ file # NoFile => child' # "live"
  PROVE  FileSound'
<1> SUFFICES ASSUME file' = NoFile, child' = "live" PROVE ~Idle({"start", "force"})'
  BY FileKept DEF Moves
<1>1. {"start", "stop", "force"} \subseteq Tasks
  BY DEF Tasks
<1>2. CASE file # NoFile
  BY <1>1, <1>2 DEF Moves, Idle
<1>3. CASE file = NoFile
  <2>1. child = "live"
    <3>1. ASSUME child # "live" PROVE FALSE
      <4>1. file' = Snapshot("starting")
        BY <3>1, ChildStep, CoreParts
      <4> QED BY <4>1 DEF Snapshot, NoFile
    <3> QED BY <3>1
  <2>2. pc["start"] # "idle" \/ pc["force"] # "idle"
    BY <1>3, <2>1 DEF FileSound, Idle
  <2>3. CASE k = "stop"
    BY <1>1, <2>2, <2>3 DEF OneStop, Moves, Idle
  <2>4. CASE k # "stop"
    <3>1. pc'["force"] = pc["force"] /\ (k # "start" => pc'["start"] = pc["start"])
      BY <1>1, <2>4 DEF Moves
    <3>2. k = "start" => pc'["start"] # "idle"
      BY DEF Moves
    <3> QED BY <2>2, <3>1, <3>2 DEF Idle
  <2> QED BY <2>3, <2>4
<1> QED BY <1>2, <1>3

\* A stop clears the file when it holds no daemon any more.
LEMMA StopClears ==
  ASSUME TypeOK, TasksTyped, StaleHoldsNone, file' = NoFile, file # NoFile,
         TunnelWork("stop") \/ DaemonWork("stop") \/ StopWork("stop") \/ StopLooks \/ DaemonRestored
  PROVE  child' # "live"
<1>0. /\ DOMAIN pc = Tasks /\ "stop" \in Tasks /\ undo \in Undos
      /\ file = NoFile \/ file \in OwnershipFiles
  BY TypeParts DEF Tasks
<1>a. \A status : Snapshot(status) # NoFile
  BY DEF Snapshot, NoFile
<1>b. ~(file' = file) /\ ~Unwritten /\ ~SpawnRecorded
  BY <1>0, <1>a, UnwrittenSays DEF SpawnRecorded
<1>c. \A f : ~StopReports(f)
  BY <1>a DEF StopReports
<1>d. \A u \in Undos : ~StopFails(u)
  BY <1>b, <1>c, Zenon DEF StopFails
<1>e. ~PartFails("stop")
  BY <1>0, <1>d, NothingTyped DEF PartFails
<1>f. ~Fails("stop")
  <2>1. ASSUME NEW k, k = "stop", Fails(k) PROVE FALSE
    <3>1. CASE pc[k] = "spawned" \/ ~undo.drained
      <4>1. StopReports(TRUE)
        BY <2>1, <3>1, Zenon DEF Fails
      <4> QED BY <1>c, <4>1
    <3>2. CASE ~(pc[k] = "spawned" \/ ~undo.drained)
      BY <1>b, <2>1, <3>2, SMT DEF Fails
    <3> QED BY <3>1, <3>2
  <2> QED BY <2>1
<1>g. ~Continue("stop")
  BY <1>b, <1>c, SMT DEF Continue
<1>1. CASE StopLooks
  BY <1>1, <1>b, <1>d, NothingTyped, Zenon DEF StopLooks
<1>2. CASE DaemonRestored
  BY <1>2, <1>b, <1>c, Zenon DEF DaemonRestored, DaemonSpawned
<1>3. CASE TunnelWork("stop")
  <2>1. ~TunnelInspected("stop")
    BY <1>b, <1>g, Zenon DEF TunnelInspected
  <2>2. ~TunnelConnected("stop")
    BY <1>b, SMT DEF TunnelConnected
  <2>3. ~TunnelReady("stop") /\ ~TunnelFails("stop")
    BY <1>f, <1>g, Zenon DEF TunnelReady, TunnelFails
  <2> QED BY <1>3, <2>1, <2>2, <2>3 DEF TunnelWork
<1>4. CASE DaemonWork("stop")
  <2>1. ~DaemonStarted("stop")
    BY <1>b, SMT DEF DaemonStarted, DaemonSpawned
  <2>2. ~DaemonReady("stop") /\ ~DaemonFails("stop")
    BY <1>f, <1>g, Zenon DEF DaemonReady, DaemonFails
  <2> QED BY <1>4, <2>1, <2>2 DEF DaemonWork
<1>5. CASE StopWork("stop")
  <2>1. CASE StaleLooks("stop")
    BY <2>1, SMT DEF StaleLooks, StaleHoldsNone, Stale
  <2>2. CASE DrainAsked("stop") \/ DrainHolds("stop")
    BY <1>b, <2>2, SMT DEF DrainAsked, DrainHolds
  <2>3. CASE DrainFails("stop") \/ TunnelRefuses("stop") \/ ShutdownFails("stop")
    BY <1>e, <2>3, Zenon DEF DrainFails, TunnelRefuses, ShutdownFails
  <2>4. CASE TunnelStopped("stop")
    <3>1. CASE Stale("stop")
      BY <2>4, <3>1, SMT DEF TunnelStopped, StaleHoldsNone
    <3>2. CASE ~Stale("stop")
      BY <1>b, <2>4, <3>2, SMT DEF TunnelStopped
    <3> QED BY <3>1, <3>2
  <2>5. CASE DaemonShutDown("stop")
    BY <2>5, SMT DEF DaemonShutDown, Orphaned
  <2> QED BY <1>5, <2>1, <2>2, <2>3, <2>4, <2>5 DEF StopWork
<1> QED BY <1>1, <1>2, <1>3, <1>4, <1>5

\* Every step keeps the file to the daemon that is held.
LEMMA FileStepSound ==
  ASSUME TypeOK, TasksTyped, OneStop, StaleHoldsNone, FileSound, CoreTyped', [Next]_vars
  PROVE  FileSound'
<1> USE DEF retry, tasks, world
<1>0. /\ {"start", "stop", "force"} \subseteq Tasks /\ Recoveries \subseteq StartTasks
      /\ Stoppers \subseteq StartTasks /\ "start" \in StartTasks /\ "stop" \in StartTasks
      /\ "start" \notin Recoveries /\ "stop" \notin Recoveries /\ "force" \notin Recoveries
      /\ DOMAIN pc = Tasks /\ Recoveries \subseteq Tasks /\ Recoveries \cap Stoppers = {}
  BY LabelSets, TypeParts DEF Tasks, StartTasks, Stoppers
<1>a. \A status : Snapshot(status) # NoFile
  BY DEF Snapshot, NoFile
<1>1. ASSUME NEW k \in StartTasks, TunnelWork(k) \/ DaemonWork(k) PROVE FileSound'
  BY <1>1, WorkMoves, AtWork, StopClears, MovesFile
<1>2. ASSUME NEW k \in Stoppers, StopWork(k) PROVE FileSound'
  BY <1>0, <1>2, StopMoves, AtWork, StopClears, MovesFile
<1>3. ASSUME StartLooks \/ CleanupLooks PROVE FileSound'
  BY <1>0, <1>3, LooksMoves, AtWork, MovesFile
<1>4. ASSUME StopLooks \/ DaemonRestored PROVE FileSound'
  BY <1>0, <1>4, LooksMoves, AtWork, StopClears, MovesFile
<1>5. ASSUME NEW r \in Recoveries, RecoveryVerified(r) \/ RecoveryFails(r) PROVE FileSound'
  BY <1>0, <1>5, RecoveryMoves, AtWork, MovesFile
<1>6. ASSUME ForceStops PROVE FileSound'
  BY <1>6 DEF ForceStops, ChildStopped, FileSound
<1>7. ASSUME Leaves \/ LauncherCrashes PROVE FileSound'
  BY <1>7 DEF Leaves, LauncherCrashes, LauncherEnds, FileSound
<1>8. ASSUME ChildExitSeen PROVE FileSound'
  BY <1>8 DEF ChildExitSeen, FileSound
<1>9. ASSUME \/ \E k \in {"stop", "force"} : StopBegins(k)
             \/ StartCalled \/ StopCalled \/ QuitCalled \/ LauncherStarts
             \/ TurnBegins \/ TurnEnds \/ TunnelConnects \/ DaemonBoots \/ UNCHANGED vars
      PROVE  FileSound'
  <2>1. UNCHANGED <<file, child>>
    BY <1>9, SMT DEF StopBegins, StartCalled, StopCalled, QuitCalled, LauncherStarts,
                TurnBegins, TurnEnds, TunnelConnects, DaemonBoots, vars
  <2>2. \/ UNCHANGED pc
        \/ \E k \in Tasks, label \in {"settle", "look", "begin"} : Goto(k, label)
    BY <1>0, <1>9, SMT DEF StopBegins, StartCalled, StopCalled, QuitCalled, LauncherStarts,
                TurnBegins, TurnEnds, TunnelConnects, DaemonBoots, vars
  <2>3. Idle({"start", "force"})' => Idle({"start", "force"})
    BY <1>0, <2>2 DEF Goto, Idle
  <2> QED BY <2>1, <2>3 DEF FileSound
<1>10. ASSUME MonitorPolls PROVE FileSound'
  <2>1. UNCHANGED <<child, pc>>
    BY <1>10 DEF MonitorPolls
  <2>2. file' = file \/ file' = Snapshot("ready") \/ file' = Snapshot("degraded") \/ file' = Snapshot("failed")
    <3>1. CASE tunnel = "ready"
      BY <1>10, <3>1, SMT DEF MonitorPolls
    <3>2. CASE tunnel # "ready"
      <4>1. file' = file \/ Schedule("tunnel", Snapshot("degraded"))
        BY <1>10, <3>2, Zenon DEF MonitorPolls
      <4> QED BY <4>1, ScheduleSays
    <3> QED BY <3>1, <3>2
  <2>3. {"ready", "degraded", "failed"} \subseteq Statuses
    BY DEF Statuses
  <2>4. file' = NoFile => file = NoFile
    BY <1>a, <2>2
  <2> QED BY <2>1, <2>2, <2>3, <2>4, FileKept DEF FileStep, FileSound, Idle
<1>11. ASSUME NEW n \in Names, TimerFires(n) PROVE FileSound'
  <2>1. CASE UNCHANGED <<file, child, tasks>>
    BY <2>1 DEF FileSound, Idle
  <2>2. CASE file' = Snapshot("starting")
    <3>1. "starting" \in Statuses
      BY DEF Statuses
    <3> QED BY <1>a, <2>2, <3>1, FileKept DEF FileStep
  <2>3. CASE UNCHANGED <<file, child>> /\ \E r \in Recoveries, label \in {"inspect", "daemon"} : Goto(r, label)
    <3>1. pc'["start"] = pc["start"] /\ pc'["force"] = pc["force"]
      BY <1>0, <2>3 DEF Goto
    <3> QED BY <2>3, <3>1 DEF FileSound, Idle
  <2> QED BY <1>11, <2>1, <2>2, <2>3, SMT DEF TimerFires, DaemonSpawned, SpawnRecorded
<1>12. ASSUME DaemonCrashes \/ TunnelBreaks PROVE FileSound'
  <2>1. UNCHANGED pc /\ child' \in {child, "dead"} /\ Unwritten
    BY <1>12 DEF DaemonCrashes, TunnelBreaks, Orphaned
  <2>2. file' = NoFile => file = NoFile
    BY <2>1, UnwrittenSays, TypeParts
  <2> QED BY <2>1, <2>2, FileKept DEF FileStep, FileSound, Idle
<1> QED BY <1>1, <1>2, <1>3, <1>4, <1>5, <1>6, <1>7, <1>8, <1>9, <1>10, <1>11, <1>12, NextParts

-----------------------------------------------------------------------------
(* The monitor.                                                            *)

\* A step away from the connecting of a tunnel leaves what excuses the monitor.
LEMMA WatchKept ==
  ASSUME TypeOK, WatchSound, NEW k \in Tasks,
         pc[k] \notin {"connect", "connected"}, \A j \in Tasks \ {k, "force"} : pc'[j] = pc[j],
         pc["force"] # "idle" => pc'["force"] # "idle",
         pc["force"] \notin {"connect", "connected"},
         watch' /\ ~handle' => watch /\ ~handle
  PROVE  WatchSound'
BY DEF WatchSound

\* A task at work gives up the tunnel it watches only to connect it again.
LEMMA WatchStep ==
  ASSUME TypeOK, TasksTyped, OneStop, WatchSound, [Next]_vars
  PROVE  WatchSound'
<1> USE DEF monitor, world
<1>0. /\ {"start", "stop", "force"} \subseteq Tasks /\ StartTasks \subseteq Tasks
      /\ Stoppers \subseteq StartTasks /\ "start" \in StartTasks /\ "stop" \in StartTasks
      /\ Recoveries \subseteq StartTasks /\ "force" \notin StartTasks
      /\ DOMAIN pc = Tasks /\ watch \in BOOLEAN /\ handle \in BOOLEAN
  BY LabelSets, TypeParts DEF Tasks, StartTasks, Stoppers
<1>a. pc["force"] \notin {"connect", "connected"}
  BY <1>0, LabelSets DEF TasksTyped
<1>b. ASSUME NEW k \in StartTasks, Moves(k), pc[k] # "idle", pc[k] \notin {"connect", "connected"},
             watch' /\ ~handle' => watch /\ ~handle
      PROVE  WatchSound'
  <2>1. pc["force"] # "idle" => pc'["force"] # "idle"
    BY <1>b DEF Moves, OneStop
  <2>2. \A j \in Tasks \ {k, "force"} : pc'[j] = pc[j]
    BY <1>b DEF Moves
  <2> QED BY <1>0, <1>a, <1>b, <2>1, <2>2, WatchKept
<1>c. ASSUME watch' = FALSE \/ handle' = TRUE PROVE WatchSound'
  BY <1>c DEF WatchSound
<1>d. ASSUME NEW k \in Tasks, NEW label, Goto(k, label), label # "idle",
             pc[k] \notin {"connect", "connected"}, UNCHANGED <<watch, handle>>
      PROVE  WatchSound'
  BY <1>0, <1>a, <1>d, WatchKept DEF Goto
<1>1. ASSUME NEW k \in StartTasks, TunnelInspected(k) PROVE WatchSound'
  <2>1. CASE tunnel = "ready" /\ k \notin Recoveries
    BY <1>1, <1>c, <2>1 DEF TunnelInspected
  <2>2. CASE ~(tunnel = "ready" /\ k \notin Recoveries)
    BY <1>0, <1>1, <2>2 DEF TunnelInspected, Goto, WatchSound
  <2> QED BY <2>1, <2>2
<1>2. ASSUME NEW k \in StartTasks, TunnelConnected(k) PROVE WatchSound'
  BY <1>0, <1>2 DEF TunnelConnected, Goto, WatchSound
<1>3. ASSUME NEW k \in StartTasks, TunnelReady(k) \/ TunnelFails(k) PROVE WatchSound'
  BY <1>3, <1>c DEF TunnelReady, TunnelFails, StopMonitor
<1>4. ASSUME NEW k \in StartTasks, DaemonWork(k) PROVE WatchSound'
  <2>1. UNCHANGED <<watch, handle>>
    BY <1>4, SMT DEF DaemonWork, DaemonStarted, DaemonSpawned, DaemonReady, DaemonFails
  <2>2. pc[k] \in {"daemon", "await", "spawned"}
    BY <1>4, SMT DEF DaemonWork, DaemonStarted, DaemonReady, DaemonFails
  <2> QED BY <1>4, <1>b, <2>1, <2>2, WorkMoves
<1>5. ASSUME NEW k \in Stoppers, StopWork(k) PROVE WatchSound'
  <2>1. watch' /\ ~handle' => watch /\ ~handle
    <3>1. CASE StaleLooks(k) \/ DrainAsked(k) \/ DrainHolds(k) \/ DrainFails(k) \/ DaemonShutDown(k) \/ ShutdownFails(k)
      <4>1. UNCHANGED <<watch, handle>>
        BY <3>1, SMT DEF StaleLooks, DrainAsked, DrainHolds, DrainFails, DaemonShutDown, ShutdownFails
      <4> QED BY <4>1
    <3>2. CASE TunnelStopped(k)
      <4>1. UNCHANGED <<watch, handle>> \/ watch' = FALSE
        BY <3>2, Zenon DEF TunnelStopped, StopMonitor
      <4> QED BY <4>1
    <3>3. CASE TunnelRefuses(k)
      <4>1. handle' = handle /\ (Stale(k) \/ handle) /\ (Stale(k) => watch' = watch)
        BY <3>3, Zenon DEF TunnelRefuses
      <4> QED BY <4>1
    <3> QED BY <1>5, <3>1, <3>2, <3>3 DEF StopWork
  <2>2. pc[k] \notin {"idle", "connect", "connected"}
    BY <1>5, SMT DEF StopWork, StaleLooks, DrainAsked, DrainHolds, DrainFails, Drains,
                     TunnelStopped, TunnelRefuses, DaemonShutDown, ShutdownFails
  <2> QED BY <1>0, <1>5, <1>b, <2>1, <2>2, StopMoves
<1>6. ASSUME StartLooks \/ CleanupLooks PROVE WatchSound'
  <2>1. UNCHANGED <<watch, handle>> /\ pc["start"] \in {"look", "cleanup"}
    BY <1>6 DEF StartLooks, CleanupLooks
  <2> QED BY <1>0, <1>6, <1>b, <2>1, LooksMoves
<1>7. ASSUME StopLooks \/ DaemonRestored PROVE WatchSound'
  <2>1. watch' = watch /\ (handle => handle') /\ pc["stop"] \in {"settle", "restore"}
    <3>1. CASE StopLooks
      <4>1. handle' = handle \/ handle' = (handle \/ (~handle /\ tunnel # "stopped" /\ ((Healthy \/ MayBeLive(file)) \/ file = NoFile)))
        BY <3>1, Zenon DEF StopLooks
      <4> QED BY <3>1, <4>1 DEF StopLooks
    <3>2. CASE DaemonRestored
      BY <3>2 DEF DaemonRestored, DaemonSpawned
    <3> QED BY <1>7, <3>1, <3>2
  <2> QED BY <1>0, <1>7, <1>b, <2>1, LooksMoves
<1>8. ASSUME NEW r \in Recoveries, RecoveryVerified(r) \/ RecoveryFails(r) PROVE WatchSound'
  <2>1. pc[r] = "verify" /\ watch' = watch /\ handle' \in {handle, TRUE}
    BY <1>8 DEF RecoveryVerified, RecoveryFails
  <2> QED BY <1>0, <1>8, <1>b, <2>1, RecoveryMoves
<1>9. ASSUME NEW k \in {"stop", "force"}, StopBegins(k) PROVE WatchSound'
  BY <1>9, <1>c DEF StopBegins, StopMonitor
<1>10. ASSUME ForceStops PROVE WatchSound'
  BY <1>0, <1>10 DEF ForceStops, Goto, WatchSound
<1>11. ASSUME Leaves \/ LauncherCrashes PROVE WatchSound'
  BY <1>11, <1>c DEF Leaves, LauncherCrashes, LauncherEnds
<1>12. ASSUME StartCalled \/ StopCalled \/ QuitCalled PROVE WatchSound'
  <2>1. UNCHANGED <<watch, handle>>
    BY <1>12 DEF StartCalled, StopCalled, QuitCalled
  <2>2. \/ Goto("start", "look") /\ pc["start"] = "idle"
        \/ Goto("stop", "begin") /\ pc["stop"] = "idle"
        \/ Goto("force", "begin") /\ pc["force"] = "idle"
    BY <1>12 DEF StartCalled, StopCalled, QuitCalled, Idle
  <2> QED BY <1>0, <1>d, <2>1, <2>2
<1>13. ASSUME NEW n \in Names, TimerFires(n) PROVE WatchSound'
  <2>1. UNCHANGED <<watch, handle>>
    BY <1>13, SMT DEF TimerFires, DaemonSpawned
  <2>2. \/ UNCHANGED pc
        \/ \E r \in Recoveries, label \in {"spawned", "inspect", "daemon"} : pc[r] = "idle" /\ Goto(r, label)
    BY <1>13, SMT DEF TimerFires, DaemonSpawned, tasks
  <2>3. CASE UNCHANGED pc
    BY <2>1, <2>3 DEF WatchSound
  <2>4. CASE \E r \in Recoveries, label \in {"spawned", "inspect", "daemon"} : pc[r] = "idle" /\ Goto(r, label)
    BY <1>0, <1>d, <2>1, <2>4
  <2> QED BY <2>2, <2>3, <2>4
<1>14. ASSUME MonitorPolls PROVE WatchSound'
  <2>1. CASE tunnel = "ready"
    BY <1>14, <1>c, <2>1, SMT DEF MonitorPolls
  <2>2. CASE tunnel # "ready"
    <3>1. (UNCHANGED <<handle, watch>>) \/ watch' = FALSE
      BY <1>14, <2>2, Zenon DEF MonitorPolls
    <3>2. UNCHANGED pc
      BY <1>14 DEF MonitorPolls, tasks
    <3> QED BY <1>c, <3>1, <3>2 DEF WatchSound
  <2> QED BY <2>1, <2>2
<1>15. ASSUME \/ ChildExitSeen \/ DaemonBoots \/ DaemonCrashes \/ TurnBegins \/ TurnEnds
              \/ TunnelConnects \/ TunnelBreaks \/ LauncherStarts \/ UNCHANGED vars
       PROVE  WatchSound'
  <2>1. UNCHANGED <<watch, handle, pc>>
    BY <1>15 DEF ChildExitSeen, DaemonBoots, DaemonCrashes, TurnBegins, TurnEnds,
                 TunnelConnects, TunnelBreaks, LauncherStarts, vars, tasks
  <2> QED BY <2>1 DEF WatchSound
<1> QED BY <1>1, <1>2, <1>3, <1>4, <1>5, <1>6, <1>7, <1>8, <1>9, <1>10, <1>11, <1>12, <1>13, <1>14, <1>15, NextParts DEF TunnelWork

-----------------------------------------------------------------------------
(* What is left refusing turns is reported.                                *)

\* A step leaves no daemon of this launcher drained and unreported.
Told ==
  Idle(Tasks)' /\ child' = "live" /\ daemon' = "drained" /\ file' # NoFile
    => file'.status \in {"failed", "degraded"}

\* However a task ends or fails, but for a start that recovered stale
\* ownership, a drained daemon that is left over is told in the file.
LEMMA EndsTell ==
  ASSUME TypeOK, TasksTyped, CoreTyped'
  PROVE  /\ \A f : StopReports(f) => Told
         /\ \A u \in Undos : StopFails(u) => Told
         /\ \A k \in StartTasks : Fails(k) => Told
         /\ \A k \in StartTasks : Continue(k) /\ k # "start" => Told
         /\ \A k \in Stoppers : PartFails(k) /\ ~(k = "start" /\ Stale(k)) => Told
         /\ StopEnds => Told
         /\ \A k \in Stoppers : StaleEnds(k) => Told
         /\ \A k \in Stoppers : AfterShutdown(k) => Told
<1>0. /\ DOMAIN pc = Tasks /\ {"start", "stop", "force"} \subseteq Tasks /\ StartTasks \subseteq Tasks
      /\ StartTasks = {"start", "stop"} \cup Recoveries
      /\ \A r \in Recoveries : r \notin {"start", "stop", "force"}
      /\ undo \in Undos /\ job \in [Recoveries -> Names]
  BY TypeParts, LabelSets DEF Tasks, StartTasks
<1>a. ASSUME NEW k \in Tasks, NEW label, Goto(k, label), label # "idle" PROVE Told
  <2>1. pc'[k] = label
    BY <1>0, <1>a DEF Goto
  <2> QED BY <1>a, <2>1 DEF Told, Idle
<1>b. ASSUME file' = Snapshot("failed") PROVE Told
  <2>1. "failed" \in Statuses /\ child' \in {"none", "live", "dead"}
    BY DEF Statuses, CoreTyped
  <2>2. file'.status = "failed"
    BY <1>b, <2>1, SnapshotSays
  <2> QED BY <2>2 DEF Told
<1>1. ASSUME NEW f, StopReports(f) PROVE Told
  <2>1. CASE daemon' = "drained"
    <3>1. StateProven(f) = "failed"
      BY <2>1 DEF StateProven
    <3> QED BY <1>1, <1>b, <3>1 DEF StopReports
  <2>2. CASE daemon' # "drained"
    BY <2>2 DEF Told
  <2> QED BY <2>1, <2>2
<1>2. ASSUME NEW u \in Undos, StopFails(u) PROVE Told
  <2>1. StopReports(u.failed) \/ Goto("stop", "inspect") \/ Goto("stop", "restore")
    BY <1>2, SMT DEF StopFails
  <2> QED BY <1>0, <1>1, <1>a, <2>1
<1>3. ASSUME NEW k \in StartTasks, Fails(k) PROVE Told
  <2>1. CASE k = "start"
    <3>1. Goto(k, "cleanup")
      BY <1>3, <2>1, SMT DEF Fails
    <3> QED BY <1>0, <1>a, <3>1
  <2>2. CASE k = "stop" /\ (pc[k] = "spawned" \/ ~undo.drained)
    <3>1. StopReports(TRUE)
      BY <1>3, <2>2, Zenon DEF Fails
    <3> QED BY <1>1, <3>1
  <2>3. CASE k = "stop" /\ ~(pc[k] = "spawned" \/ ~undo.drained)
    <3>1. Goto(k, "restore")
      BY <1>3, <2>3, SMT DEF Fails
    <3> QED BY <1>0, <1>a, <3>1
  <2>4. CASE k \in Recoveries
    <3>1. k \notin {"start", "stop", "force"} /\ job[k] \in Names
      BY <1>0, <2>4
    <3>2. Schedule(job[k], Snapshot("failed"))
      BY <1>3, <3>1, Zenon DEF Fails
    <3>3. file' = Snapshot("failed")
      BY <3>1, <3>2, ScheduleSays
    <3> QED BY <1>b, <3>3
  <2> QED BY <1>0, <2>1, <2>2, <2>3, <2>4
<1>4. ASSUME NEW k \in StartTasks, Continue(k), k # "start" PROVE Told
  <2>1. CASE k = "stop"
    <3>1. StopReports(undo.failed) \/ Goto(k, "restore")
      BY <1>4, <2>1, SMT DEF Continue
    <3> QED BY <1>0, <1>1, <1>a, <3>1
  <2>2. CASE k \in Recoveries
    <3>1. Goto(k, "verify")
      BY <1>0, <1>4, <2>2, SMT DEF Continue
    <3> QED BY <1>0, <1>a, <3>1
  <2> QED BY <1>0, <1>4, <2>1, <2>2
<1>5. ASSUME NEW k \in Stoppers, PartFails(k), ~(k = "start" /\ Stale(k)) PROVE Told
  <2>1. CASE k = "stop"
    BY <1>0, <1>2, <1>5, <2>1, NothingTyped DEF PartFails
  <2>2. CASE k = "start"
    <3>1. CleanupEnds
      BY <1>5, <2>2 DEF PartFails
    <3> QED BY <1>b, <3>1 DEF CleanupEnds
  <2> QED BY <2>1, <2>2 DEF Stoppers
<1>6. ASSUME file' = NoFile PROVE Told
  BY <1>6 DEF Told
<1>7. ASSUME NEW k \in Stoppers, StaleEnds(k) PROVE Told
  BY <1>6, <1>7, StaleEndsMoves
<1>8. ASSUME NEW k \in Stoppers, AfterShutdown(k) PROVE Told
  <2>1. StopEnds \/ Goto(k, "staleUntunnel") \/ Goto(k, "untunnel")
    BY <1>8, Zenon DEF AfterShutdown
  <2> QED BY <1>0, <1>6, <1>a, <2>1, EndMoves DEF Stoppers
<1>9. StopEnds => Told
  BY <1>6, EndMoves
<1> QED BY <1>1, <1>2, <1>3, <1>4, <1>5, <1>7, <1>8, <1>9

\* A step that ends a task tells, but for a start that recovers stale
\* ownership; no other step changes what the last one told.
LEMMA ReportStep ==
  ASSUME TypeOK, TasksTyped, WatchSound, CoreTyped', FileSound', [Next]_vars, ~Stale("start"),
         Unreported'
  PROVE  Unreported
<1> USE DEF retry, tasks, world, monitor
<1>0. /\ DOMAIN pc = Tasks /\ {"start", "stop", "force"} \subseteq Tasks /\ StartTasks \subseteq Tasks
      /\ Recoveries \subseteq StartTasks /\ Recoveries \subseteq Tasks
      /\ Stoppers \subseteq StartTasks /\ "start" \in StartTasks /\ "stop" \in StartTasks
      /\ \A r \in Recoveries : r \notin {"start", "stop", "force"}
      /\ watch \in BOOLEAN /\ handle \in BOOLEAN /\ (file = NoFile \/ file \in OwnershipFiles)
  BY TypeParts, LabelSets DEF Tasks, StartTasks, Stoppers
<1>a. /\ Idle(Tasks)' /\ child' = "live" /\ daemon' = "drained"
      /\ file'.status \notin {"failed", "degraded"} /\ file' # NoFile
  <2>1. /\ Idle(Tasks)' /\ child' = "live" /\ daemon' = "drained"
        /\ file'.status \notin {"failed", "degraded"}
    BY DEF Unreported
  <2>2. Idle({"start", "force"})'
    BY <1>0, <2>1 DEF Idle
  <2> QED BY <2>1, <2>2 DEF FileSound
<1>b. ~Told
  BY <1>a DEF Told
<1>c. ASSUME UNCHANGED pc, child = "live", daemon = "drained", file'.status = file.status
      PROVE  Unreported
  BY <1>a, <1>c DEF Unreported, Idle
<1>d. ASSUME NEW k \in Tasks, NEW label, Goto(k, label), label # "idle" PROVE FALSE
  <2>1. pc'[k] = label
    BY <1>0, <1>d DEF Goto
  <2> QED BY <1>a, <1>d, <2>1 DEF Idle
<1>e. \A status \in {"failed", "degraded"} : file' # Snapshot(status)
  <2>1. {"failed", "degraded"} \subseteq Statuses /\ child' \in {"none", "live", "dead"}
    BY DEF Statuses, CoreTyped
  <2> QED BY <1>a, <2>1, SnapshotSays
<1>1. ASSUME NEW k \in StartTasks, TunnelWork(k) \/ DaemonWork(k) PROVE FALSE
  <2>1. ~Fails(k) /\ (k # "start" => ~Continue(k))
    BY <1>b, EndsTell
  <2>2. CASE k = "start" /\ (TunnelInspected(k) \/ TunnelReady(k))
    <3>1. (Continue(k) /\ pc[k] \in {"inspect", "connected"}) \/ Goto(k, "connect")
      BY <2>2, Zenon DEF TunnelInspected, TunnelReady
    <3>2. Goto(k, "daemon") \/ Goto(k, "connect")
      BY <2>2, <3>1, Zenon DEF Continue
    <3> QED BY <1>0, <1>d, <3>2
  <2>3. CASE k = "start" /\ DaemonReady(k)
    BY <1>a, <2>3 DEF DaemonReady
  <2>4. CASE k # "start" /\ (TunnelInspected(k) \/ TunnelReady(k) \/ DaemonReady(k))
    <3>1. Continue(k) \/ Goto(k, "connect")
      BY <2>4, Zenon DEF TunnelInspected, TunnelReady, DaemonReady
    <3> QED BY <1>0, <1>d, <2>1, <2>4, <3>1
  <2>5. CASE TunnelConnected(k)
    BY <1>0, <1>d, <2>5 DEF TunnelConnected
  <2>6. CASE TunnelFails(k) \/ DaemonFails(k)
    BY <2>1, <2>6, Zenon DEF TunnelFails, DaemonFails
  <2>7. CASE DaemonStarted(k)
    <3>1. Goto(k, "spawned") \/ Goto(k, "await")
      BY <2>7, Zenon DEF DaemonStarted, DaemonSpawned
    <3> QED BY <1>0, <1>d, <3>1
  <2> QED BY <1>1, <2>2, <2>3, <2>4, <2>5, <2>6, <2>7 DEF TunnelWork, DaemonWork
<1>2. ASSUME NEW k \in Stoppers, StopWork(k) PROVE FALSE
  <2>1. ~PartFails(k) /\ ~StaleEnds(k) /\ ~AfterShutdown(k) /\ ~CleanupEnds
    BY <1>b, <1>e, EndsTell DEF CleanupEnds
  <2>2. CASE StaleLooks(k)
    <3>1. Goto(k, IF Healthy THEN "staleDrain" ELSE "staleUntunnel")
      BY <2>1, <2>2, Zenon DEF StaleLooks
    <3> QED BY <1>0, <1>d, <3>1
  <2>3. CASE DrainAsked(k)
    <3>1. Goto(k, IF Stale(k) THEN "staleDraining" ELSE "draining")
      BY <2>3, Zenon DEF DrainAsked
    <3> QED BY <1>0, <1>d, <3>1
  <2>4. CASE DrainHolds(k)
    <3>1. Goto(k, IF Stale(k) THEN "staleShutdown" ELSE IF k = "stop" THEN "untunnel" ELSE "shutdown")
      BY <2>4, Zenon DEF DrainHolds
    <3> QED BY <1>0, <1>d, <3>1
  <2>5. CASE DrainFails(k) \/ TunnelRefuses(k) \/ ShutdownFails(k) \/ DaemonShutDown(k)
    BY <2>1, <2>5, Zenon DEF DrainFails, TunnelRefuses, ShutdownFails, DaemonShutDown
  <2>6. CASE TunnelStopped(k)
    <3>1. Goto(k, "shutdown")
      BY <2>1, <2>6, Zenon DEF TunnelStopped
    <3> QED BY <1>0, <1>d, <3>1
  <2> QED BY <1>2, <2>2, <2>3, <2>4, <2>5, <2>6 DEF StopWork
<1>3. ASSUME StartLooks \/ CleanupLooks PROVE FALSE
  <2>1. Goto("start", "stale") \/ Goto("start", "inspect") \/ Goto("start", "drain") \/ Goto("start", "untunnel")
    BY <1>3, Zenon DEF StartLooks, CleanupLooks
  <2> QED BY <1>0, <1>d, <2>1
<1>4. ASSUME StopLooks \/ DaemonRestored PROVE FALSE
  <2>1. ~StopEnds /\ ~StopFails(NothingToUndo) /\ \A f : ~StopReports(f)
    BY <1>b, EndsTell, NothingTyped
  <2>2. Goto("stop", "stale") \/ Goto("stop", "drain") \/ Goto("stop", "untunnel") \/ Goto("stop", "spawned")
    BY <1>4, <2>1, Zenon DEF StopLooks, DaemonRestored, DaemonSpawned
  <2> QED BY <1>0, <1>d, <2>2
<1>5. ASSUME NEW r \in Recoveries, RecoveryVerified(r) \/ RecoveryFails(r) PROVE FALSE
  <2>1. ~Fails(r)
    BY <1>0, <1>b, EndsTell
  <2>2. daemon' = "open"
    BY <1>5, <2>1 DEF RecoveryVerified, RecoveryFails
  <2> QED BY <1>a, <2>2
<1>6. ASSUME \/ \E k \in {"stop", "force"} : StopBegins(k)
             \/ ForceStops \/ StartCalled \/ StopCalled \/ QuitCalled
      PROVE  FALSE
  <2>1. \E k \in {"start", "stop", "force"}, label \in {"settle", "leave", "look", "begin"} : Goto(k, label)
    BY <1>6, SMT DEF StopBegins, ForceStops, StartCalled, StopCalled, QuitCalled
  <2> QED BY <1>0, <1>d, <2>1
<1>7. ASSUME Leaves \/ LauncherCrashes \/ ChildExitSeen \/ DaemonCrashes \/ DaemonBoots PROVE FALSE
  BY <1>a, <1>7 DEF Leaves, LauncherCrashes, LauncherEnds, ChildExitSeen, DaemonCrashes, Orphaned, DaemonBoots
<1>8. ASSUME MonitorPolls PROVE Unreported
  <2>1. UNCHANGED <<pc, daemon, child>> /\ Idle(Tasks)
    BY <1>8, <1>a DEF MonitorPolls, Idle
  <2>2. watch => handle
    BY <1>0, <2>1 DEF WatchSound, Idle
  <2>3. file' = file \/ file' = Snapshot("degraded") \/ file' = Snapshot("failed")
    <3>1. CASE tunnel = "ready"
      BY <1>8, <2>2, <3>1, Zenon DEF MonitorPolls
    <3>2. CASE tunnel # "ready"
      <4>1. file' = file \/ Schedule("tunnel", Snapshot("degraded"))
        BY <1>8, <3>2, Zenon DEF MonitorPolls
      <4> QED BY <4>1, ScheduleSays
    <3> QED BY <3>1, <3>2
  <2> QED BY <1>a, <1>c, <1>e, <2>1, <2>3
<1>9. ASSUME NEW n \in Names, TimerFires(n) PROVE Unreported
  <2>1. CASE UNCHANGED <<world, file, child, tasks>>
    BY <1>a, <1>c, <2>1
  <2>2. CASE \E r \in Recoveries, label \in {"spawned", "inspect", "daemon"} : Goto(r, label)
    BY <1>0, <1>d, <2>2
  <2> QED BY <1>9, <2>1, <2>2, SMT DEF TimerFires, DaemonSpawned
<1>10. ASSUME TurnBegins \/ TurnEnds \/ TunnelConnects \/ LauncherStarts \/ UNCHANGED vars PROVE Unreported
  <2>1. UNCHANGED <<pc, daemon, child, file>>
    BY <1>10 DEF TurnBegins, TurnEnds, TunnelConnects, LauncherStarts, vars
  <2> QED BY <1>a, <1>c, <2>1
<1>11. ASSUME TunnelBreaks PROVE Unreported
  <2>1. UNCHANGED <<pc, daemon, child>> /\ Unwritten
    BY <1>11 DEF TunnelBreaks
  <2>2. file'.status = file.status
    BY <1>0, <2>1, UnwrittenSays
  <2> QED BY <1>a, <1>c, <2>1, <2>2
<1> QED BY <1>1, <1>2, <1>3, <1>4, <1>5, <1>6, <1>7, <1>8, <1>9, <1>10, <1>11, NextParts

-----------------------------------------------------------------------------
(* The theorems.                                                           *)

\* A launcher that just came up is sound.
LEMMA InitSound == Init => SupervisorSound
<1> SUFFICES ASSUME Init PROVE SupervisorSound
  OBVIOUS
<1>1. TypeOK
  <2>1. 0 \in 0..(MaxRestarts + 1) /\ 0 \in 0..(Threshold - 1) /\ 0 \in 0..MaxFaults
    BY SupervisorAssumption
  <2> QED BY <2>1, TypeParts, NothingTyped
          DEF Init, Healthy, NoTimers, NoTries, NoJobs, AllIdle
<1>2. \A k \in Tasks : pc[k] = "idle"
  BY DEF Init, AllIdle
<1>3. TasksTyped
  BY <1>2, LabelSets DEF TasksTyped, Tasks
<1>4. {"start", "stop", "force"} \subseteq Tasks /\ child = "none" /\ watch = FALSE
  BY DEF Tasks, Init
<1> QED BY <1>1, <1>2, <1>3, <1>4
        DEF SupervisorSound, StopAlone, OneStop, StopKeepsItsDrain, StaleHoldsNone, Stale, FileSound, WatchSound

\* The invariant is inductive, and no step of it leaves a drain unreported
\* that a start's recovery of stale ownership did not leave.
LEMMA NextSound ==
  ASSUME SupervisorSound, [Next]_vars
  PROVE  SupervisorSound' /\ (Unreported' => Unreported \/ Stale("start"))
<1>1. TypeOK /\ TasksTyped /\ StopAlone /\ OneStop /\ StaleHoldsNone /\ FileSound /\ WatchSound /\ DrainSound
  BY DEF SupervisorSound, DrainSound
<1>2. TypeOK' /\ TasksTyped' /\ CoreTyped'
  BY <1>1, TypeStep, CoreParts, CoreStep
<1>3. StopAlone' /\ OneStop'
  BY <1>1, AloneStep
<1>4. DrainSound'
  BY <1>1, DrainStep
<1>5. FileSound'
  BY <1>1, <1>2, FileStepSound
<1>6. WatchSound'
  BY <1>1, WatchStep
<1>7. Unreported' => Unreported \/ Stale("start")
  BY <1>1, <1>2, <1>5, ReportStep
<1> QED BY <1>2, <1>3, <1>4, <1>5, <1>6, <1>7 DEF SupervisorSound, DrainSound

\* It contains what the runs check.
LEMMA SoundHolds == SupervisorSound => RuntimeHolds
<1> SUFFICES ASSUME SupervisorSound PROVE RuntimeHolds
  OBVIOUS
<1>1. StopRunsAlone
  BY DEF SupervisorSound, StopAlone, StopRunsAlone, Idle
<1>2. OwnedIsRecorded
  BY DEF SupervisorSound, FileSound, OwnedIsRecorded
<1> QED BY <1>1, <1>2 DEF SupervisorSound, RuntimeHolds

(***************************************************************************)
(* For every number of recoveries at once, of faults, of restarts and of   *)
(* observations to the monitor's threshold: a graceful stop works alone    *)
(* and keeps its drain, and the daemon a launcher owns is in its file      *)
(* (performStopForSetup, startDaemon, writeState).                         *)
(***************************************************************************)
THEOREM StopsWorkAlone == Spec => []RuntimeHolds
<1>1. Init => SupervisorSound
  BY InitSound
<1>2. SupervisorSound /\ [Next]_vars => SupervisorSound'
  BY NextSound
<1>3. SupervisorSound => RuntimeHolds
  BY SoundHolds
<1> QED BY <1>1, <1>2, <1>3, PTL DEF Spec

(***************************************************************************)
(* For the same values: no task but a start that recovers stale ownership  *)
(* leaves a daemon of this launcher refusing turns behind a file that says *)
(* neither failed nor degraded, and no later step makes it say so.         *)
(***************************************************************************)
THEOREM DrainsAreReported == Spec => DrainIsReported
<1>1. Init => SupervisorSound
  BY InitSound
<1>2. SupervisorSound /\ [Next]_vars => SupervisorSound'
  BY NextSound
<1>3. SupervisorSound /\ [Next]_vars => [Unreported' => Unreported \/ Stale("start")]_vars
  BY NextSound
<1> QED BY <1>1, <1>2, <1>3, PTL DEF Spec, DrainIsReported
-------------------------------------------------------------------------------
(* The updates of the launcher *)

\* A worker whose quit is under way has not begun, so that a refused quit kills one that only waits.
KilledWaits ==
    launcher.up /\ launcher.quit = "update" =>
        launcher.install \in Workers /\ worker[launcher.install].at \in {"none", "waiting"}

\* What a worker holds in its hands is a release, and so is what a start finds, if it finds anything.
HandsHoldReleases ==
    /\ target # Tampered
    /\ \A w \in Workers :
        /\ worker[w].at # "none" => worker[w].version \in Versions
        /\ platform = "darwin" /\ worker[w].at \in {"copied", "swapped"} => worker[w].next \in Versions
        /\ worker[w].at = "swapped" => platform = "darwin" /\ worker[w].swap \in Versions

\* Linux: what a worker is about to name is there, and what it is about to remove is not named.
ImagesAreKept ==
    platform = "linux" /\ ~torn => \A w \in Workers :
        /\ worker[w].at \in {"copied", "installed"} => worker[w].version \in images
        /\ worker[w].at = "installed" /\ worker[w].from # worker[w].version => target # worker[w].from

UpdateInv == UpdateHolds /\ KilledWaits /\ HandsHoldReleases /\ ImagesAreKept
-----------------------------------------------------------------------------
\* A machine with the first release, on which nothing runs, satisfies the invariant.
LEMMA UpdateInit == ASSUME MaxVersion \in Nat \ {0} PROVE UpdaterInit => UpdateInv
BY DEF UpdaterInit, UpdateInv, UpdateHolds, UpdateTypeOK, AppIsWhole, WaitingIsWanted, KilledWaits,
       HandsHoldReleases, ImagesAreKept, Versions, Bundles, Absent, Tampered, Down, NoWorker

-----------------------------------------------------------------------------
\* The type invariant in terms of the launchers and the jobs there can be.
Launchers ==
    {Down} \cup
    [up : {TRUE}, version : Bundles, checked : BOOLEAN, candidate : Versions \cup {Absent},
     status : {"idle", "checking", "up-to-date", "error", "available", "downloading", "installing"},
     quit : {"no", "user", "update"}, install : Workers \cup {Absent}]
Jobs ==
    [at : {"none", "waiting", "ready", "copied", "swapped", "installed"},
     version : Bundles, from : Bundles, next : Bundles, swap : Bundles]
Typed ==
    /\ platform \in {"darwin", "win32", "linux"} /\ released \in Versions
    /\ target \in Bundles /\ images \subseteq Bundles
    /\ launcher \in Launchers /\ worker \in [Workers -> Jobs]

\* Both forms of the type invariant say the same, before a step and after it.
LEMMA TypeIs == (UpdateTypeOK <=> Typed) /\ (UpdateTypeOK' <=> Typed')
BY DEF UpdateTypeOK, Typed, Launchers, Jobs

\* What a running launcher keeps, and that changing its status or quit changes nothing else.
LEMMA LauncherFields ==
    ASSUME launcher \in Launchers, launcher.up
    PROVE  /\ launcher.version \in Bundles /\ launcher.candidate \in Versions \cup {Absent}
           /\ launcher.quit \in {"no", "user", "update"} /\ launcher.install \in Workers \cup {Absent}
           /\ \A s, q : /\ [launcher EXCEPT !.status = s].up /\ [launcher EXCEPT !.quit = q].up
                       /\ [launcher EXCEPT !.quit = q].quit = q
                       /\ [launcher EXCEPT !.quit = q].status = launcher.status
<1>1. launcher # Down BY DEF Down
<1> QED BY <1>1 DEF Launchers

\* A start gives a launcher, and a worker that failed leaves a job that is none.
LEMMA LaunchTyped ==
    ASSUME NEW t \in Bundles, NEW kept, launcher \in Launchers, Launch(t, kept)
    PROVE  launcher' \in Launchers
BY DEF Launch, Started, Launchers, Absent, Versions, Bundles

\* relaunchExisting keeps the types, whatever it leaves as the application.
LEMMA FailsTyped ==
    ASSUME Typed, NEW w \in Workers, NEW t \in Bundles, StepFails(w, t)
    PROVE  Typed'
<1>1. NoWorker \in Jobs BY DEF NoWorker, Jobs, Bundles
<1>2. launcher' \in Launchers BY LaunchTyped DEF StepFails, Typed
<1> QED BY <1>1, <1>2 DEF StepFails, WorkerEnds, Becomes, Typed

\* Every step of the controller, of a quit and of a worker keeps the types.
LEMMA UpdaterTypeStep ==
    ASSUME MaxVersion \in Nat \ {0}, Typed, UpdaterNext PROVE Typed'
<1> USE DEF AppFiles, Typed
<1>1. CASE UserStarts BY <1>1 DEF UserStarts, Launch, Startable, Started, Launchers, Down, Jobs
<1>2. CASE Publish BY <1>2 DEF Publish, Versions
<1>3. CASE CheckStarts BY <1>3 DEF CheckStarts, UpdateStatus, Controller, Launchers, Down, Jobs
<1>4. CASE CheckEnds BY <1>4 DEF CheckEnds, Newer, Offers, UpdateStatus, Controller, Launchers, Down, Jobs
<1>5. CASE CheckFails BY <1>5 DEF CheckFails, UpdateStatus, Controller, Launchers, Down, Jobs
<1>6. CASE BeginInstall BY <1>6 DEF BeginInstall, UpdateStatus, Controller, Launchers, Down, Jobs
<1>7. CASE PrepareFails BY <1>7 DEF PrepareFails, Downloads, UpdateStatus, Controller, Launchers, Down, Jobs
<1>8. CASE UserQuits BY <1>8 DEF UserQuits, Controller, Launchers, Down, Jobs
<1>9. CASE Exits BY <1>9 DEF Exits, LauncherLeaves, Launchers, Down, Jobs
<1>10. CASE AppDies BY <1>10 DEF AppDies, LauncherLeaves, Launchers, Down, Jobs
<1>11. CASE QuitFails
  <2>1. launcher' \in Launchers BY <1>11 DEF QuitFails, Cancelled, UpdateStatus, Launchers, Down
  <2>2. worker' \in [Workers -> Jobs] BY <1>11 DEF QuitFails, Killed, NoWorker, Jobs, Bundles
  <2> QED BY <1>11, <2>1, <2>2 DEF QuitFails
<1>12. ASSUME NEW w \in Workers, NEW asset \in Versions \cup {Tampered}, Prepared(w, asset)
       PROVE  Typed'
  <2>1. launcher.up /\ launcher \in Launchers BY <1>12 DEF Prepared
  <2>2. launcher' \in Launchers BY <1>12, <2>1 DEF Prepared, Cancelled, UpdateStatus, Launchers, Down
  <2>3. Job(asset) \in Jobs
    <3>1. launcher.version \in Bundles BY <2>1, LauncherFields
    <3>2. NoWorker \in Jobs BY DEF NoWorker, Jobs, Bundles
    <3>3. asset \in Bundles BY <1>12 DEF Bundles
    <3> QED BY <3>1, <3>2, <3>3 DEF Job, Jobs
  <2>4. NoWorker \in Jobs BY DEF NoWorker, Jobs, Bundles
  <2>5. worker' \in [Workers -> Jobs] BY <1>12, <2>3, <2>4 DEF Prepared, Spawned, Killed
  <2> QED BY <1>12, <2>2, <2>5 DEF Prepared
<1>13. ASSUME NEW w \in Workers PROVE NoWorker \in Jobs /\ worker[w] \in Jobs
  BY DEF NoWorker, Jobs, Bundles
<1>14. ASSUME NEW w \in Workers, Copied(w) PROVE Typed'
  <2>1. [worker[w] EXCEPT !.at = "copied", !.next = worker[w].version] \in Jobs BY <1>13 DEF Jobs
  <2> QED BY <1>14, <2>1 DEF Copied, Becomes
<1>15. ASSUME NEW w \in Workers, SwapsOut(w) PROVE Typed'
  <2>1. [worker[w] EXCEPT !.at = "swapped", !.swap = target] \in Jobs BY <1>13 DEF Jobs
  <2>2. CASE target = Absent BY <1>15, <2>2, FailsTyped DEF SwapsOut
  <2>3. CASE target # Absent BY <1>15, <2>1, <2>3 DEF SwapsOut, Becomes, Bundles
  <2> QED BY <2>2, <2>3
<1>16. ASSUME NEW w \in Workers, SwapsIn(w) \/ Installs(w) PROVE Typed'
  <2>1. /\ [worker[w] EXCEPT !.at = "installed"] \in Jobs
        /\ worker[w].next \in Bundles /\ worker[w].version \in Bundles
    BY <1>13 DEF Jobs
  <2> QED BY <1>16, <2>1 DEF SwapsIn, Installs, Becomes
<1>17. ASSUME NEW w \in Workers, InstallsImage(w) \/ NamesImage(w) PROVE Typed'
  <2>1. /\ [worker[w] EXCEPT !.at = "copied"] \in Jobs /\ [worker[w] EXCEPT !.at = "installed"] \in Jobs
        /\ worker[w].version \in Bundles
    BY <1>13 DEF Jobs
  <2> QED BY <1>17, <2>1 DEF InstallsImage, NamesImage, Becomes
<1>18. ASSUME NEW w \in Workers, Finishes(w) PROVE Typed'
  <2>1. launcher' \in Launchers BY <1>18, LaunchTyped DEF Finishes
  <2> QED BY <1>13, <1>18, <2>1 DEF Finishes, WorkerEnds, Becomes
<1>19. ASSUME NEW w \in Workers, WaitExpires(w) \/ WorkerDies(w) PROVE Typed'
  BY <1>13, <1>19 DEF WaitExpires, WorkerDies, WorkerEnds, Becomes
<1>20. ASSUME NEW w \in Workers, CopyFails(w) \/ SwapFails(w) \/ InstallerFails(w) \/ ImageFails(w)
       PROVE  Typed'
  <2>1. Absent \in Bundles /\ target \in Bundles /\ worker[w].swap \in Bundles
    BY <1>13 DEF Jobs, Bundles
  <2> QED BY <1>20, <2>1, FailsTyped DEF CopyFails, SwapFails, InstallerFails, ImageFails, Restored
<1> QED BY <1>1, <1>2, <1>3, <1>4, <1>5, <1>6, <1>7, <1>8, <1>9, <1>10, <1>11, <1>12, <1>14, <1>15,
           <1>16, <1>17, <1>18, <1>19, <1>20 DEF UpdaterNext, WorkerStep

-----------------------------------------------------------------------------
\* The conjuncts of the invariant that are not about types.
Kept == AppIsWhole /\ WaitingIsWanted /\ KilledWaits /\ HandsHoldReleases /\ ImagesAreKept

\* Every step keeps them: a quit that fails kills the worker, and a worker's way back restores.
LEMMA KeptStep ==
    ASSUME MaxVersion \in Nat \ {0}, Typed, Typed', Kept, UpdaterNext PROVE Kept'
<1> USE DEF Kept, Typed, Launchers, Jobs, AppIsWhole, WaitingIsWanted, KilledWaits, HandsHoldReleases,
            ImagesAreKept, AppFiles, Versions, Bundles, Absent, Tampered, Down, NoWorker
<1>1. CASE UserStarts BY <1>1 DEF UserStarts, Launch, Startable, Started
<1>2. CASE Publish BY <1>2 DEF Publish
<1>3. CASE CheckStarts BY <1>3 DEF CheckStarts, UpdateStatus, Controller
<1>4. CASE CheckEnds
  <2>1. /\ UNCHANGED <<platform, target, images, worker, torn>>
        /\ launcher.status = "checking" /\ launcher'.status # "installing"
        /\ launcher.up /\ launcher'.up /\ launcher'.quit = launcher.quit
        /\ launcher'.install = launcher.install
    BY <1>4 DEF CheckEnds, Offers, UpdateStatus, Controller
  <2> QED BY <2>1
<1>5. CASE CheckFails BY <1>5 DEF CheckFails, UpdateStatus, Controller
<1>6. CASE BeginInstall BY <1>6 DEF BeginInstall, UpdateStatus, Controller
<1>7. CASE PrepareFails BY <1>7 DEF PrepareFails, Downloads, UpdateStatus, Controller
<1>8. CASE UserQuits BY <1>8 DEF UserQuits, Controller
<1>9. CASE QuitFails
  <2>1. CASE launcher.quit = "user"
    <3>1. /\ UNCHANGED <<platform, target, images, torn, worker>> /\ launcher.up
          /\ launcher' = [launcher EXCEPT !.quit = "no"]
      BY <1>9, <2>1 DEF QuitFails
    <3>2. launcher'.up /\ launcher'.quit = "no" /\ launcher'.status = launcher.status
      BY <3>1, LauncherFields DEF Typed
    <3> QED BY <2>1, <3>1, <3>2
  <2>2. CASE launcher.quit # "user"
    <3>1. /\ UNCHANGED <<platform, target, images, torn>>
          /\ launcher.up /\ launcher.quit = "update"
          /\ launcher' = [launcher EXCEPT !.status = "available", !.quit = "no", !.install = Absent]
          /\ worker' = [worker EXCEPT ![launcher.install] = NoWorker]
      BY <1>9, <2>2, LauncherFields DEF QuitFails, Cancelled, UpdateStatus, Killed
    <3>2. launcher'.up /\ launcher'.status = "available" /\ launcher'.quit = "no" BY <3>1
    <3>3. launcher.install \in Workers BY <3>1
    <3>4. \A w \in Workers : (worker'[w] = worker[w] /\ w # launcher.install) \/ worker'[w].at = "none"
      BY <3>1, <3>3
    <3>5. \A w \in Workers : worker'[w].at # "waiting" BY <3>1, <3>4
    <3>6. worker[launcher.install].at \in {"none", "waiting"} BY <3>1
    <3>7. AppIsWhole' BY <3>1, <3>4, <3>6
    <3> QED BY <3>1, <3>2, <3>4, <3>5, <3>7
  <2> QED BY <2>1, <2>2
<1>10. CASE Exits BY <1>10 DEF Exits, LauncherLeaves
<1>11. CASE AppDies BY <1>11 DEF AppDies, LauncherLeaves
<1>12. ASSUME NEW w \in Workers, NEW asset \in Versions \cup {Tampered}, Prepared(w, asset)
       PROVE  Kept'
  <2>1. /\ UNCHANGED <<platform, target, images, torn>>
        /\ launcher.up /\ launcher.status = "downloading" /\ worker[w].at = "none"
        /\ asset = launcher.candidate
    BY <1>12 DEF Prepared, Verified
  <2>2. launcher.candidate \in Versions \cup {Absent} /\ launcher.quit # "update"
    BY <2>1, LauncherFields
  <2>3. \A v \in Workers : worker[v].at # "waiting" BY <2>2
  <2>4. /\ launcher'.up
        /\ \A v \in Workers : v # w => worker'[v] = worker[v]
        /\ worker'[w].at \in {"none", "waiting"}
        /\ \/ /\ launcher'.status = "installing" /\ launcher'.quit = "update" /\ launcher'.install = w
              /\ worker'[w].version = asset
           \/ /\ launcher'.status = "available" /\ launcher'.quit # "update"
              /\ worker'[w].at = "none"
    <3>1. CASE /\ worker' = Spawned(w, asset)
               /\ launcher' = [UpdateStatus("installing") EXCEPT !.quit = "update", !.install = w]
      BY <2>1, <3>1 DEF Spawned, Job, UpdateStatus
    <3>2. CASE /\ worker' = Killed(Spawned(w, asset), w)
               /\ launcher' = [Cancelled EXCEPT !.quit = launcher.quit]
      BY <2>1, <2>2, <3>2 DEF Killed, Spawned, Cancelled, UpdateStatus
    <3> QED BY <1>12, <3>1, <3>2 DEF Prepared
  <2>5. AppIsWhole' BY <2>1, <2>4
  <2>6. WaitingIsWanted' BY <2>3, <2>4
  <2>7. KilledWaits' BY <2>4
  <2>8. HandsHoldReleases' BY <2>1, <2>2, <2>4
  <2>9. ImagesAreKept' BY <2>1, <2>4
  <2> QED BY <2>5, <2>6, <2>7, <2>8, <2>9 DEF Kept
<1>13. ASSUME NEW w \in Workers, Copied(w) PROVE Kept'
  <2>1. AppIsWhole' BY <1>13 DEF Copied, WorkerAt, Becomes
  <2>2. WaitingIsWanted' BY <1>13 DEF Copied, WorkerAt, Becomes
  <2>3. KilledWaits' BY <1>13 DEF Copied, WorkerAt, Becomes
  <2>4. HandsHoldReleases' BY <1>13 DEF Copied, WorkerAt, Becomes
  <2>5. ImagesAreKept' BY <1>13 DEF Copied, WorkerAt, Becomes
  <2> QED BY <2>1, <2>2, <2>3, <2>4, <2>5 DEF Kept
<1>14. ASSUME NEW w \in Workers, SwapsOut(w) PROVE Kept'
  <2>1. CASE target = Absent
    <3>1. /\ worker[w].at = "copied" /\ worker' = [worker EXCEPT ![w] = NoWorker]
          /\ UNCHANGED <<platform, target, images, launcher, torn>>
      BY <1>14, <2>1 DEF SwapsOut, WorkerAt, StepFails, WorkerEnds, Becomes, Launch, Startable
    <3>2. worker'[w].at = "none" /\ \A v \in Workers : v # w => worker'[v] = worker[v] BY <3>1
    <3>3. AppIsWhole' BY <3>1, <3>2
    <3> QED BY <3>1, <3>2, <3>3
  <2>2. CASE target # Absent
    <3>1. /\ worker[w].at = "copied" /\ platform = "darwin" /\ target' = Absent
          /\ worker' = [worker EXCEPT ![w] = [worker[w] EXCEPT !.at = "swapped", !.swap = target]]
          /\ UNCHANGED <<platform, images, launcher, torn>>
      BY <1>14, <2>2 DEF SwapsOut, WorkerAt, Becomes
    <3>2. /\ worker'[w].at = "swapped" /\ worker'[w].swap = target
          /\ worker'[w].version = worker[w].version /\ worker'[w].next = worker[w].next
          /\ \A v \in Workers : v # w => worker'[v] = worker[v]
      BY <3>1
    <3>3. target \in Versions BY <2>2
    <3>4. AppIsWhole' BY <3>2
    <3>5. WaitingIsWanted' /\ KilledWaits' BY <3>1, <3>2
    <3>6. HandsHoldReleases' BY <3>1, <3>2, <3>3
    <3>7. ImagesAreKept' BY <3>1
    <3> QED BY <3>4, <3>5, <3>6, <3>7 DEF Kept
  <2> QED BY <2>1, <2>2
<1>15. ASSUME NEW w \in Workers, SwapsIn(w) PROVE Kept'
  <2>1. AppIsWhole' BY <1>15 DEF SwapsIn, WorkerAt, Becomes
  <2>2. WaitingIsWanted' BY <1>15 DEF SwapsIn, WorkerAt, Becomes
  <2>3. KilledWaits' BY <1>15 DEF SwapsIn, WorkerAt, Becomes
  <2>4. HandsHoldReleases' BY <1>15 DEF SwapsIn, WorkerAt, Becomes
  <2>5. ImagesAreKept' BY <1>15 DEF SwapsIn, WorkerAt, Becomes
  <2> QED BY <2>1, <2>2, <2>3, <2>4, <2>5 DEF Kept
<1>16. ASSUME NEW w \in Workers, Installs(w) PROVE Kept'
  <2>1. AppIsWhole' BY <1>16 DEF Installs, WorkerAt, Becomes
  <2>2. WaitingIsWanted' BY <1>16 DEF Installs, WorkerAt, Becomes
  <2>3. KilledWaits' BY <1>16 DEF Installs, WorkerAt, Becomes
  <2>4. HandsHoldReleases' BY <1>16 DEF Installs, WorkerAt, Becomes
  <2>5. ImagesAreKept' BY <1>16 DEF Installs, WorkerAt, Becomes
  <2> QED BY <2>1, <2>2, <2>3, <2>4, <2>5 DEF Kept
<1>17. ASSUME NEW w \in Workers, InstallsImage(w) PROVE Kept'
  <2>1. AppIsWhole' BY <1>17 DEF InstallsImage, WorkerAt, Becomes
  <2>2. WaitingIsWanted' BY <1>17 DEF InstallsImage, WorkerAt, Becomes
  <2>3. KilledWaits' BY <1>17 DEF InstallsImage, WorkerAt, Becomes
  <2>4. HandsHoldReleases' BY <1>17 DEF InstallsImage, WorkerAt, Becomes
  <2>5. ImagesAreKept' BY <1>17 DEF InstallsImage, WorkerAt, Becomes
  <2> QED BY <2>1, <2>2, <2>3, <2>4, <2>5 DEF Kept
<1>18. ASSUME NEW w \in Workers, NamesImage(w) PROVE Kept'
  <2>1. AppIsWhole' BY <1>18 DEF NamesImage, WorkerAt, Becomes, Clash
  <2>2. WaitingIsWanted' BY <1>18 DEF NamesImage, WorkerAt, Becomes, Clash
  <2>3. KilledWaits' BY <1>18 DEF NamesImage, WorkerAt, Becomes, Clash
  <2>4. HandsHoldReleases' BY <1>18 DEF NamesImage, WorkerAt, Becomes, Clash
  <2>5. ImagesAreKept'
    <3>1. /\ platform = "linux" /\ worker[w].at = "copied" /\ target' = worker[w].version
          /\ worker' = [worker EXCEPT ![w] = [worker[w] EXCEPT !.at = "installed"]]
          /\ torn' = (torn \/ Clash(w)) /\ UNCHANGED images
      BY <1>18 DEF NamesImage, WorkerAt, Becomes
    <3>2. CASE torn' BY <3>2
    <3>3. CASE ~torn'
      <4>1. ~torn /\ ~Clash(w) BY <3>1, <3>3
      <4>2. /\ worker'[w].version = worker[w].version /\ worker'[w].from = worker[w].from
            /\ \A v \in Workers : v # w => worker'[v] = worker[v]
        BY <3>1
      <4>3. \A v \in Workers : worker[v].at \in {"copied", "installed"} => worker[w].version # worker[v].from
        BY <3>1, <4>1 DEF Clash
      <4> QED BY <3>1, <4>1, <4>2, <4>3
    <3> QED BY <3>2, <3>3
  <2> QED BY <2>1, <2>2, <2>3, <2>4, <2>5 DEF Kept
<1>19. ASSUME NEW w \in Workers, Finishes(w) PROVE Kept'
  <2>1. AppIsWhole'
    <3>1. /\ worker[w].at = "installed" /\ worker' = [worker EXCEPT ![w] = NoWorker]
          /\ images' = IF platform = "linux" /\ worker[w].from # worker[w].version
                       THEN images \ {worker[w].from} ELSE images
          /\ torn' = (torn \/ Clash(w)) /\ UNCHANGED <<platform, target>>
      BY <1>19 DEF Finishes, WorkerEnds, Becomes
    <3>2. \A v \in Workers : worker[v].at = "swapped" => worker'[v].at = "swapped" BY <3>1
    <3>3. CASE torn \/ \E v \in Workers : worker[v].at = "swapped" BY <3>1, <3>2, <3>3
    <3>4. CASE ~torn /\ ~\E v \in Workers : worker[v].at = "swapped"
      <4>1. target \in Versions /\ (platform = "linux" => target \in images) BY <3>4
      <4>2. platform = "linux" => target \in images' BY <3>1, <3>4, <4>1
      <4> QED BY <3>1, <4>1, <4>2
    <3> QED BY <3>3, <3>4
  <2>2. WaitingIsWanted' BY <1>19 DEF Finishes, WorkerEnds, Becomes, Launch, Started, Startable, Clash
  <2>3. KilledWaits' BY <1>19 DEF Finishes, WorkerEnds, Becomes, Launch, Started, Startable, Clash
  <2>4. HandsHoldReleases' BY <1>19 DEF Finishes, WorkerEnds, Becomes, Launch, Started, Startable, Clash
  <2>5. ImagesAreKept' BY <1>19 DEF Finishes, WorkerEnds, Becomes, Launch, Started, Startable, Clash
  <2> QED BY <2>1, <2>2, <2>3, <2>4, <2>5 DEF Kept
<1>20. ASSUME NEW w \in Workers, WaitExpires(w) PROVE Kept'
  <2>1. AppIsWhole' BY <1>20 DEF WaitExpires, WorkerEnds, Becomes
  <2>2. WaitingIsWanted' BY <1>20 DEF WaitExpires, WorkerEnds, Becomes
  <2>3. KilledWaits' BY <1>20 DEF WaitExpires, WorkerEnds, Becomes
  <2>4. HandsHoldReleases' BY <1>20 DEF WaitExpires, WorkerEnds, Becomes
  <2>5. ImagesAreKept' BY <1>20 DEF WaitExpires, WorkerEnds, Becomes
  <2> QED BY <2>1, <2>2, <2>3, <2>4, <2>5 DEF Kept
<1>21. ASSUME NEW w \in Workers, WorkerDies(w) PROVE Kept'
  <2>1. AppIsWhole'
    <3>1. /\ worker' = [worker EXCEPT ![w] = NoWorker] /\ torn' = (torn \/ worker[w].at = "swapped")
          /\ UNCHANGED <<platform, target, images>>
      BY <1>21 DEF WorkerDies, WorkerEnds, Becomes
    <3>2. \A v \in Workers : v # w => worker'[v] = worker[v] BY <3>1
    <3>3. CASE torn \/ worker[w].at = "swapped" BY <3>1, <3>3
    <3>4. CASE \E v \in Workers : v # w /\ worker[v].at = "swapped" BY <3>2, <3>4
    <3>5. CASE target \in Versions /\ (platform = "linux" => target \in images) BY <3>1, <3>5
    <3> QED BY <3>3, <3>4, <3>5
  <2>2. WaitingIsWanted' BY <1>21 DEF WorkerDies, WorkerEnds, Becomes
  <2>3. KilledWaits' BY <1>21 DEF WorkerDies, WorkerEnds, Becomes
  <2>4. HandsHoldReleases' BY <1>21 DEF WorkerDies, WorkerEnds, Becomes
  <2>5. ImagesAreKept' BY <1>21 DEF WorkerDies, WorkerEnds, Becomes
  <2> QED BY <2>1, <2>2, <2>3, <2>4, <2>5 DEF Kept
<1>22. ASSUME NEW w \in Workers, CopyFails(w) PROVE Kept'
  <2>1. AppIsWhole' BY <1>22 DEF CopyFails, WorkerAt, StepFails, WorkerEnds, Becomes, Launch, Started, Startable
  <2>2. WaitingIsWanted' BY <1>22 DEF CopyFails, WorkerAt, StepFails, WorkerEnds, Becomes, Launch, Started, Startable
  <2>3. KilledWaits' BY <1>22 DEF CopyFails, WorkerAt, StepFails, WorkerEnds, Becomes, Launch, Started, Startable
  <2>4. HandsHoldReleases' BY <1>22 DEF CopyFails, WorkerAt, StepFails, WorkerEnds, Becomes, Launch, Started, Startable
  <2>5. ImagesAreKept' BY <1>22 DEF CopyFails, WorkerAt, StepFails, WorkerEnds, Becomes, Launch, Started, Startable
  <2> QED BY <2>1, <2>2, <2>3, <2>4, <2>5 DEF Kept
<1>23. ASSUME NEW w \in Workers, SwapFails(w) PROVE Kept'
  <2>1. AppIsWhole' BY <1>23 DEF SwapFails, Restored, WorkerAt, StepFails, WorkerEnds, Becomes, Launch, Started, Startable
  <2>2. WaitingIsWanted'
    BY <1>23 DEF SwapFails, Restored, WorkerAt, StepFails, WorkerEnds, Becomes, Launch, Started, Startable
  <2>3. KilledWaits' BY <1>23 DEF SwapFails, Restored, WorkerAt, StepFails, WorkerEnds, Becomes, Launch, Started, Startable
  <2>4. HandsHoldReleases'
    BY <1>23 DEF SwapFails, Restored, WorkerAt, StepFails, WorkerEnds, Becomes, Launch, Started, Startable
  <2>5. ImagesAreKept' BY <1>23 DEF SwapFails, Restored, WorkerAt, StepFails, WorkerEnds, Becomes, Launch, Started, Startable
  <2> QED BY <2>1, <2>2, <2>3, <2>4, <2>5 DEF Kept
<1>24. ASSUME NEW w \in Workers, InstallerFails(w) PROVE Kept'
  <2>1. AppIsWhole' BY <1>24 DEF InstallerFails, WorkerAt, StepFails, WorkerEnds, Becomes, Launch, Started, Startable
  <2>2. WaitingIsWanted' BY <1>24 DEF InstallerFails, WorkerAt, StepFails, WorkerEnds, Becomes, Launch, Started, Startable
  <2>3. KilledWaits' BY <1>24 DEF InstallerFails, WorkerAt, StepFails, WorkerEnds, Becomes, Launch, Started, Startable
  <2>4. HandsHoldReleases' BY <1>24 DEF InstallerFails, WorkerAt, StepFails, WorkerEnds, Becomes, Launch, Started, Startable
  <2>5. ImagesAreKept' BY <1>24 DEF InstallerFails, WorkerAt, StepFails, WorkerEnds, Becomes, Launch, Started, Startable
  <2> QED BY <2>1, <2>2, <2>3, <2>4, <2>5 DEF Kept
<1>25. ASSUME NEW w \in Workers, ImageFails(w) PROVE Kept'
  <2>1. AppIsWhole' BY <1>25 DEF ImageFails, StepFails, WorkerEnds, Becomes, Launch, Started, Startable
  <2>2. WaitingIsWanted' BY <1>25 DEF ImageFails, StepFails, WorkerEnds, Becomes, Launch, Started, Startable
  <2>3. KilledWaits' BY <1>25 DEF ImageFails, StepFails, WorkerEnds, Becomes, Launch, Started, Startable
  <2>4. HandsHoldReleases' BY <1>25 DEF ImageFails, StepFails, WorkerEnds, Becomes, Launch, Started, Startable
  <2>5. ImagesAreKept' BY <1>25 DEF ImageFails, StepFails, WorkerEnds, Becomes, Launch, Started, Startable
  <2> QED BY <2>1, <2>2, <2>3, <2>4, <2>5 DEF Kept
<1> QED BY <1>1, <1>2, <1>3, <1>4, <1>5, <1>6, <1>7, <1>8, <1>9, <1>10, <1>11, <1>12, <1>13, <1>14,
           <1>15, <1>16, <1>17, <1>18, <1>19, <1>20, <1>21, <1>22, <1>23, <1>24, <1>25 DEF UpdaterNext, WorkerStep

\* The invariant is inductive.
LEMMA UpdateStep ==
    ASSUME MaxVersion \in Nat \ {0}, UpdateInv, [UpdaterNext]_updaterVars PROVE UpdateInv'
<1>1. Typed /\ Kept BY TypeIs DEF UpdateInv, UpdateHolds, Kept
<1>2. CASE UpdaterNext
  <2>1. Typed' BY <1>1, <1>2, UpdaterTypeStep
  <2>2. Kept' BY <1>1, <1>2, <2>1, KeptStep
  <2> QED BY <2>1, <2>2, TypeIs DEF UpdateInv, UpdateHolds, Kept
<1>3. CASE UNCHANGED updaterVars
  <2>1. Typed' BY <1>1, <1>3 DEF Typed, updaterVars
  <2>2. Kept'
    BY <1>1, <1>3 DEF Kept, AppIsWhole, WaitingIsWanted, KilledWaits, HandsHoldReleases, ImagesAreKept,
                      updaterVars
  <2> QED BY <2>1, <2>2, TypeIs DEF UpdateInv, UpdateHolds, Kept
<1> QED BY <1>2, <1>3

(***************************************************************************)
(* However many launchers, workers and releases there are: a start finds a *)
(* whole release unless a mishap took it away, and a worker waits only as  *)
(* long as the quit of its installation is under way (update.cjs,          *)
(* update-worker.cjs, requestQuit of main.cjs).                            *)
(***************************************************************************)
THEOREM UpdatesAreSafe == ASSUME MaxVersion \in Nat \ {0} PROVE UpdaterSpec => []UpdateHolds
<1>1. UpdaterInit => UpdateInv BY UpdateInit
<1>2. UpdateInv /\ [UpdaterNext]_updaterVars => UpdateInv' BY UpdateStep
<1>3. UpdateInv => UpdateHolds BY DEF UpdateInv
<1> QED BY <1>1, <1>2, <1>3, PTL DEF UpdaterSpec
===============================================================================
