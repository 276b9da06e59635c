------------------------------- MODULE Updater -------------------------------
(***************************************************************************)
(* How the launcher replaces itself (launcher/electron/update.cjs, the     *)
(* worker it leaves behind, update-worker.cjs, and requestQuit of          *)
(* main.cjs).  A launcher downloads a release, starts a detached worker    *)
(* and quits; the worker waits until the launcher is gone, puts the new    *)
(* application where the old one was, and starts it.  The user may quit or *)
(* start the launcher at any moment, the launcher and the workers may die, *)
(* and every step of a worker may fail.                                    *)
(*                                                                         *)
(* An application is its version.  `target` is what a start of the         *)
(* launcher runs: the bundle, the installed executable, or the image that  *)
(* the stable wrapper names (Linux keeps its images beside each other).    *)
(***************************************************************************)
EXTENDS Naturals

CONSTANTS
    Workers,        \* the update workers there can be at one time
    MaxVersion,     \* bound: the newest version that is ever released
    MaxMishaps      \* bound: deaths and failed steps

VARIABLES
    platform,       \* darwin, win32 or linux
    released,       \* the latest release
    target,         \* what a start would run, or Absent
    images,         \* Linux: the installed images
    launcher,       \* the running launcher, or Down
    worker,         \* the workers
    mishaps,
    torn,           \* an application was lost by a mishap, or by two workers at once: a history variable
    missed          \* a worker died or gave up waiting since the last start: a history variable

updaterVars == <<platform, released, target, images, launcher, worker, mishaps, torn, missed>>

Versions == 1..MaxVersion
Absent   == 0
Tampered == MaxVersion + 1      \* bytes that are not the release's
Down     == [up |-> FALSE]
NoWorker == [at |-> "none", version |-> Absent, from |-> Absent, next |-> Absent, swap |-> Absent]

Bundles == Versions \cup {Absent, Tampered}
UpdateTypeOK ==
    /\ platform \in {"darwin", "win32", "linux"} /\ released \in Versions
    /\ target \in Bundles /\ images \subseteq Bundles
    /\ launcher = Down \/ launcher \in
         [up : {TRUE}, version : Bundles, checked : BOOLEAN, candidate : Versions \cup {Absent},
          status : {"idle", "checking", "up-to-date", "error", "available", "downloading", "installing"},
          quit : {"no", "user", "update"}, install : Workers \cup {Absent}]
    /\ worker \in [Workers -> [at : {"none", "waiting", "ready", "copied", "swapped", "installed"},
                               version : Bundles, from : Bundles, next : Bundles, swap : Bundles]]

Mishap == mishaps < MaxMishaps /\ mishaps' = mishaps + 1
Fine   == UNCHANGED mishaps
AppFiles  == <<target, images>>
-----------------------------------------------------------------------------
\* A start runs what the target is; a launcher that already runs keeps its single-instance lock.
Started(version) ==
    [up |-> TRUE, version |-> version, checked |-> FALSE, candidate |-> Absent,
     status |-> "idle", quit |-> "no", install |-> Absent]
Startable(t, kept) == t # Absent /\ (platform = "linux" => t \in kept)
Launch(t, kept) ==
    launcher' = IF launcher.up \/ ~Startable(t, kept) THEN launcher ELSE Started(t)

UserStarts ==
    /\ ~launcher.up /\ Startable(target, images) /\ Launch(target, images) /\ Fine
    /\ missed' = FALSE
    /\ UNCHANGED <<platform, released, AppFiles, worker, torn>>

Publish ==
    /\ released < MaxVersion /\ released' = released + 1 /\ Fine
    /\ UNCHANGED <<platform, AppFiles, launcher, worker, torn, missed>>

UpdateStatus(s) == [launcher EXCEPT !.status = s]
Controller(next) ==
    launcher' = next /\ UNCHANGED <<platform, released, AppFiles, worker, torn, missed>>

\* One check for each launcher, whatever comes of it.
CheckStarts ==
    /\ launcher.up /\ launcher.status = "idle" /\ ~launcher.checked /\ Fine
    /\ Controller([UpdateStatus("checking") EXCEPT !.checked = TRUE])

Newer(version, current) == version > current
Offers(version) == [UpdateStatus("available") EXCEPT !.candidate = version]
CheckEnds ==
    /\ launcher.up /\ launcher.status = "checking" /\ Fine
    /\ \/ Newer(released, launcher.version) /\ Controller(Offers(released))
       \/ ~Newer(released, launcher.version) /\ Controller(UpdateStatus("up-to-date"))
CheckFails ==
    launcher.up /\ launcher.status = "checking" /\ Mishap /\ Controller(UpdateStatus("error"))

BeginInstall ==
    launcher.up /\ launcher.status = "available" /\ Fine /\ Controller(UpdateStatus("downloading"))

\* The asset differs from what checksums.txt says of it only when something went wrong.
Downloads(asset) == IF asset = launcher.candidate THEN Fine ELSE Mishap
Verified(asset)  == asset = launcher.candidate
PrepareFails ==
    /\ launcher.up /\ launcher.status = "downloading"
    /\ \/ Mishap
       \/ Downloads(Tampered) /\ ~Verified(Tampered)
    /\ Controller(UpdateStatus("available"))
-----------------------------------------------------------------------------
\* The job of a worker: what it installs and the application it replaces.
Job(asset) == [NoWorker EXCEPT !.at = "waiting", !.version = asset, !.from = launcher.version]
Spawned(w, asset) == [worker EXCEPT ![w] = Job(asset)]

\* mutant: the worker of a cancelled installation goes on waiting.
NotKilled(workers, w) == workers

\* cancelInstall: the worker is told to stop, if it still runs.
Killed(workers, w) == [workers EXCEPT ![w] = NoWorker]
Cancelled == [UpdateStatus("available") EXCEPT !.quit = "no", !.install = Absent]

\* The worker starts, and in the same turn of the event loop the launcher asks itself to quit.
Prepared(w, asset) ==
    /\ launcher.up /\ launcher.status = "downloading" /\ Downloads(asset) /\ Verified(asset)
    /\ worker[w].at = "none"
    /\ \/ /\ launcher.quit = "no"
          /\ worker' = Spawned(w, asset)
          /\ launcher' = [UpdateStatus("installing") EXCEPT !.quit = "update", !.install = w]
       \/ \* an operation is active, or the launcher is already being shut down
          /\ worker' = Killed(Spawned(w, asset), w)
          /\ launcher' = [Cancelled EXCEPT !.quit = launcher.quit]
    /\ UNCHANGED <<platform, released, AppFiles, torn, missed>>

UserQuits ==
    /\ launcher.up /\ launcher.quit = "no" /\ Fine
    /\ Controller([launcher EXCEPT !.quit = "user"])

QuitFails ==
    /\ launcher.up /\ launcher.quit # "no" /\ Mishap
    /\ IF launcher.quit = "user"
       THEN launcher' = [launcher EXCEPT !.quit = "no"] /\ UNCHANGED worker
       ELSE launcher' = Cancelled /\ worker' = Killed(worker, launcher.install)
    /\ UNCHANGED <<platform, released, AppFiles, torn, missed>>

\* What a worker waits for: the process it was started by is gone.
LauncherLeaves ==
    /\ launcher' = Down
    /\ worker' = [w \in Workers |-> IF worker[w].at = "waiting"
                                    THEN [worker[w] EXCEPT !.at = "ready"] ELSE worker[w]]
    /\ UNCHANGED <<platform, released, AppFiles, torn, missed>>
Exits == launcher.up /\ launcher.quit # "no" /\ Fine /\ LauncherLeaves
AppDies == launcher.up /\ Mishap /\ LauncherLeaves
-----------------------------------------------------------------------------
\* Steps of a worker.
WorkerAt(w, p, label) == platform = p /\ worker[w].at = label
Becomes(w, record) == worker' = [worker EXCEPT ![w] = record]
WorkerEnds(w) == Becomes(w, NoWorker)

\* "did not exit in time" is thrown before anything is tried, so nothing is started either.
WaitExpires(w) ==
    /\ worker[w].at = "waiting" /\ Mishap /\ WorkerEnds(w) /\ missed' = TRUE
    /\ UNCHANGED <<platform, released, AppFiles, launcher, torn>>

\* mutant: a worker that failed starts nothing.
FailsQuietly(w, t) ==
    /\ WorkerEnds(w) /\ target' = t
    /\ UNCHANGED <<platform, released, images, launcher, missed>>

\* relaunchExisting: whatever there is to start.
StepFails(w, t) ==
    /\ WorkerEnds(w) /\ target' = t /\ Launch(t, images)
    /\ UNCHANGED <<platform, released, images, missed>>

\* macOS: the copy, the two renames, and the way back from the second.
Copied(w) ==
    /\ WorkerAt(w, "darwin", "ready") /\ Fine
    /\ Becomes(w, [worker[w] EXCEPT !.at = "copied", !.next = worker[w].version])
    /\ UNCHANGED <<platform, released, AppFiles, launcher, torn, missed>>
CopyFails(w) == WorkerAt(w, "darwin", "ready") /\ Mishap /\ StepFails(w, target) /\ UNCHANGED torn
SwapsOut(w) ==
    /\ WorkerAt(w, "darwin", "copied") /\ Fine
    /\ IF target = Absent THEN StepFails(w, target)
       ELSE /\ Becomes(w, [worker[w] EXCEPT !.at = "swapped", !.swap = target]) /\ target' = Absent
            /\ UNCHANGED <<platform, released, images, launcher, missed>>
    /\ UNCHANGED torn
SwapsIn(w) ==
    /\ WorkerAt(w, "darwin", "swapped") /\ Fine
    /\ Becomes(w, [worker[w] EXCEPT !.at = "installed"]) /\ target' = worker[w].next
    /\ UNCHANGED <<platform, released, images, launcher, torn, missed>>

Restored(w) == worker[w].swap
SwapFails(w) ==
    /\ WorkerAt(w, "darwin", "swapped") /\ Mishap
    /\ \/ StepFails(w, Restored(w)) /\ UNCHANGED torn
       \/ StepFails(w, Absent) /\ torn' = TRUE          \* the restoring rename fails too

\* Windows: the installer is another program, and it can leave nothing behind.
Installs(w) ==
    /\ WorkerAt(w, "win32", "ready") /\ Fine
    /\ Becomes(w, [worker[w] EXCEPT !.at = "installed"]) /\ target' = worker[w].version
    /\ UNCHANGED <<platform, released, images, launcher, torn, missed>>
InstallerFails(w) ==
    /\ WorkerAt(w, "win32", "ready") /\ Mishap
    /\ \E t \in {target, Absent} : StepFails(w, t) /\ torn' = (torn \/ t = Absent)

\* Linux: the new image beside the old one, the wrapper that names it, then the old one goes.
InstallsImage(w) ==
    /\ WorkerAt(w, "linux", "ready") /\ Fine
    /\ images' = images \cup {worker[w].version}
    /\ Becomes(w, [worker[w] EXCEPT !.at = "copied"])
    /\ UNCHANGED <<platform, released, target, launcher, torn, missed>>
\* One of two workers installs the image that the other one is to remove.
Clash(w) ==
    platform = "linux" /\ \E v \in Workers :
        /\ worker[v].at \in {"copied", "installed"}
        /\ worker[v].version = worker[w].from \/ worker[w].version = worker[v].from
NamesImage(w) ==
    /\ WorkerAt(w, "linux", "copied") /\ Fine
    /\ target' = worker[w].version /\ Becomes(w, [worker[w] EXCEPT !.at = "installed"])
    /\ torn' = (torn \/ Clash(w))
    /\ UNCHANGED <<platform, released, images, launcher, missed>>
ImageFails(w) ==
    /\ platform = "linux" /\ worker[w].at \in {"ready", "copied"} /\ Mishap
    /\ StepFails(w, target) /\ UNCHANGED torn

Finishes(w) ==
    /\ worker[w].at = "installed" /\ Fine /\ WorkerEnds(w)
    /\ images' = IF platform = "linux" /\ worker[w].from # worker[w].version
                 THEN images \ {worker[w].from} ELSE images
    /\ torn' = (torn \/ Clash(w))
    /\ Launch(target, images') /\ UNCHANGED <<platform, released, target, missed>>

WorkerDies(w) ==
    /\ worker[w].at # "none" /\ Mishap /\ WorkerEnds(w) /\ missed' = TRUE
    /\ torn' = (torn \/ worker[w].at = "swapped")
    /\ UNCHANGED <<platform, released, AppFiles, launcher>>

WorkerStep(w) ==
    \/ Copied(w) \/ SwapsOut(w) \/ SwapsIn(w) \/ Installs(w)
    \/ InstallsImage(w) \/ NamesImage(w) \/ Finishes(w)
-----------------------------------------------------------------------------
UpdaterInit ==
    /\ platform \in {"darwin", "win32", "linux"} /\ released = 1
    /\ target = 1 /\ images = IF platform = "linux" THEN {1} ELSE {}
    /\ launcher = Down /\ worker = [w \in Workers |-> NoWorker]
    /\ mishaps = 0 /\ torn = FALSE /\ missed = FALSE

UpdaterNext ==
    \/ UserStarts \/ Publish \/ CheckStarts \/ CheckEnds \/ CheckFails \/ BeginInstall
    \/ PrepareFails \/ UserQuits \/ QuitFails \/ Exits \/ AppDies
    \/ \E w \in Workers :
        \/ \E asset \in Versions \cup {Tampered} : Prepared(w, asset)
        \/ WorkerStep(w) \/ WaitExpires(w) \/ CopyFails(w) \/ SwapFails(w) \/ InstallerFails(w)
        \/ ImageFails(w) \/ WorkerDies(w)

\* A shutdown of the launcher ends, and a worker goes on.
UpdaterFairness ==
    /\ WF_updaterVars(Exits)
    /\ \A w \in Workers : WF_updaterVars(WorkerStep(w))

UpdaterSpec == UpdaterInit /\ [][UpdaterNext]_updaterVars /\ UpdaterFairness
-----------------------------------------------------------------------------
(***************************************************************************)
(* Unless a mishap took the application away, or one worker removes the    *)
(* image that another has just installed, a start finds a whole one        *)
(* whose bytes are a release's, whoever replaces it, except in the moment  *)
(* between a worker's two renames (updateMac, installLinuxFile).           *)
(***************************************************************************)
AppIsWhole ==
    \/ torn
    \/ \E w \in Workers : worker[w].at = "swapped"
    \/ target \in Versions /\ (platform = "linux" => target \in images)

(***************************************************************************)
(* While a launcher runs, a worker waits for it only as long as the quit   *)
(* of that installation is under way: when the quit was refused or failed, *)
(* the worker is gone, and no later exit of the launcher replaces the      *)
(* application (requestQuit, cancelInstall).                               *)
(***************************************************************************)
WaitingIsWanted ==
    /\ \A w \in Workers :
        worker[w].at = "waiting" => launcher.up /\ launcher.quit = "update" /\ launcher.install = w
    /\ launcher.up => (launcher.status = "installing" <=> launcher.quit = "update")

(***************************************************************************)
(* An update that is refused, cancelled, overtaken by a quit or by another *)
(* update leaves an application and nobody who would replace it.           *)
(***************************************************************************)
UpdateHolds == UpdateTypeOK /\ AppIsWhole /\ WaitingIsWanted

(***************************************************************************)
(* When the launcher is gone and its worker goes to work, a launcher runs  *)
(* again, in the new version or in the old, unless a worker died or gave   *)
(* up waiting or nothing is left to start (updateMac, updateWindows,       *)
(* updateLinux, relaunchExisting).                                         *)
(***************************************************************************)
LauncherReturns ==
    \A w \in Workers : worker[w].at = "ready" ~> launcher.up \/ missed \/ torn
=============================================================================
