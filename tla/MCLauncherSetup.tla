--------------------------- MODULE MCLauncherSetup ---------------------------
(* Small instances of what the launcher changes on the user's disk for TLC:   *)
(* its setups over the Codex files (of a user who has none of the managed     *)
(* lines, one who has all of them, and one whose realtime line is the one     *)
(* that would be installed), or the updates that replace the launcher itself. *)
(* A setup and an update exclude each other (activeTaskLifecycleOperation),   *)
(* so an instance has one of them.                                            *)
EXTENDS LauncherSetup, Updater

CONSTANT u

VARIABLE updates    \* which of the two the instance has

allVars == <<vars, updaterVars, updates>>

NoLines == [base |-> None, realtime |-> None, marker |-> FALSE, feature |-> None, hook |-> None]
MCFirstLines ==
    {NoLines,
     [NoLines EXCEPT !.base = u, !.realtime = "user", !.feature = "user"],
     [NoLines EXCEPT !.realtime = "ours", !.feature = "user"]}

ASSUME SetupAssumption

\* Faults and edits together; the second fault comes while the first, a failed
\* write, is undone.
Budget == 2
InBudget ==
    /\ edits' + faults' <= Budget
    /\ faults' > faults => faults = 0 \/ (job # None /\ job.failing)

Setting(A)  == ~updates /\ A /\ InBudget /\ UNCHANGED <<updaterVars, updates>>
Updating(A) == updates /\ A /\ UNCHANGED <<vars, updates>>

\* The other part starts in one state, so that it counts once.
DiskInit ==
    /\ Init /\ UpdaterInit /\ updates \in BOOLEAN
    /\ IF updates THEN own = Blank ELSE platform = "darwin"

DiskNext ==
    \/ \E m \in Modes, r \in BOOLEAN : Setting(SetupBegins(m, r))
    \/ Setting(PreflightEnds) \/ Setting(SetupStops) \/ Setting(SetupCannotStop)
    \/ Setting(CommandEnds) \/ Setting(SetupStarts) \/ Setting(BrowserCommits)
    \/ Setting(RollsBack) \/ Setting(RestoresFile) \/ Setting(RestoreFails)
    \/ Setting(RestoreEnds) \/ Setting(RecoversRuntime)
    \/ Setting(UninstallBegins) \/ Setting(UninstallStops) \/ Setting(UninstallCannotStop)
    \/ Setting(RemoveEnds) \/ Setting(RemovalIsVerified)
    \/ Setting(RouteIsSeen) \/ Setting(RouteIsRestored)
    \/ Setting(Boots) \/ Setting(BootStarts) \/ Setting(BootSeesRoute) \/ Setting(BootConnects)
    \/ Setting(LauncherDies) \/ Setting(LauncherQuits) \/ Setting(Outside)
    \/ Setting(~At("restore") /\ CodexReads /\ UNCHANGED launcherVars)
    \/ Setting(ProcessStep /\ UNCHANGED launcherVars)
    \/ Updating(UserStarts) \/ Updating(Publish)
    \/ Updating(CheckStarts) \/ Updating(CheckEnds) \/ Updating(CheckFails)
    \/ Updating(BeginInstall) \/ Updating(PrepareFails)
    \/ Updating(UserQuits) \/ Updating(QuitFails)
    \/ Updating(Exits) \/ Updating(AppDies)
    \/ \E w \in Workers :
        \/ \E asset \in Bundles : Updating(Prepared(w, asset))
        \/ Updating(WorkerStep(w)) \/ Updating(WaitExpires(w))
        \/ Updating(CopyFails(w)) \/ Updating(SwapFails(w))
        \/ Updating(InstallerFails(w)) \/ Updating(ImageFails(w))
        \/ Updating(WorkerDies(w))

\* What Updater assumes; nothing is assumed of a setup.
DiskFairness ==
    /\ WF_allVars(Updating(Exits))
    /\ \A w \in Workers : WF_allVars(Updating(WorkerStep(w)))

DiskSpec == DiskInit /\ [][DiskNext]_allVars /\ DiskFairness
=============================================================================
