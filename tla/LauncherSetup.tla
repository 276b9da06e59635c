---------------------------- MODULE LauncherSetup ----------------------------
(* The launcher's transactions over the integration: RuntimeHost of           *)
(* runtime.cjs and the boot sequence of main.cjs.  A setup checks first,      *)
(* stops the runtime, runs the setup command, starts the runtime again and    *)
(* lets the browser commit; when a step fails it restores the files it        *)
(* remembered and the runtime that was there.  Every command is a process of  *)
(* CodexIntegration, which may fail or be killed; the launcher may die in     *)
(* between, and then its checkpoint is lost.  The commands a user types run   *)
(* while the launcher has no operation.                                       *)
EXTENDS CodexIntegration

VARIABLES
    alive,          \* a launcher is running
    runtime,        \* the mode the daemon was started in, or None
    orphan,         \* the daemon belongs to a launcher that died
    tx              \* the launcher's operation, or None

launcherVars == <<alive, runtime, orphan, tx>>
vars == <<integrationVars, launcherVars>>

Steps == {"preflight", "stop", "command", "start", "commit", "rollback", "restore", "recover",
          "remove", "verify", "status", "connect", "connecting", "route", "disconnect"}

Operations ==
    [name : {"setup", "uninstall", "boot"}, at : Steps, checkpoint : Disks,
     mode : Modes \cup {None}, replace : BOOLEAN, todo : Seq(Files), commanded : BOOLEAN]

(* What the theorems assume of the constants: a first text is a user's, and  *)
(* None is none of the values it stands beside.                              *)
SetupAssumption ==
    /\ FirstLines \subseteq UserLines /\ Ours \notin Urls
    /\ MaxEdits \in Nat /\ MaxFaults \in Nat
    /\ None \notin {Ours, User, Edited, "ok", "failed", "bridge", "own"}
    /\ None \notin Lines \cup Journal \cup AppConfig \cup Jobs \cup Operations

TypeOK ==
    /\ \A f \in {"primary", "recovery"} : disk[f] \in Journal \cup {None}
    /\ disk["config"] \in Lines \cup {None} /\ disk["app"] \in AppConfig \cup {None}
    /\ disk["cache"] \in {None, "bridge", "own"} /\ own \in UserLines /\ ambiguous \in BOOLEAN
    /\ job # None => job.name \in Commands /\ job.before["app"] \in AppConfig \cup {None}
    /\ exit \in {None, "ok", "failed"} /\ broken \subseteq {"death", "undo", "split"}
    /\ edits \in 0..MaxEdits /\ faults \in 0..MaxFaults
    /\ alive \in BOOLEAN /\ orphan \in BOOLEAN /\ runtime \in Modes \cup {None}
    /\ tx # None => tx.at \in Steps

(* Mutant: the saved configuration is left out.                              *)
CheckpointOfCodex == <<"cache", "config", "recovery", "primary">>

(* The files the launcher remembers, in the order it restores them.          *)
Checkpoint == <<"cache", "config", "recovery", "primary", "app">>

Operation(name, at) ==
    [name |-> name, at |-> at, checkpoint |-> disk, mode |-> None, replace |-> FALSE,
     todo |-> <<>>, commanded |-> FALSE]

At(s) == tx # None /\ tx.at = s /\ job = None
Goes(s) == tx' = [tx EXCEPT !.at = s]
Over == tx' = None

(* stopForSetup.                                                             *)
Stopped    == runtime' = None /\ orphan' = FALSE
StopFailed == runtime # None /\ UNCHANGED <<runtime, orphan>>

(* startIfConfigured: a daemon of this launcher is kept as it is, one that   *)
(* was left behind is stopped first.                                         *)
Ready ==
    /\ disk["app"] # None /\ orphan' = FALSE
    /\ runtime' = IF runtime # None /\ ~orphan THEN runtime ELSE disk["app"].mode
NotReady ==
    IF disk["app"] = None THEN UNCHANGED <<runtime, orphan>> ELSE Stopped

Idle(f) == f /\ UNCHANGED <<disk, job, exit, userVars, edits, faults, broken>>
Waits(at) == At(at) /\ exit # None
-----------------------------------------------------------------------------
(* runSetup.                                                                 *)
SetupBegins(mode, replace) ==
    /\ alive /\ tx = None /\ job = None
    /\ tx' = [Operation("setup", "preflight") EXCEPT !.mode = mode, !.replace = replace]
    /\ Preflight(replace)
    /\ UNCHANGED <<alive, runtime, orphan>>

PreflightEnds ==
    /\ Waits("preflight")
    /\ IF exit = "ok" THEN Goes("stop") ELSE Over
    /\ Idle(UNCHANGED <<alive, runtime, orphan>>)

SetupStops ==
    /\ At("stop") /\ tx.name = "setup"
    /\ Stopped /\ tx' = [tx EXCEPT !.at = "command", !.commanded = TRUE]
    /\ UNCHANGED alive
    /\ Setup(tx.mode, tx.replace)

SetupCannotStop ==
    /\ At("stop") /\ tx.name = "setup" /\ StopFailed
    /\ tx' = [tx EXCEPT !.at = IF disk["app"] = None THEN "recover" ELSE "restore",
                        !.todo = Checkpoint]
    /\ Idle(UNCHANGED alive)

CommandEnds ==
    /\ Waits("command")
    /\ Goes(IF exit = "ok" THEN "start" ELSE "rollback")
    /\ Idle(UNCHANGED <<alive, runtime, orphan>>)

SetupStarts ==
    /\ At("start") /\ tx.name = "setup"
    /\ \/ Ready /\ Goes("commit")
       \/ NotReady /\ Goes("rollback")
    /\ Idle(UNCHANGED alive)

(* The browser's part, which runs inside the transaction.                    *)
BrowserCommits ==
    /\ At("commit")
    /\ Over \/ Goes("rollback")
    /\ Idle(UNCHANGED <<alive, runtime, orphan>>)

(* A first setup stops what it started before its files are restored.        *)
RollsBack ==
    /\ At("rollback")
    /\ IF tx.checkpoint["app"] = None THEN Stopped \/ StopFailed
                                      ELSE UNCHANGED <<runtime, orphan>>
    /\ tx' = [tx EXCEPT !.at = "restore", !.todo = Checkpoint]
    /\ Idle(UNCHANGED alive)

RestoresFile ==
    /\ At("restore") /\ tx.todo # <<>>
    /\ Put(Head(tx.todo), tx.checkpoint[Head(tx.todo)])
    /\ tx' = [tx EXCEPT !.todo = Tail(@)]
    /\ UNCHANGED <<job, exit, userVars, edits, faults, broken, alive, runtime, orphan>>

RestoreFails ==
    /\ At("restore") /\ tx.todo # <<>> /\ faults < MaxFaults
    /\ disk[Head(tx.todo)] # tx.checkpoint[Head(tx.todo)]
    /\ tx' = [tx EXCEPT !.todo = Tail(@)]
    /\ faults' = faults + 1 /\ broken' = broken \cup {"undo"}
    /\ UNCHANGED <<disk, job, exit, userVars, edits, alive, runtime, orphan>>

RestoreEnds ==
    /\ At("restore") /\ tx.todo = <<>>
    /\ Goes("recover")
    /\ Idle(UNCHANGED <<alive, runtime, orphan>>)

(* restorePreviousRuntime refuses to call another configuration the previous *)
(* one; without a configuration nothing is started.                          *)
RecoversRuntime ==
    /\ At("recover") /\ Over
    /\ IF disk["app"] # tx.checkpoint["app"] THEN UNCHANGED <<runtime, orphan>>
                                             ELSE Ready \/ NotReady
    /\ Idle(UNCHANGED alive)
-----------------------------------------------------------------------------
(* uninstallIntegration.                                                     *)
UninstallBegins ==
    /\ alive /\ tx = None /\ job = None
    /\ tx' = Operation("uninstall", "stop")
    /\ Idle(UNCHANGED <<alive, runtime, orphan>>)

UninstallStops ==
    /\ At("stop") /\ tx.name = "uninstall"
    /\ Stopped /\ Goes("remove") /\ UNCHANGED alive
    /\ Uninstall

UninstallCannotStop ==
    /\ At("stop") /\ tx.name = "uninstall" /\ StopFailed
    /\ Goes("route") /\ UNCHANGED alive
    /\ Status

RemoveEnds ==
    /\ Waits("remove")
    /\ Goes(IF exit = "ok" THEN "verify" ELSE "route")
    /\ Status
    /\ UNCHANGED <<alive, runtime, orphan>>

RemovalIsVerified ==
    /\ Waits("verify")
    /\ IF exit = "ok" /\ ReadJournal = None
       THEN Over /\ UNCHANGED integrationVars
       ELSE Goes("route") /\ Status
    /\ UNCHANGED <<alive, runtime, orphan>>

(* restoreBridgeRouteWithinOperation, after its first status command.        *)
RouteIsSeen ==
    /\ Waits("route")
    /\ IF exit = "ok" /\ ReadJournal # None /\ ReadJournal.active
       THEN Goes("disconnect") /\ Disconnect
       ELSE Over /\ UNCHANGED integrationVars
    /\ UNCHANGED <<alive, runtime, orphan>>

RouteIsRestored ==
    /\ Waits("disconnect") /\ Over
    /\ Idle(UNCHANGED <<alive, runtime, orphan>>)
-----------------------------------------------------------------------------
(* Boot: the runtime, then the route; without a runtime Codex goes back to   *)
(* its own route.                                                            *)
Boots ==
    /\ ~alive /\ job = None
    /\ alive' = TRUE /\ tx' = Operation("boot", "start")
    /\ Idle(UNCHANGED <<runtime, orphan>>)

BootStarts ==
    /\ At("start") /\ tx.name = "boot"
    /\ \/ Ready /\ Goes("status")
       \/ NotReady /\ Goes("route")
    /\ UNCHANGED alive
    /\ Status

BootSeesRoute ==
    /\ Waits("status")
    /\ IF exit # "ok" \/ ReadJournal = None
       THEN Goes("route") /\ Status
       ELSE IF ReadJournal.active THEN Over /\ UNCHANGED integrationVars
                                  ELSE Goes("connecting") /\ Connect
    /\ UNCHANGED <<alive, runtime, orphan>>

BootConnects ==
    /\ Waits("connecting") /\ UNCHANGED alive
    /\ IF exit = "ok"
       THEN Over /\ UNCHANGED <<integrationVars, runtime, orphan>>
       ELSE (Stopped \/ StopFailed) /\ Goes("route") /\ Status

LauncherDies ==
    /\ alive /\ faults < MaxFaults
    /\ alive' = FALSE /\ Over /\ orphan' = (runtime # None)
    /\ faults' = faults + 1 /\ broken' = broken \cup {"death"}
    /\ UNCHANGED <<disk, job, exit, userVars, edits, runtime>>

LauncherQuits ==
    /\ alive /\ tx = None /\ job = None
    /\ alive' = FALSE /\ Stopped /\ Over
    /\ Idle(TRUE)
-----------------------------------------------------------------------------
(* What the user does, while the launcher has no operation.                  *)
Outside ==
    /\ tx = None
    /\ \/ Connect \/ Disconnect \/ \E p \in Protocols : Subagents(p)
       \/ UserEdits
    /\ UNCHANGED launcherVars

Init == IntegrationInit /\ alive = FALSE /\ runtime = None /\ orphan = FALSE /\ tx = None

Next ==
    \/ \E m \in Modes, r \in BOOLEAN : SetupBegins(m, r)
    \/ PreflightEnds \/ SetupStops \/ SetupCannotStop \/ CommandEnds \/ SetupStarts
    \/ BrowserCommits \/ RollsBack \/ RestoresFile \/ RestoreFails \/ RestoreEnds
    \/ RecoversRuntime
    \/ UninstallBegins \/ UninstallStops \/ UninstallCannotStop \/ RemoveEnds
    \/ RemovalIsVerified \/ RouteIsSeen \/ RouteIsRestored
    \/ Boots \/ BootStarts \/ BootSeesRoute \/ BootConnects \/ LauncherDies \/ LauncherQuits
    \/ Outside
    \/ ~At("restore") /\ CodexReads /\ UNCHANGED launcherVars
    \/ ProcessStep /\ UNCHANGED launcherVars

Spec == Init /\ [][Next]_vars
-----------------------------------------------------------------------------
AtRest == tx = None /\ job = None

(* Every undo succeeded, and no death left a split: after one, nothing is     *)
(* claimed of the files.                                                     *)
Unharmed == broken \cap {"undo", "split"} = {}

(* The user's own configuration is never lost: whenever the journals can be  *)
(* read, what an installation would take for the user's text is what the     *)
(* user has, through installs, disconnections, changes of protocol, edits,   *)
(* failed writes, deaths and rollbacks (installRoute, replacementBaseline).  *)
(* One line cannot be told apart: a user who had the very realtime line that *)
(* is installed may, after a death, be given it back although it was changed *)
(* meanwhile.  And one death does lose the user's feature lines: from the    *)
(* native protocol to Compatibility V1, when the saved configuration could   *)
(* not be written, between the journals and the text being restored.  That   *)
(* code says "restore every participant so the next launcher/Codex restart   *)
(* cannot load a split V1/V2 state" (setCodexSubagentProtocol).              *)
OwnIsKept ==
    AtRest /\ ~Unreadable /\ Unharmed
    => LET taken == [Baseline EXCEPT !.hook = None]
       IN  \/ taken = own
           \/ ambiguous /\ "death" \in broken /\ taken = [own EXCEPT !.realtime = Ours]

(* "The runtime catalog and Codex feature surface are two halves of one      *)
(* protocol selection": the saved configuration and the journal never stay   *)
(* split (setCodexSubagentProtocol, setup).                                  *)
ProtocolsAgree ==
    AtRest /\ broken = {} /\ ReadJournal # None /\ ReadJournal.active
    => disk["app"] # None /\ disk["app"].protocol = ReadJournal.protocol

(* The models Codex cached belong to the route it has.                       *)
CacheMatchesRoute ==
    AtRest /\ broken = {} /\ edits = 0 => disk["cache"] \in {None, RouteOf(Text)}

(* At rest the files hold together: what the user had can be restored, the    *)
(* protocol is the same on both sides, the cached models are the route's.    *)
FilesHold == TypeOK /\ OwnIsKept /\ ProtocolsAgree /\ CacheMatchesRoute

(* A command that failed by itself leaves no part of a batch of writes, and   *)
(* one that changes the route or the protocol leaves every file as it was    *)
(* before its own writes.  A setup or an uninstall may leave its first part  *)
(* behind, the saved configuration or the removed integration, as nothing    *)
(* undoes it (setup, uninstallCommand).                                      *)
FirstPartAtMost ==
    LET sameBut(fs) == \A f \in Files \ fs : disk[f] = job.found[f]
    IN  CASE job.name \in {"route", "subagents"} -> disk = job.found
          [] job.name = "setup"                  -> sameBut({"app"})
          [] job.name = "uninstall" ->
                 \/ disk = job.found
                 \/ disk["primary"] = None /\ disk["recovery"] = None /\ sameBut(Files \ {"app"})

CommandUndone ==
    job # None /\ job' = None /\ exit' = "failed" /\ broken' = {}
    => disk = job.before /\ FirstPartAtMost

(* A setup that was rolled back leaves the files as they were, even when its *)
(* command was killed between two writes.                                    *)
SetupUndone ==
    At("recover") /\ tx' = None /\ alive' /\ Unharmed
    => \A f \in Files \ {"cache"} : disk[f] = tx.checkpoint[f]

(* Failure leaves no trace of what it interrupts: neither of a batch of a    *)
(* command (writeFilesWithCompensation), or of a whole change of the route or *)
(* the protocol, nor of a launcher's setup (restoreSetupCheckpoint).         *)
FailureLeavesNoTrace == [][CommandUndone /\ SetupUndone]_vars

(* "If the process stops between those writes, the physical config           *)
(* unambiguously selects the completed state": after a death the journals    *)
(* can be read (writeIntegrationState).                                      *)
CrashIsReconciled == AtRest /\ edits = 0 /\ "undo" \notin broken => ~Unreadable
=============================================================================
