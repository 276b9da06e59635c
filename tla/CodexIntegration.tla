-------------------------- MODULE CodexIntegration --------------------------
(* The files by which Codex is routed through the bridge, and the commands   *)
(* that change them: codex-integration.ts with its route, document, hook and *)
(* journal parts, and the commands of cli.ts that call them.                 *)
(*                                                                           *)
(* A command is a process of its own.  It reads the files, plans every write *)
(* and makes the writes one by one, each of them atomic; a write may fail,   *)
(* which undoes the earlier ones, and the process may die between any two.   *)
(* Of Codex's configuration the model keeps what the integration manages:    *)
(* the base URL, the realtime URL with the marker above the route, the       *)
(* feature lines of Compatibility V1 (taken together) and the interrupt      *)
(* hook.  Journals are those of version 10.                                  *)
EXTENDS Naturals, Sequences, SequencesExt

CONSTANTS
    Urls,           \* base URLs a user may have
    FirstLines,     \* what the user may have of the managed lines at first
    MaxEdits,       \* a bound of the model: edits by the user
    MaxFaults,      \* a bound of the model: failed writes and deaths
    None            \* an absent file, line or journal

Ours   == "ours"
User   == "user"
Edited == "edited"

Protocols == {"compatibility-v1", "native"}
Modes     == {"automatic", "manual"}        \* browserInteractionMode
Files     == {"app", "recovery", "config", "primary", "cache"}

VARIABLES
    disk,           \* the files: what each holds, or None
    job,            \* the command that is running, or None
    exit,           \* how the last one ended: None (was not read), "ok", "failed"
    own,            \* what the user has of the managed lines: a history variable
    ambiguous,      \* the user's first realtime line is the one installed: a history variable
    edits, faults,  \* counters of the two bounds
    broken          \* what went wrong beyond a failed write: a history variable

userVars        == <<own, ambiguous>>
integrationVars == <<disk, job, exit, userVars, edits, faults, broken>>

Lines == [base     : Urls \cup {None, Ours},
          realtime : {None, User, Ours},
          marker   : BOOLEAN,
          feature  : {None, User, Ours},
          hook     : {None, Ours, Edited}]
Journal == [active : BOOLEAN, protocol : Protocols, previous : Lines]
AppConfig == [protocol : Protocols, mode : Modes]

(* The text of a file that has none of the managed lines, or is missing.     *)
Blank == [base |-> None, realtime |-> None, marker |-> FALSE, feature |-> None, hook |-> None]
Text  == IF disk["config"] = None THEN Blank ELSE disk["config"]

(* What a file may hold, a write of it, and a command at work.               *)
Holds(f) == CASE f = "app"                     -> AppConfig \cup {None}
              [] f = "config"                  -> Lines \cup {None}
              [] f = "cache"                   -> {None, "bridge", "own"}
              [] f \in {"recovery", "primary"} -> Journal \cup {None}
Contents == UNION {Holds(f) : f \in Files}
Disks    == {d \in [Files -> Contents] : \A f \in Files : d[f] \in Holds(f)}
Orders   == {w \in Files \X Contents : w[2] \in Holds(w[1])}
Batches  == Seq(Orders) \ {<<>>}

(* A command repairs the journals first, then makes its own batches.  It      *)
(* remembers what the batch at work began with and, for the properties, what  *)
(* its own writes began with.                                                *)
Commands == {"route", "subagents", "setup", "uninstall"}
Jobs     == [name : Commands, batches : Seq(Batches), done : Seq(Files), undo : Seq(Files),
             before : Disks, found : Disks, repairing : BOOLEAN, failing : BOOLEAN]

UserLines == {c \in Lines : c.base # Ours /\ ~c.marker /\ c.feature # Ours /\ c.hook = None}
-----------------------------------------------------------------------------
(* What installing does to a text, and what the journal keeps of it          *)
(* (installRoute, installCompatibilityV1Features, the interrupt hook).       *)
Routed(c, p) ==
    [c EXCEPT !.base = Ours, !.realtime = Ours, !.marker = TRUE, !.hook = Ours,
              !.feature = IF p = "compatibility-v1" THEN Ours ELSE @]

JournalFor(c, p) ==
    [active |-> TRUE, protocol |-> p,
     previous |-> [Blank EXCEPT !.base = c.base, !.realtime = c.realtime,
                                !.feature = IF p = "compatibility-v1" THEN c.feature ELSE None]]

VerifyInstalledRoute(c, j) ==
    /\ c.base = Ours /\ c.marker /\ c.realtime = Ours /\ c.hook = Ours
    /\ j.protocol = "compatibility-v1" => c.feature = Ours

VerifyRestoredRoute(c, j) ==
    /\ c.base = j.previous.base /\ ~c.marker /\ c.realtime = j.previous.realtime /\ c.hook = None
    /\ j.protocol = "compatibility-v1" => c.feature = j.previous.feature

VerifyManagedJournalState(c, j) ==
    IF j.active THEN VerifyInstalledRoute(c, j) ELSE VerifyRestoredRoute(c, j)

RestoreManagedRoute(c, j) ==
    [Blank EXCEPT !.base = j.previous.base, !.realtime = j.previous.realtime,
                  !.feature = IF j.protocol = "compatibility-v1" THEN j.previous.feature
                                                                 ELSE c.feature]

(* Explicit replacement gives back only what is still ours: what the user    *)
(* changed meanwhile is the new baseline.                                    *)
ReplacementBaseline(c, j) ==
    IF ~j.active
    THEN c
    ELSE [base     |-> IF c.base = Ours THEN j.previous.base ELSE c.base,
          realtime |-> IF c.realtime = Ours THEN j.previous.realtime ELSE c.realtime,
          marker   |-> FALSE,
          feature  |-> IF j.protocol = "compatibility-v1" /\ c.feature = Ours
                       THEN j.previous.feature ELSE c.feature,
          hook     |-> IF c.hook = Ours THEN None ELSE c.hook]
-----------------------------------------------------------------------------
(* readJournal: two copies, of which the recovery copy is written before the *)
(* configuration and the primary copy after it.  Copies that differ are told *)
(* apart by which of them describes the configuration.                       *)
JournalMatchesConfig(j) ==
    disk["config"] # None /\ VerifyManagedJournalState(disk["config"], j)

Unreadable ==
    LET p == disk["primary"]
        r == disk["recovery"]
    IN  /\ r # None /\ p # r
        /\ IF p = None THEN ~JournalMatchesConfig(r)
                       ELSE JournalMatchesConfig(p) <=> JournalMatchesConfig(r)

ReadJournal ==
    LET p == disk["primary"]
        r == disk["recovery"]
    IN  IF p # None /\ (r \in {None, p} \/ JournalMatchesConfig(p)) THEN p ELSE r

Repair(f)   == IF disk[f] = ReadJournal THEN <<>> ELSE << <<f, ReadJournal>> >>
RepairBatch == Repair("recovery") \o Repair("primary")
-----------------------------------------------------------------------------
(* The plans.  A write is <<file, content>>; a batch of writes is undone as  *)
(* a whole when one of them fails.                                           *)
Writes(j, text) ==
    << <<"recovery", j>>, <<"config", text>>, <<"primary", j>>, <<"cache", None>> >>

(* What an installation starts from: the user's own text, as far as the      *)
(* journal and the text allow it to be told.                                 *)
Baseline ==
    LET j == ReadJournal
    IN  CASE j = None                                    -> Text
          [] j # None /\ ~VerifyManagedJournalState(Text, j) ->
                 IF disk["config"] = None THEN Blank ELSE ReplacementBaseline(Text, j)
          [] j # None /\ VerifyManagedJournalState(Text, j)  ->
                 IF j.active THEN RestoreManagedRoute(Text, j) ELSE Text

InstallRefused(replace) ==
    \/ Unreadable
    \/ /\ ~replace
       /\ IF ReadJournal = None
          THEN Text.base # None \/ Text.realtime = User
          ELSE disk["config"] = None \/ ~VerifyManagedJournalState(Text, ReadJournal)
    \/ Baseline.hook # None

(* Mutant: the journal remembers the text that is there, not the restored one. *)
InstallBatchOfText(p) == Writes(JournalFor(Text, p), Routed(Text, p))

InstallBatch(p) == Writes(JournalFor(Baseline, p), Routed(Baseline, p))

(* The commands that need a journal whose state the text is in.              *)
Managed ==
    /\ ~Unreadable /\ ReadJournal # None /\ disk["config"] # None
    /\ VerifyManagedJournalState(Text, ReadJournal)

DisconnectBatch ==
    IF ReadJournal.active
    THEN Writes([ReadJournal EXCEPT !.active = FALSE], RestoreManagedRoute(Text, ReadJournal))
    ELSE <<>>

ConnectBatch == IF ReadJournal.active THEN <<>> ELSE InstallBatch(ReadJournal.protocol)

UninstallBatch ==
    << <<"config", IF ReadJournal.active THEN RestoreManagedRoute(Text, ReadJournal) ELSE Text>>,
       <<"cache", None>>, <<"primary", None>>, <<"recovery", None>> >>

(* The protocol a setup keeps: the journal's, then the saved one.            *)
SetupProtocol ==
    IF ReadJournal # None THEN ReadJournal.protocol
    ELSE IF disk["app"] # None THEN disk["app"].protocol ELSE "compatibility-v1"
-----------------------------------------------------------------------------
(* The process.                                                              *)
Batch(writes) == IF writes = <<>> THEN <<>> ELSE <<writes>>

Run(name, batches) ==
    job' = [name |-> name, batches |-> Batch(RepairBatch) \o batches, done |-> <<>>,
            undo |-> <<>>, before |-> disk, found |-> disk,
            repairing |-> RepairBatch # <<>>, failing |-> FALSE]

Refuse == exit' = "failed" /\ UNCHANGED job

(* A command that is refused by readJournal or by a check of the text ends   *)
(* without a write; one that ends well before its writes leaves the repairs  *)
(* of readJournal behind.                                                    *)
Command(name, allowed, batches) ==
    /\ job = None
    /\ IF allowed THEN Run(name, batches) /\ exit' = None ELSE Refuse
    /\ UNCHANGED <<disk, userVars, edits, faults, broken>>

Status     == Command("route", ~Unreadable, <<>>)
Disconnect == IF ~Unreadable /\ ReadJournal = None
              THEN Command("route", TRUE, <<>>)
              ELSE Command("route", Managed, Batch(DisconnectBatch))
Connect    == Command("route", Managed, Batch(ConnectBatch))

(* uninstall: the integration first, then the private data (--keep-data is   *)
(* left out).                                                                *)
Uninstall ==
    IF ~Unreadable /\ ReadJournal = None
    THEN Command("uninstall", TRUE, <<<< <<"app", None>> >>>>)
    ELSE Command("uninstall", Managed, <<UninstallBatch, << <<"app", None>> >>>>)

(* setCodexSubagentProtocol: the integration first, then the saved           *)
(* configuration.                                                            *)
Subagents(p) ==
    Command("subagents", Managed /\ ReadJournal.active /\ disk["app"] # None,
            <<InstallBatch(p), << <<"app", [disk["app"] EXCEPT !.protocol = p]>> >> >>)

(* setup: the saved configuration first, then the integration.               *)
Setup(mode, replace) ==
    Command("setup", ~InstallRefused(replace),
            << << <<"app", [protocol |-> SetupProtocol, mode |-> mode]>> >>,
               InstallBatch(SetupProtocol) >>)

Preflight(replace) == Command("route", ~InstallRefused(replace), <<>>)

(* setCodexSubagentProtocol has all its own writes in one try: what they     *)
(* began with is restored whichever of them fails.                           *)
Guarded == job.name = "subagents" /\ ~job.repairing

Put(f, content) == disk' = [disk EXCEPT ![f] = content]

Write ==
    /\ job # None /\ ~job.failing /\ job.batches # <<>>
    /\ LET batch == Head(job.batches)
       IN  /\ Put(batch[1][1], batch[1][2])
           /\ job' = IF Len(batch) > 1
                     THEN [job EXCEPT !.batches[1] = Tail(batch),
                                      !.done = Append(@, batch[1][1])]
                     ELSE [job EXCEPT !.batches = Tail(@), !.done = <<>>, !.repairing = FALSE,
                                      !.before = IF Guarded THEN @ ELSE disk',
                                      !.found = IF job.repairing THEN disk' ELSE @]
    /\ UNCHANGED <<exit, userVars, edits, faults, broken>>

(* One write fails: what its batch wrote is restored, newest first; where    *)
(* the protocol was being changed, a second pass restores every file, the    *)
(* only one when the saved configuration could not be written.               *)
WriteFails ==
    /\ job # None /\ ~job.failing /\ job.batches # <<>> /\ faults < MaxFaults
    /\ faults' = faults + 1
    /\ job' = [job EXCEPT !.failing = TRUE,
                          !.undo = Reverse(job.done)
                                   \o (IF Guarded
                                       THEN <<"recovery", "primary", "cache", "config", "app">>
                                       ELSE <<>>)]
    /\ UNCHANGED <<disk, exit, userVars, edits, broken>>

Undo ==
    /\ job # None /\ job.failing /\ job.undo # <<>>
    /\ Put(Head(job.undo), job.before[Head(job.undo)])
    /\ job' = [job EXCEPT !.undo = Tail(@)]
    /\ UNCHANGED <<exit, userVars, edits, faults, broken>>

UndoFails ==
    /\ job # None /\ job.failing /\ job.undo # <<>> /\ faults < MaxFaults
    /\ disk[Head(job.undo)] # job.before[Head(job.undo)]
    /\ faults' = faults + 1 /\ broken' = broken \cup {"undo"}
    /\ job' = [job EXCEPT !.undo = Tail(@)]
    /\ UNCHANGED <<disk, exit, userVars, edits>>

Ends ==
    /\ job # None
    /\ IF job.failing THEN job.undo = <<>> ELSE job.batches = <<>>
    /\ exit' = IF job.failing THEN "failed" ELSE "ok"
    /\ job' = None
    /\ UNCHANGED <<disk, userVars, edits, faults, broken>>

(* Journals of the native protocol beside feature lines that were installed: *)
(* nothing remembers the user's.                                             *)
Split(d) ==
    /\ d["primary"] # None /\ d["recovery"] = d["primary"] /\ d["primary"].protocol = "native"
    /\ d["config"] # None /\ d["config"].feature = Ours

(* The process dies, or is killed when its time is over.                     *)
Dies ==
    /\ job # None /\ faults < MaxFaults
    /\ job' = None /\ exit' = "failed"
    /\ faults' = faults + 1
    /\ broken' = broken \cup {"death"} \cup (IF Split(disk) THEN {"split"} ELSE {})
    /\ UNCHANGED <<disk, userVars, edits>>

ProcessStep == Write \/ WriteFails \/ Undo \/ UndoFails \/ Ends \/ Dies
-----------------------------------------------------------------------------
(* The user, between commands: other values for the managed lines, a removed *)
(* or changed hook or marker, no file at all.                                *)
Edit(c, mine) ==
    /\ job = None /\ edits < MaxEdits /\ c # disk["config"]
    /\ Put("config", c) /\ own' = mine /\ edits' = edits + 1
    /\ UNCHANGED <<ambiguous, job, exit, faults, broken>>

UserEdits ==
    \/ \E u \in Urls \cup {None} : Edit([Text EXCEPT !.base = u], [own EXCEPT !.base = u])
    \/ \E v \in {None, User} : Edit([Text EXCEPT !.realtime = v], [own EXCEPT !.realtime = v])
    \/ \E v \in {None, User} : Edit([Text EXCEPT !.feature = v], [own EXCEPT !.feature = v])
    \/ Text.hook = Ours /\ \E v \in {None, Edited} : Edit([Text EXCEPT !.hook = v], own)
    \/ Text.marker /\ Edit([Text EXCEPT !.marker = FALSE], own)
    \/ Edit(None, Blank)

(* Codex caches the models of the route it finds.                            *)
RouteOf(c) == IF c.base = Ours THEN "bridge" ELSE "own"
CodexReads ==
    /\ job = None /\ disk["cache"] = None
    /\ Put("cache", RouteOf(Text))
    /\ UNCHANGED <<job, exit, userVars, edits, faults, broken>>

IntegrationInit ==
    /\ own \in FirstLines /\ ambiguous = (own.realtime = Ours)
    /\ disk = [f \in Files |-> IF f = "config" THEN own ELSE None]
    /\ job = None /\ exit = None
    /\ edits = 0 /\ faults = 0 /\ broken = {}
=============================================================================
