------------------------------ MODULE BrowserTabs ------------------------------
(***************************************************************************)
(* The automatic tabs of the Launcher's browser host                        *)
(* (launcher/electron/browser-host.cjs) and the turns that lease them: the   *)
(* control channel of control-server.cjs, its client notifyLauncherTurn      *)
(* (src/launcher-browser-host.ts) and runExclusive of the browser worker.    *)
(*                                                                          *)
(* A turn's trace leases a tab for the helper process that drives it.  A      *)
(* start may be given up by its sender, an end may be lost or handled late, a *)
(* helper may die, the user may close the tab, the page may fail and the      *)
(* machine may sleep; the host takes back what nobody holds any more.        *)
(*                                                                          *)
(* A request is handled when it is sent, unless it is lost or late.  A start  *)
(* that comes late is one whose sender gave up before the answer.            *)
(*                                                                          *)
(* A definition under the comment "mutant" is a broken version of the one   *)
(* that follows it; no specification uses it.                               *)
(***************************************************************************)
EXTENDS Naturals, FiniteSets

CONSTANTS
    Traces,     \* trace ids of turns; fewer than MAX_CANCELLED_TURN_TRACES
    Helpers,    \* browser helper processes, named by their pids
    TabIds,     \* ids of tabs: as many as the host may have
    MaxTabs,    \* MAX_BROWSER_TABS
    keyOf,      \* the retained conversation of a trace, or None
    None        \* no tab, no helper, no conversation

ASSUME MaxTabsAssumption == MaxTabs \in Nat \ {0}
ASSUME KeysAssumption    == DOMAIN keyOf = Traces

VARIABLES
    tabs,         \* turnTabs: the tab of an id, or None
    userCancelled, \* userCancelledTurnOwners: the traces the user closed
    closing,      \* closeTab calls that await cancelTurn: the trace they cancel
    operation,    \* manualOperation is set: a mode change or a use of the home surface
    mode,         \* the interaction mode, "automatic" or "manual"
    descriptor,   \* the tabs the published descriptor advertises
    blocker,      \* whether the power-save blocker is held
    call,         \* where the worker of a trace stands
    lateEnd,      \* an end whose sender no longer waits, or None
    alive,        \* the helper processes that run
    overslept,    \* whether the next sweep finds a gap
    erred         \* history: the traces that have had a tab in error since they
                  \* last had no tab

hostVars   == <<tabs, userCancelled, closing, operation, mode, descriptor, blocker>>
clientVars == <<call, lateEnd, alive>>
vars       == <<hostVars, clientVars, overslept, erred>>

(* status: "ready" is retained.  attaching: the view has not loaded its first  *)
(* document and createTurnTab awaits it.  late: the clock that decides has    *)
(* run out, which is the bootstrap deadline of a running tab until            *)
(* chatgpt.com has loaded in it and the age of its last heartbeat after that, *)
(* and of a ready tab its retention.  older: the tabs that are open and were  *)
(* opened before it, which is the order the Map turnTabs lists them in.       *)
Tab == [status : {"running", "ready", "error"}, trace : Traces, helper : Helpers,
        key : {keyOf[t] : t \in Traces}, attaching : BOOLEAN, late : BOOLEAN,
        older : SUBSET TabIds]

EndRequest == [trace : Traces, helper : Helpers]

ASSUME NoneAssumption == None \notin Traces \cup Helpers \cup TabIds \cup Tab

TypeOK ==
    /\ tabs \in [TabIds -> Tab \cup {None}]
    /\ userCancelled \subseteq Traces
    /\ closing \in [TabIds -> Traces \cup {None}]
    /\ operation \in BOOLEAN
    /\ mode \in {"automatic", "manual"}
    /\ descriptor \subseteq TabIds
    /\ blocker \in BOOLEAN
    /\ call \in [Traces -> [at : {"idle", "starting", "leased"},
                            helper : Helpers \cup {None}]]
    /\ lateEnd \in EndRequest \cup {None}
    /\ alive \subseteq Helpers
    /\ overslept \in BOOLEAN
    /\ erred \subseteq Traces

Open        == {i \in TabIds : tabs[i] # None}
Running(ts) == {i \in TabIds : ts[i] # None /\ ts[i].status = "running"}
OfTrace(t)  == {i \in Open : tabs[i].trace = t}
Failed(ts)  == {i \in TabIds : ts[i] # None /\ ts[i].status = "error"}
Retained(k) == {i \in Open : tabs[i].status = "ready" /\ tabs[i].key = k}

(* find: the first tab of a trace in the order of the Map, whatever its state. *)
First(t) == {i \in OfTrace(t) : \A j \in OfTrace(t) \ {i} : j \notin tabs[i].older}

Init ==
    /\ tabs = [i \in TabIds |-> None]
    /\ userCancelled = {} /\ closing = [i \in TabIds |-> None]
    /\ operation = FALSE /\ mode = "automatic"
    /\ descriptor = {} /\ blocker = FALSE
    /\ call = [t \in Traces |-> [at |-> "idle", helper |-> None]]
    /\ lateEnd = None /\ alive = Helpers
    /\ overslept = FALSE /\ erred = {}
-----------------------------------------------------------------------------
(* What the host's operations share.                                         *)

(* writeDescriptor: in Zero Risk mode no surface is advertised. *)
Advertise(ts) == descriptor' = IF mode = "automatic" THEN {i \in TabIds : ts[i] # None} ELSE {}

(* syncPowerSaveBlocker. *)
SyncBlocker(ts) == blocker' = (Running(ts) # {})

(* The tabs without those in gone. *)
Without(gone) ==
    [i \in TabIds |-> IF i \in gone \/ tabs[i] = None THEN None
                     ELSE [tabs[i] EXCEPT !.older = tabs[i].older \ gone]]

(* removeTurnTab of the tabs in gone.  closedTurnOwners, which only chooses   *)
(* the words of a later answer to their helpers, is not modelled.            *)
Remove(gone) ==
    /\ tabs' = Without(gone)
    /\ SyncBlocker(tabs')
    /\ IF gone = {} THEN UNCHANGED descriptor ELSE Advertise(tabs')

(* The worker of a trace that still waits for its start hears of the tab. *)
Reply(i, to) ==
    LET t == tabs[i].trace
    IN  call' = IF call[t].at = "starting" /\ call[t].helper = tabs[i].helper
                THEN [call EXCEPT ![t] = to] ELSE call

Idle          == [at |-> "idle", helper |-> None]
Starting(h)   == [at |-> "starting", helper |-> h]
Leased(h)     == [at |-> "leased", helper |-> h]

NewTab(t, h, older) == [status |-> "running", trace |-> t, helper |-> h, key |-> keyOf[t],
                        attaching |-> TRUE, late |-> FALSE, older |-> older]

(* An id that is not open and that no closeTab call remembers. *)
FreshIds(gone) == {i \in TabIds : (tabs[i] = None \/ i \in gone) /\ closing[i] = None}
-----------------------------------------------------------------------------
(* beginTurn.                                                                *)

(* retainedMatches: the tabs kept for the conversation of a trace. *)
Kept(t) == IF keyOf[t] = None THEN {} ELSE Retained(keyOf[t])

(* mutant: a repeated start does not look for the tab it has already opened *)
CandidatesKeptOnly(t) == Kept(t)

(* The tab a start continues in: the first one of its trace if it is running, *)
(* otherwise the one its conversation was retained in.                       *)
Candidates(t) == IF First(t) \cap Running(tabs) # {} THEN First(t) ELSE Kept(t)

(* mutant: a live owner loses its turn *)
StartAllowedRude(t, h) ==
    /\ mode = "automatic" /\ ~operation /\ t \notin userCancelled
    /\ \A i, j \in Kept(t) : i = j
    /\ \A i \in First(t) : tabs[i].status = "ready" => i \in Kept(t)

StartAllowed(t, h) ==
    /\ mode = "automatic" /\ ~operation /\ t \notin userCancelled
    /\ \A i, j \in Kept(t) : i = j
    /\ \A i \in First(t) : tabs[i].status = "ready" => i \in Kept(t)
    /\ \A i \in Candidates(t) \cap Running(tabs) : tabs[i].helper = h \/ tabs[i].helper \notin alive

(* evictOldestReclaimableTurnTab: room is made by dropping a retained tab.   *)
(* Which one is the oldest is not modelled.                                  *)
Reclaimable == IF Cardinality(Open) < MaxTabs THEN {{}}
               ELSE {{i} : i \in {j \in Open : tabs[j].status = "ready"}}

(* runExclusive asks for a tab; the adapter serializes the turns of one       *)
(* conversation.  A start that is refused changes nothing.                   *)
Asks(t, h) ==
    /\ call[t].at = "idle" /\ h \in alive
    /\ \A u \in Traces \ {t} : keyOf[u] = keyOf[t] /\ keyOf[t] # None => call[u].at = "idle"
    /\ StartAllowed(t, h)

StartReuses(t, h) ==
    /\ Asks(t, h)
    /\ \E i \in Candidates(t) :
           tabs' = [tabs EXCEPT ![i].trace = t, ![i].helper = h, ![i].status = "running",
                                ![i].late = FALSE]
    /\ call' = [call EXCEPT ![t] = Leased(h)]
    /\ Advertise(tabs')
    /\ UNCHANGED <<userCancelled, closing, operation, mode, blocker, lateEnd, alive, overslept>>

(* createTurnTab registers the tab before it awaits the first document.  A   *)
(* turn that requires its retained conversation is refused instead.          *)
StartCreates(t, h) ==
    /\ Asks(t, h) /\ Candidates(t) = {}
    /\ \E gone \in Reclaimable :
           /\ FreshIds(gone) # {}
           /\ tabs' = [Without(gone) EXCEPT ![CHOOSE f \in FreshIds(gone) : TRUE] =
                                                NewTab(t, h, Open \ gone)]
           /\ IF gone = {} THEN UNCHANGED descriptor ELSE Advertise(Without(gone))
    /\ SyncBlocker(tabs')
    /\ call' = [call EXCEPT ![t] = Starting(h)]
    /\ UNCHANGED <<userCancelled, closing, operation, mode, lateEnd, alive, overslept>>

TabAttached(i) ==
    /\ i \in Open /\ tabs[i].attaching
    /\ tabs' = [tabs EXCEPT ![i].attaching = FALSE]
    /\ Reply(i, Leased(tabs[i].helper))
    /\ Advertise(tabs')
    /\ UNCHANGED <<userCancelled, closing, operation, mode, blocker,
                   lateEnd, alive, overslept>>

(* loadCommittedBrowserSurface or markTurnTabSurface fails; the view may     *)
(* also have been removed meanwhile, and then only the start fails.          *)
AttachFails(i) ==
    /\ i \in Open /\ tabs[i].attaching
    /\ Remove({i})
    /\ Reply(i, Idle)
    /\ UNCHANGED <<userCancelled, closing, operation, mode, lateEnd, alive, overslept>>
-----------------------------------------------------------------------------
(* Heartbeats, the page, and the end of a turn.                              *)

Heartbeat(t, i) ==
    /\ call[t].at = "leased" /\ call[t].helper \in alive
    /\ i \in First(t) /\ tabs[i].helper = call[t].helper /\ tabs[i].status = "running"
    /\ tabs' = [tabs EXCEPT ![i].late = FALSE]
    /\ UNCHANGED <<userCancelled, closing, operation, mode, descriptor, blocker,
                   clientVars, overslept>>

(* The document could not be marked as owned. *)
MarkFails(i) ==
    /\ i \in Open /\ ~tabs[i].attaching /\ mode = "automatic"
    /\ tabs' = [tabs EXCEPT ![i].status = "error"]
    /\ SyncBlocker(tabs')
    /\ UNCHANGED <<userCancelled, closing, operation, mode, descriptor,
                   clientVars, overslept>>

(* did-fail-load or render-process-gone. *)
PageGone(i) ==
    /\ i \in Open
    /\ Remove({i})
    /\ UNCHANGED <<userCancelled, closing, operation, mode, clientVars, overslept>>

(* endTurn: a completed turn whose connector was bound may leave its tab to   *)
(* the conversation; otherwise the tab is released.  The end of a turn whose *)
(* tab is gone or belongs to another helper only gets an answer.             *)
EndTurn(e, retain) ==
    IF First(e.trace) = {} THEN UNCHANGED <<tabs, descriptor, blocker>>
    ELSE \E i \in First(e.trace) :
             IF tabs[i].helper # e.helper THEN UNCHANGED <<tabs, descriptor, blocker>>
             ELSE IF retain
             THEN LET ts == [tabs EXCEPT ![i].status = "ready", ![i].late = FALSE]
                  IN  tabs' = ts /\ SyncBlocker(ts) /\ Advertise(ts)
             ELSE Remove({i})

(* What the worker of t reports; for a helper that died, handleExit of       *)
(* launcher-helper-client.ts reports the failure.                            *)
EndOf(t)         == [trace |-> t, helper |-> call[t].helper]
MayRetain(t)     == IF keyOf[t] = None THEN {FALSE} ELSE BOOLEAN

Ends(t) ==
    /\ call[t].at = "leased"
    /\ \E retain \in MayRetain(t) : (retain => call[t].helper \in alive) /\ EndTurn(EndOf(t), retain)
    /\ call' = [call EXCEPT ![t] = Idle]
    /\ UNCHANGED <<userCancelled, closing, operation, mode, lateEnd, alive, overslept>>

(* The request of a live worker outlives its sender's patience. *)
EndIsLate(t) ==
    /\ call[t].at = "leased" /\ call[t].helper \in alive /\ lateEnd = None
    /\ lateEnd' = EndOf(t)
    /\ call' = [call EXCEPT ![t] = Idle]
    /\ UNCHANGED <<hostVars, alive, overslept>>

LateEndArrives ==
    /\ lateEnd # None
    /\ \E retain \in MayRetain(lateEnd.trace) : EndTurn(lateEnd, retain)
    /\ lateEnd' = None
    /\ UNCHANGED <<userCancelled, closing, operation, mode, call, alive, overslept>>

(* The start timed out, its answer was lost, or the end never arrived: the    *)
(* worker holds nothing and the host does not know.                          *)
GivesUp(t) ==
    /\ call[t].at # "idle"
    /\ call' = [call EXCEPT ![t] = Idle]
    /\ UNCHANGED <<hostVars, lateEnd, alive, overslept>>

HelperDies(h) ==
    /\ h \in alive
    /\ alive' = alive \ {h}
    /\ UNCHANGED <<hostVars, call, lateEnd, overslept>>
-----------------------------------------------------------------------------
(* The user and the rest of the Launcher.                                    *)

(* closeTab of a running tab: it cancels the turn and waits.  One call at a   *)
(* time is modelled.                                                         *)
CloseRunning(i) ==
    /\ i \in Running(tabs) /\ \A j \in TabIds : closing[j] = None
    /\ userCancelled' = userCancelled \cup {tabs[i].trace}
    /\ closing' = [closing EXCEPT ![i] = tabs[i].trace]
    /\ UNCHANGED <<tabs, operation, mode, descriptor, blocker, clientVars, overslept>>

CloseIdle(i) ==
    /\ i \in Open \ Running(tabs)
    /\ Remove({i})
    /\ UNCHANGED <<userCancelled, closing, operation, mode, clientVars, overslept>>

(* The runtime has acknowledged the cancellation: what still is under the id *)
(* is removed.                                                               *)
CloseAcknowledged(i) ==
    /\ closing[i] # None
    /\ closing' = [closing EXCEPT ![i] = None]
    /\ IF tabs[i] # None THEN Remove({i})
       ELSE UNCHANGED <<tabs, descriptor, blocker>>
    /\ UNCHANGED <<userCancelled, operation, mode, clientVars, overslept>>

(* cancelBrowserTurn throws: the document is kept. *)
CloseFails(i) ==
    /\ closing[i] # None
    /\ closing' = [closing EXCEPT ![i] = None]
    /\ UNCHANGED <<tabs, userCancelled, operation, mode, descriptor, blocker,
                   clientVars, overslept>>

(* releaseRetainedConversation: the adapter gives a conversation up. *)
ReleaseConversation(k) ==
    /\ k # None /\ Retained(k) # {}
    /\ Remove(Retained(k))
    /\ UNCHANGED <<userCancelled, closing, operation, mode, clientVars, overslept>>

(* withInteractionModeChange, and withManualOperation for login, logout,     *)
(* inspection, the smoke test and connector verification.                    *)
OperationStarts ==
    /\ ~operation /\ Running(tabs) = {} /\ operation' = TRUE
    /\ UNCHANGED <<tabs, userCancelled, closing, mode, descriptor, blocker,
                   clientVars, overslept>>

(* A passkey import or a logout clears the session and every tab with it     *)
(* (clearOwnedSessionForPasskey); other operations leave the tabs, and a     *)
(* change of mode commits the other mode or rolls it back.                   *)
OperationEnds ==
    /\ operation /\ operation' = FALSE
    /\ \/ mode = "automatic" /\ Remove(Open) /\ UNCHANGED mode
       \/ mode' \in {"automatic", "manual"} /\ UNCHANGED <<tabs, descriptor, blocker>>
    /\ UNCHANGED <<userCancelled, closing, clientVars, overslept>>
-----------------------------------------------------------------------------
(* Time: the sweep of every TURN_HEARTBEAT_SWEEP_MS.                         *)

(* A deadline passes, the retention of a ready tab too. *)
Lapse(i) ==
    /\ i \in Open /\ ~tabs[i].late /\ tabs[i].status # "error"
    /\ tabs' = [tabs EXCEPT ![i].late = TRUE]
    /\ UNCHANGED <<userCancelled, closing, operation, mode, descriptor, blocker,
                   clientVars, overslept>>

Sleep ==
    /\ ~overslept /\ overslept' = TRUE
    /\ tabs' = [i \in TabIds |-> IF tabs[i] = None THEN None
                                 ELSE [tabs[i] EXCEPT !.late = TRUE]]
    /\ UNCHANGED <<userCancelled, closing, operation, mode, descriptor, blocker,
                   clientVars>>

(* refreshTurnLeases: after a sweep gap, or when the system resumes. *)
Rebaselined == [i \in TabIds |-> IF i \in Running(tabs)
                                 THEN [tabs[i] EXCEPT !.late = FALSE] ELSE tabs[i]]

SystemResumes ==
    /\ overslept
    /\ tabs' = Rebaselined
    /\ UNCHANGED <<userCancelled, closing, operation, mode, descriptor, blocker,
                   clientVars, overslept>>

Expired == {i \in Open : tabs[i].late /\ tabs[i].status # "error"}

Sweep ==
    /\ (Expired # {} \/ overslept)
    /\ overslept' = FALSE
    /\ IF overslept THEN tabs' = Rebaselined /\ UNCHANGED <<descriptor, blocker>>
       ELSE Remove(Expired)
    /\ UNCHANGED <<userCancelled, closing, operation, mode, clientVars>>
-----------------------------------------------------------------------------
(* The history variable: a trace stays in erred while it has a tab.          *)
TracksErrors ==
    LET open   == {tabs'[i].trace : i \in Open'}
        failed == {tabs'[i].trace : i \in Failed(tabs')}
    IN  erred' = (erred \cup failed) \cap open

HostStep ==
    \/ \E t \in Traces : \/ \E h \in Helpers : StartReuses(t, h) \/ StartCreates(t, h)
                         \/ \E i \in TabIds : Heartbeat(t, i)
                         \/ Ends(t) \/ EndIsLate(t) \/ GivesUp(t)
                         \/ ReleaseConversation(keyOf[t])
    \/ \E i \in TabIds : \/ TabAttached(i) \/ AttachFails(i) \/ MarkFails(i)
                         \/ PageGone(i) \/ CloseRunning(i) \/ CloseIdle(i)
                         \/ CloseAcknowledged(i) \/ CloseFails(i) \/ Lapse(i)
    \/ OperationStarts \/ OperationEnds
    \/ Sleep \/ SystemResumes \/ Sweep
    \/ LateEndArrives
    \/ \E h \in Helpers : HelperDies(h)

Next == HostStep /\ TracksErrors

Spec == Init /\ [][Next]_vars
-----------------------------------------------------------------------------
(* However requests are repeated, lost and handled late, beginTurn opens no   *)
(* second tab for a trace, so its turn has one running document, unless a tab *)
(* of the trace has failed: beginTurn then does not see the tabs behind it   *)
(* and may leave two running documents of one trace.                         *)
OneTabPerTrace ==
    /\ \A i \in Failed(tabs) : tabs[i].trace \in erred
    /\ \A i, j \in Open : tabs[i].trace = tabs[j].trace => i = j \/ tabs[i].trace \in erred

(* A worker that was given a surface can find it: a running tab that its     *)
(* worker holds is in the descriptor the worker connects through.            *)
LeasedIsAdvertised ==
    \A t \in Traces, i \in TabIds :
        /\ call[t].at = "leased" /\ i \in OfTrace(t) \cap Running(tabs) /\ ~tabs[i].attaching
        => i \in descriptor

(* While the home surface is busy or Zero Risk is on, no turn runs in a tab. *)
OperationsExcludeTurns == (operation \/ mode = "manual") => Running(tabs) = {}

(* The machine is kept awake only for a running turn (shouldBlockSleepForTurns). *)
BlockerHasTurn == blocker => Running(tabs) # {}

(* The tabs and what is derived from them agree, whatever request, timer,    *)
(* page event or operation of the user came in between (beginTurn, endTurn,  *)
(* closeTab, the sweep, withManualOperation).                                *)
TabsHold ==
    /\ TypeOK
    /\ OneTabPerTrace
    /\ LeasedIsAdvertised
    /\ OperationsExcludeTurns
    /\ BlockerHasTurn

(* A live worker's running tab is never taken by another helper, and a turn  *)
(* the user closed never gets a tab again (beginTurn).                       *)
LeasesHold ==
    [][/\ \A i \in Running(tabs) : i \in Running(tabs)' /\ tabs[i].helper \in alive
                                     => tabs'[i].helper = tabs[i].helper
       /\ \A t \in Traces : t \in userCancelled /\ OfTrace(t) = {} => OfTrace(t)' = {}]_vars
===============================================================================
