------------------------------ MODULE ManualTurns ------------------------------
(***************************************************************************)
(* Zero Risk turns: the tabs in which a human pastes and sends the prompt     *)
(* (beginManualTurn to cancelManualTurn of launcher/electron/browser-host.cjs)*)
(* and runManual of src/adapters/chatgpt-web/index.ts, which drives such a    *)
(* turn over the control channel and hears of it by long polls.              *)
(*                                                                          *)
(* A request that changes the host's state is sent again, once and unchanged, *)
(* when its answer is lost.  The human confirms, closes and navigates when    *)
(* he likes; the daemon that owns a turn may die.                            *)
(*                                                                          *)
(* A definition under the comment "mutant" is a broken version of the one   *)
(* that follows it; no specification uses it.                              *)
(***************************************************************************)
EXTENDS Naturals, FiniteSets

CONSTANTS
    ManualTraces,   \* trace ids of turns of one conversation; fewer of them than
                    \* MAX_MANUAL_TERMINAL_SIGNALS, so that no signal is forgotten
    Owners,         \* daemon processes, named by their pids
    ManualTabIds,   \* the tabs there may be: MAX_BROWSER_TABS
    Nothing         \* no tab, no owner, no signal

VARIABLES
    manualTabs,     \* turnTabs: the manual tab of an id, or Nothing
    terminal,       \* manualTerminalSignals
    completion,     \* manualCompletionSignals: the owner that completed a trace
    manualClosing,  \* the tab whose closeTab call awaits cancelTurn, or Nothing
    worker,         \* where runManual of a trace stands
    latest,         \* the trace of the turn that began last, or Nothing
    daemons         \* the daemons that run

manualHostVars == <<manualTabs, terminal, completion, manualClosing>>
manualVars     == <<manualHostVars, worker, latest, daemons>>

(* keyed: the tab still has its conversationKey.  fresh: its promptDigest is  *)
(* that of the prompt its worker sends, which names the turn's token.         *)
(* reused: manualConversationReused.  armed: the manualDeadlineTimer.         *)
(* polled: a long poll of the tab's turn is in manualWaiters or, once it was  *)
(* sent, in manualTerminalWaiters.  What an earlier turn left in the latter   *)
(* is answered to nobody and is left out.                                    *)
States == {"awaiting-user", "sent", "running", "completed", "timed-out", "failed", "cancelled"}
ManualTab ==
    [status : {"running", "ready", "error"}, trace : ManualTraces, owner : Owners, state : States,
     keyed : BOOLEAN, fresh : BOOLEAN, reused : BOOLEAN, armed : BOOLEAN, polled : BOOLEAN]
Signal == [owner : Owners, status : {"timeout", "cancelled", "failed"}]

ASSUME NothingAssumption == Nothing \notin Owners \cup ManualTabIds \cup ManualTab \cup Signal

(* retried: the first answer to the request was lost. *)
Stages == {"over", "starting", "waiting", "sent", "started", "completing", "ending"}
Worker == [at : Stages, owner : Owners \cup {Nothing}, retried : BOOLEAN]

ManualTypeOK ==
    /\ manualTabs \in [ManualTabIds -> ManualTab \cup {Nothing}]
    /\ terminal \in [ManualTraces -> Signal \cup {Nothing}]
    /\ completion \in [ManualTraces -> Owners \cup {Nothing}]
    /\ manualClosing \in ManualTabIds \cup {Nothing}
    /\ worker \in [ManualTraces -> Worker]
    /\ latest \in ManualTraces \cup {Nothing}
    /\ daemons \subseteq Owners

OpenTabs     == {i \in ManualTabIds : manualTabs[i] # Nothing}
TabsOf(t)    == {i \in OpenTabs : manualTabs[i].trace = t}
Owned(t, o)  == {i \in TabsOf(t) : manualTabs[i].owner = o}
Mine(t)      == Owned(t, worker[t].owner)
MyTerminal(t) == terminal[t] # Nothing /\ terminal[t].owner = worker[t].owner
Ended(t)     == terminal[t].status

At(t, stages) == worker[t].at \in stages
Step(t, stage) == [worker EXCEPT ![t].at = stage, ![t].retried = FALSE]

ManualInit ==
    /\ manualTabs = [i \in ManualTabIds |-> Nothing]
    /\ terminal = [t \in ManualTraces |-> Nothing] /\ completion = [t \in ManualTraces |-> Nothing]
    /\ manualClosing = Nothing
    /\ worker = [t \in ManualTraces |-> [at |-> "over", owner |-> Nothing, retried |-> FALSE]]
    /\ latest = Nothing /\ daemons = Owners
-----------------------------------------------------------------------------
(* What ends a turn.                                                         *)

StateOf(status) == IF status = "timeout" THEN "timed-out" ELSE status

(* signalManualTerminal: every poll on the tab is answered. *)
Signalled(i, status) ==
    [manualTabs EXCEPT ![i].state = StateOf(status), ![i].armed = FALSE,
                 ![i].polled = FALSE]
Remember(i, status) ==
    terminal' = [terminal EXCEPT ![manualTabs[i].trace] =
                     [owner |-> manualTabs[i].owner, status |-> status]]

(* The worker whose poll is answered goes on. *)
Told(i, stage) ==
    LET t == manualTabs[i].trace
    IN  worker' = IF manualTabs[i].polled /\ worker[t].owner = manualTabs[i].owner
                     /\ worker[t].at \in {"waiting", "sent", "started"}
                  THEN Step(t, stage) ELSE worker

(* signalManualTerminal and removeTurnTab together. *)
FailAndRemove(i) ==
    /\ Remember(i, "failed")
    /\ manualTabs' = [manualTabs EXCEPT ![i] = Nothing]
    /\ Told(i, "ending")
-----------------------------------------------------------------------------
(* beginManualTurn.                                                          *)

(* Zero Risk turns of one conversation follow each other; the worker of a     *)
(* turn is over when its daemon is.  Only the last turn is tried again.      *)
Begins(t, o) ==
    /\ o \in daemons
    /\ \A u \in ManualTraces : worker[u].at = "over"
    /\ t = latest \/ worker[t].owner = Nothing
    /\ latest' = t
    /\ worker' = [worker EXCEPT ![t] = [at |-> "starting", owner |-> o, retried |-> FALSE]]
    /\ manualTabs' = [i \in ManualTabIds |-> IF i \in TabsOf(t) THEN [manualTabs[i] EXCEPT !.fresh = FALSE]
                                 ELSE manualTabs[i]]
    /\ UNCHANGED <<terminal, completion, manualClosing, daemons>>

(* A completed turn is refused to everyone, a terminal one to its owner. *)
Refused(t) == completion[t] # Nothing \/ MyTerminal(t)

(* The answer reaches the worker, or is lost; a second loss is the end: after *)
(* a start, runManual believes that nothing has started and ends nothing.    *)
Acknowledged(t, stage) ==
    \/ worker' = Step(t, stage)
    \/ ~worker[t].retried /\ worker' = [worker EXCEPT ![t].retried = TRUE]
    \/ worker[t].retried /\ worker' = Step(t, "over")

StartRefused(t) ==
    /\ At(t, {"starting"})
    /\ Refused(t) \/ \E i \in Mine(t) : ~manualTabs[i].fresh
    /\ worker' = Step(t, "over")
    /\ UNCHANGED <<manualHostVars, latest, daemons>>

(* The tab of the trace is found: the retry of a start that was handled.     *)
StartFound(t) ==
    /\ At(t, {"starting"}) /\ ~Refused(t) /\ \E i \in Mine(t) : manualTabs[i].fresh
    /\ Acknowledged(t, "waiting")
    /\ UNCHANGED <<manualHostVars, latest, daemons>>

(* Another daemon's: refused while that one lives, otherwise the turn is lost. *)
StartForeign(t) ==
    /\ At(t, {"starting"}) /\ ~Refused(t) /\ Mine(t) = {}
    /\ \E i \in TabsOf(t) :
        IF manualTabs[i].owner \in daemons THEN UNCHANGED <<manualTabs, terminal>>
        ELSE /\ manualTabs' = [manualTabs EXCEPT ![i] = Nothing]
             /\ terminal' = [terminal EXCEPT ![t] = [owner |-> worker[t].owner, status |-> "failed"]]
    /\ worker' = Step(t, "over")
    /\ UNCHANGED <<completion, manualClosing, latest, daemons>>

RetainedTabs == {i \in OpenTabs : manualTabs[i].status = "ready" /\ manualTabs[i].keyed}

NewManualTab(t, reused) ==
    [status |-> "running", trace |-> t, owner |-> worker[t].owner, state |-> "awaiting-user",
     keyed |-> TRUE, fresh |-> TRUE, reused |-> reused, armed |-> TRUE, polled |-> FALSE]

(* The human's clipboard gets the incremental prompt. *)
ManualStartReuses(t) ==
    /\ At(t, {"starting"}) /\ ~Refused(t) /\ TabsOf(t) = {} /\ Cardinality(RetainedTabs) = 1
    /\ \E i \in RetainedTabs :
        manualTabs' = [manualTabs EXCEPT ![i] = NewManualTab(t, TRUE)]
    /\ Acknowledged(t, "waiting")
    /\ UNCHANGED <<terminal, completion, manualClosing, latest, daemons>>

Dead(i) == manualTabs[i].status = "error" /\ manualTabs[i].state \in {"timed-out", "failed", "cancelled"}

(* evictOldestReclaimableTurnTab takes a terminal tab before a retained one; *)
(* which of them is the oldest is not modelled.                              *)
Places ==
    LET free == ManualTabIds \ OpenTabs
        dead == {i \in OpenTabs : Dead(i)}
    IN  IF free # {} THEN {CHOOSE i \in free : TRUE}
        ELSE IF dead # {} THEN dead ELSE {i \in OpenTabs : manualTabs[i].status = "ready"}

NothingToReuse(t) == TabsOf(t) = {} /\ RetainedTabs = {}

ManualStartCreates(t) ==
    /\ At(t, {"starting"}) /\ ~Refused(t) /\ NothingToReuse(t)
    /\ \E i \in Places :
        /\ manualTabs' = [manualTabs EXCEPT ![i] = NewManualTab(t, FALSE)]
        /\ manualClosing # i
    /\ Acknowledged(t, "waiting")
    /\ UNCHANGED <<terminal, completion, manualClosing, latest, daemons>>

(* No room, two tabs of the conversation, or no clipboard: the new tab is     *)
(* taken back.                                                               *)
StartFails(t) ==
    /\ At(t, {"starting"}) /\ ~Refused(t) /\ TabsOf(t) = {}
    /\ \/ UNCHANGED terminal
       \/ /\ NothingToReuse(t) /\ Places # {}
          /\ terminal' = [terminal EXCEPT ![t] = [owner |-> worker[t].owner, status |-> "failed"]]
    /\ worker' = Step(t, "over")
    /\ UNCHANGED <<manualTabs, completion, manualClosing, latest, daemons>>
-----------------------------------------------------------------------------
(* waitManualSent and waitManualTerminal.                                    *)

(* What a poll answers at once sends runManual on, or into its catch block.   *)
(* A poll that finds neither a tab nor a signal fails it too.                *)
AskSent(t) ==
    /\ At(t, {"waiting"})
    /\ \/ \E i \in Mine(t) :
            \/ /\ manualTabs[i].state = "awaiting-user" /\ ~manualTabs[i].polled
               /\ manualTabs' = [manualTabs EXCEPT ![i].polled = TRUE] /\ UNCHANGED worker
            \/ /\ manualTabs[i].state \in {"sent", "running", "completed"}
               /\ worker' = Step(t, "sent") /\ UNCHANGED manualTabs
            \/ /\ manualTabs[i].state \in {"timed-out", "failed", "cancelled"}
               /\ worker' = Step(t, "ending") /\ UNCHANGED manualTabs
       \/ /\ Mine(t) = {}
          /\ worker' = Step(t, "ending") /\ UNCHANGED manualTabs
    /\ UNCHANGED <<terminal, completion, manualClosing, latest, daemons>>

Watch(t) ==
    /\ At(t, {"sent", "started"})
    /\ \/ /\ MyTerminal(t) \/ Mine(t) = {}
          /\ worker' = Step(t, "ending") /\ UNCHANGED manualTabs
       \/ /\ ~MyTerminal(t)
          /\ \E i \in Mine(t) : /\ ~manualTabs[i].polled
                                /\ manualTabs' = [manualTabs EXCEPT ![i].polled = TRUE]
          /\ UNCHANGED worker
    /\ UNCHANGED <<terminal, completion, manualClosing, latest, daemons>>

(* MANUAL_SENT_OBSERVER_TIMEOUT_MS: "pending", and the worker asks again. *)
PollLapses(i) ==
    /\ i \in OpenTabs /\ manualTabs[i].polled
    /\ manualTabs' = [manualTabs EXCEPT ![i].polled = FALSE]
    /\ UNCHANGED <<terminal, completion, manualClosing, worker, latest, daemons>>
-----------------------------------------------------------------------------
(* The human.                                                                *)

(* mutant: the waiting polls are not answered *)
ConfirmSentSilently(i) ==
    /\ i \in OpenTabs /\ manualTabs[i].state = "awaiting-user"
    /\ manualTabs' = [manualTabs EXCEPT ![i].state = "sent", ![i].armed = FALSE]
    /\ UNCHANGED <<terminal, completion, manualClosing, worker, latest, daemons>>

(* confirmManualSent. *)
ConfirmSent(i) ==
    /\ i \in OpenTabs /\ manualTabs[i].state = "awaiting-user"
    /\ manualTabs' = [manualTabs EXCEPT ![i].state = "sent", ![i].armed = FALSE, ![i].polled = FALSE]
    /\ Told(i, "sent")
    /\ UNCHANGED <<terminal, completion, manualClosing, latest, daemons>>

(* closeTab: the signal first; for a running turn it then awaits cancelTurn, *)
(* one such call at a time in the model.                                     *)
CloseTab(i) ==
    /\ i \in OpenTabs /\ manualClosing = Nothing
    /\ Remember(i, "cancelled")
    /\ Told(i, "ending")
    /\ IF manualTabs[i].status = "running"
       THEN manualClosing' = i /\ manualTabs' = Signalled(i, "cancelled")
       ELSE manualTabs' = [manualTabs EXCEPT ![i] = Nothing] /\ UNCHANGED manualClosing
    /\ UNCHANGED <<completion, latest, daemons>>

(* The cancellation was acknowledged or failed; the tab goes if it is still   *)
(* there.  No other turn can have taken it, for it is not ready.             *)
CloseEnds ==
    /\ manualClosing # Nothing
    /\ manualTabs' = [manualTabs EXCEPT ![manualClosing] = Nothing]
    /\ manualClosing' = Nothing
    /\ UNCHANGED <<terminal, completion, worker, latest, daemons>>

(* invalidateConversation: another document has been loaded.                 *)
Navigate(i) ==
    /\ i \in OpenTabs /\ manualTabs[i].keyed
    /\ manualTabs[i].reused \/ manualTabs[i].state # "awaiting-user"
    /\ IF manualTabs[i].reused /\ manualTabs[i].status = "running"
       THEN /\ manualTabs' = [Signalled(i, "failed") EXCEPT ![i].keyed = FALSE, ![i].status = "error"]
            /\ Remember(i, "failed") /\ Told(i, "ending")
       ELSE manualTabs' = [manualTabs EXCEPT ![i].keyed = FALSE] /\ UNCHANGED <<terminal, worker>>
    /\ UNCHANGED <<completion, manualClosing, latest, daemons>>

(* The page failed to load, or its renderer is gone. *)
PageFails(i) ==
    /\ i \in OpenTabs
    /\ FailAndRemove(i)
    /\ UNCHANGED <<completion, manualClosing, latest, daemons>>
-----------------------------------------------------------------------------
(* Time and the host's sweep.                                                *)

(* armManualTurnDeadline. *)
DeadlineFires(i) ==
    /\ i \in OpenTabs /\ manualTabs[i].armed
    /\ manualTabs' = [Signalled(i, "timeout") EXCEPT ![i].status = "error"]
    /\ Remember(i, "timeout") /\ Told(i, "ending")
    /\ UNCHANGED <<completion, manualClosing, latest, daemons>>

(* reapExpiredTurnTabs: the owner of a running turn has exited. *)
Reap(i) ==
    /\ i \in OpenTabs /\ manualTabs[i].status = "running" /\ manualTabs[i].owner \notin daemons
    /\ FailAndRemove(i)
    /\ UNCHANGED <<completion, manualClosing, latest, daemons>>

(* The retention of a ready tab is over, or its conversation was superseded   *)
(* (releaseRetainedConversation).                                            *)
RetentionEnds(i) ==
    /\ i \in OpenTabs /\ manualTabs[i].status = "ready"
    /\ manualTabs' = [manualTabs EXCEPT ![i] = Nothing]
    /\ UNCHANGED <<terminal, completion, manualClosing, worker, latest, daemons>>

OwnerDies(o) ==
    /\ o \in daemons
    /\ daemons' = daemons \ {o}
    /\ worker' = [t \in ManualTraces |->
                    IF worker[t].owner = o THEN [worker[t] EXCEPT !.at = "over", !.retried = FALSE]
                    ELSE worker[t]]
    /\ UNCHANGED <<manualHostVars, latest>>
-----------------------------------------------------------------------------
(* runManual.                                                                *)

(* The connector has started the turn (waitForSafeStart): markManualTurnStarted. *)
Started(t) ==
    /\ At(t, {"sent"})
    /\ IF \E i \in Mine(t) : manualTabs[i].state \in {"sent", "running"}
       THEN /\ manualTabs' = [i \in ManualTabIds |->
                                IF i \in Mine(t) THEN [manualTabs[i] EXCEPT !.state = "running"]
                                ELSE manualTabs[i]]
            /\ \/ worker' = Step(t, "started")
               \/ ~worker[t].retried /\ worker' = [worker EXCEPT ![t].retried = TRUE]
               \/ worker[t].retried /\ worker' = Step(t, "ending")
       ELSE worker' = Step(t, "ending") /\ UNCHANGED manualTabs
    /\ UNCHANGED <<terminal, completion, manualClosing, latest, daemons>>

(* waitForSafeCompletion has an answer. *)
Answered(t) ==
    /\ At(t, {"started"})
    /\ worker' = Step(t, "completing")
    /\ UNCHANGED <<manualHostVars, latest, daemons>>

(* browserAbort, or the broker or the launcher cannot be reached. *)
Fails(t) ==
    /\ At(t, {"waiting", "sent", "started"})
    /\ worker' = Step(t, "ending")
    /\ UNCHANGED <<manualHostVars, latest, daemons>>

(* endManualTurn of a completed turn that keeps its tab. *)
EndRetains(t) ==
    /\ At(t, {"completing"}) /\ completion[t] # worker[t].owner
    /\ \E i \in Mine(t) :
        /\ manualTabs[i].state \in {"sent", "running"} /\ manualTabs[i].keyed
        /\ manualTabs' = [manualTabs EXCEPT ![i].state = "completed", ![i].status = "ready", ![i].armed = FALSE]
    /\ completion' = [completion EXCEPT ![t] = worker[t].owner]
    /\ Acknowledged(t, "over")
    /\ UNCHANGED <<terminal, manualClosing, latest, daemons>>

(* ... and of one that does not: its terminal polls are left to lapse. *)
EndReleases(t) ==
    /\ At(t, {"completing"}) /\ completion[t] # worker[t].owner
    /\ \E i \in Mine(t) :
        /\ manualTabs[i].state \in {"sent", "running"}
        /\ manualTabs' = [manualTabs EXCEPT ![i] = Nothing]
    /\ completion' = [completion EXCEPT ![t] = worker[t].owner]
    /\ Acknowledged(t, "over")
    /\ UNCHANGED <<terminal, manualClosing, latest, daemons>>

(* A turn that failed or was aborted. *)
EndFails(t) ==
    /\ At(t, {"ending"}) /\ completion[t] # worker[t].owner
    /\ \E i \in Mine(t) :
        /\ manualTabs' = [manualTabs EXCEPT ![i] = Nothing]
        /\ \E status \in {"cancelled", "failed"} : Remember(i, status)
    /\ Acknowledged(t, "over")
    /\ UNCHANGED <<completion, manualClosing, latest, daemons>>

(* Nothing is left to end: the retry, or a turn that ended meanwhile.  A turn *)
(* that is no longer sent or running cannot be completed, and is closing.    *)
EndFindsNothing(t) ==
    /\ At(t, {"completing", "ending"})
    /\ \/ completion[t] = worker[t].owner
       \/ Mine(t) = {}
       \/ worker[t].at = "completing" /\ \A i \in Mine(t) : manualTabs[i].state \notin {"sent", "running"}
    /\ worker' = Step(t, "over")
    /\ UNCHANGED <<manualHostVars, latest, daemons>>

(* A request does not reach the host. *)
RequestIsLost(t) ==
    /\ At(t, {"starting", "completing", "ending"})
    /\ worker' = IF worker[t].retried THEN Step(t, "over") ELSE [worker EXCEPT ![t].retried = TRUE]
    /\ UNCHANGED <<manualHostVars, latest, daemons>>
-----------------------------------------------------------------------------
TurnStep(t) ==
    \/ \E o \in Owners : Begins(t, o)
    \/ StartRefused(t) \/ StartFound(t) \/ StartForeign(t) \/ ManualStartReuses(t) \/ ManualStartCreates(t)
    \/ StartFails(t) \/ AskSent(t) \/ Watch(t) \/ Started(t) \/ Answered(t) \/ Fails(t)
    \/ EndRetains(t) \/ EndReleases(t) \/ EndFails(t) \/ EndFindsNothing(t) \/ RequestIsLost(t)

TabStep(i) ==
    \/ ConfirmSent(i) \/ CloseTab(i) \/ Navigate(i) \/ PageFails(i) \/ DeadlineFires(i)
    \/ Reap(i) \/ RetentionEnds(i) \/ PollLapses(i)

ManualNext ==
    \/ \E t \in ManualTraces : TurnStep(t)
    \/ \E i \in ManualTabIds : TabStep(i)
    \/ CloseEnds
    \/ \E o \in Owners : OwnerDies(o)

ManualSpec == ManualInit /\ [][ManualNext]_manualVars
-----------------------------------------------------------------------------
(* A worker that has a turn can learn its fate: the turn's tab is open or    *)
(* the host remembers for this owner how it ended, so no poll is answered     *)
(* with an "ownership mismatch".                                             *)
FateIsKnown ==
    \A t \in ManualTraces : At(t, {"waiting", "sent", "started"}) => Mine(t) # {} \/ MyTerminal(t)

(* What has ended stays ended: neither a completed trace nor one that its     *)
(* owner was told is over has a tab where a human or a model could go on.    *)
EndedTurnsStayEnded ==
    \A i \in OpenTabs :
        LET tab == manualTabs[i]
        IN  tab.status # "error" /\ tab.state \in {"awaiting-user", "sent", "running"}
              => /\ completion[tab.trace] = Nothing
                 /\ ~(terminal[tab.trace] # Nothing /\ terminal[tab.trace].owner = tab.owner)

(* A conversation is retained in one tab: with two, every later turn of it    *)
(* would be refused.                                                         *)
OneRetainedTab == \A i, j \in RetainedTabs : i = j

(* "Sent ends the human handoff deadline": a turn that was told Sent is never *)
(* timed out, however late its poll was.                                     *)
SentIsNotTimedOut ==
    \A t \in ManualTraces :
        At(t, {"sent", "started", "completing"}) /\ MyTerminal(t) => Ended(t) # "timeout"

(* Nobody waits for what is already decided: while runManual's long poll is   *)
(* outstanding, the user has not confirmed yet, or the turn has not ended.   *)
PollsAreAnswered ==
    \A t \in ManualTraces, i \in ManualTabIds : i \in Mine(t) /\ manualTabs[i].polled =>
        /\ At(t, {"waiting"})         => manualTabs[i].state = "awaiting-user"
        /\ At(t, {"sent", "started"}) => manualTabs[i].state \in {"sent", "running"} /\ ~MyTerminal(t)

(* The tabs and the signals agree, whichever of the human, the pages, the    *)
(* timers and the daemon came first (beginManualTurn to endManualTurn).      *)
ManualTabsHold ==
    /\ ManualTypeOK /\ FateIsKnown /\ EndedTurnsStayEnded /\ OneRetainedTab
    /\ SentIsNotTimedOut /\ PollsAreAnswered
===============================================================================
