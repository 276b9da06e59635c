------------------------------- MODULE TurnRound -------------------------------
(***************************************************************************)
(* The Codex side of a native turn: the Responses requests ("rounds") that  *)
(* the adapter serves from one ChatGptTurnSession, one after the other      *)
(* (runTurn in src/adapters/chatgpt-web/index.ts, turn-execution.ts), the   *)
(* progress it shares with the browser observer (turn-progress.ts), and the *)
(* turn's channel in the TurnBroker.                                        *)
(*                                                                          *)
(* An observer is one HTTP request.  Codex may drop it and send the same    *)
(* round again; the server goes on with what the dropped one had started.   *)
(*                                                                          *)
(* A definition under the comment "mutant" is a broken version of the one   *)
(* that follows it; no specification uses it.                               *)
(***************************************************************************)
EXTENDS TurnBroker, Sequences

CONSTANTS
    turn,         \* the turn token of the session
    Observers,    \* HTTP requests
    Rounds,       \* distinct requests, by round key
    NoRound,      \* the round of a request that has not been sent
    poll          \* the observer's wait for a batch: one runs at a time

ASSUME OneNativeTurn == Turns = {turn} /\ SafeTurns = {} /\ Polls = {poll}
ASSUME NoRoundAssumption == NoRound \notin Rounds

VARIABLES
    line,              \* runExclusive: the observers in order, the first runs
    connected,         \* observers in the line whose client is still there
    roundOf,           \* the round an observer asks for
    brings,            \* rounds whose request carries the last batch's results
    roundState,        \* "unused", "open", or how the journal says it ended
    roundBatch,        \* the tool calls a round ended with
    stage,             \* where the first of the line stands
    batch,             \* the batch it has got and not yet journaled
    boundary,          \* the tool batch revision it was recorded as
    outstanding,       \* calls Codex has been given, without a result yet
    deliveredResults,  \* calls whose result Codex has given
    activeToolCalls,   \* progress: calls that veto the browser's completion
    toolBatchRevision, \* progress: batches recorded
    observedRevision,  \* progress: batches whose text boundary is captured
    progressRetired,   \* progress: the turn binding was retired
    browser            \* the browser outcome: "live", "final", "error"

lineVars     == <<line, connected, roundOf, brings>>
journalVars  == <<roundState, roundBatch>>
stageVars    == <<stage, batch, boundary>>
sessionVars  == <<outstanding, deliveredResults>>
progressVars == <<activeToolCalls, toolBatchRevision, observedRevision, progressRetired>>
roundVars    == <<vars, lineVars, journalVars, stageVars, sessionVars, progressVars, browser>>

Ended == {"tools", "final", "failed"}

RoundTypeOK ==
    /\ TypeOK
    /\ line \in Seq(Observers)
    /\ connected \in SUBSET Observers
    /\ roundOf \in [Observers -> Rounds \cup {NoRound}]
    /\ brings \in SUBSET Rounds
    /\ roundState \in [Rounds -> {"unused", "open"} \cup Ended]
    /\ roundBatch \in [Rounds -> SUBSET Calls]
    /\ stage \in {"none", "results", "polling", "boundary"}
    /\ batch \in SUBSET Calls
    /\ boundary \in 0..toolBatchRevision
    /\ outstanding \in SUBSET Calls
    /\ deliveredResults \in SUBSET Calls
    /\ activeToolCalls \in Nat
    /\ toolBatchRevision \in Nat
    /\ observedRevision \in 0..toolBatchRevision
    /\ progressRetired \in BOOLEAN
    /\ browser \in {"live", "final", "error"}

RoundInit ==
    /\ Init
    /\ line = <<>> /\ connected = {} /\ brings = {}
    /\ roundOf = [o \in Observers |-> NoRound]
    /\ roundState = [r \in Rounds |-> "unused"]
    /\ roundBatch = [r \in Rounds |-> {}]
    /\ stage = "none" /\ batch = {} /\ boundary = 0
    /\ outstanding = {} /\ deliveredResults = {}
    /\ activeToolCalls = 0
    /\ toolBatchRevision = 0 /\ observedRevision = 0
    /\ progressRetired = FALSE
    /\ browser = "live"

-------------------------------------------------------------------------------
(* Codex: requests, reconnects and disconnects *)

(* A request and a round that are new: which ones makes no difference. *)
NewObserver == CHOOSE o \in Observers : roundOf[o] = NoRound
NewRound == CHOOSE r \in Rounds : roundState[r] = "unused"

Join(o, r) ==
    /\ roundOf[o] = NoRound /\ o = NewObserver
    /\ roundOf' = [roundOf EXCEPT ![o] = r]
    /\ connected' = connected \cup {o}
    /\ line' = Append(line, o)
    /\ UNCHANGED <<vars, roundBatch, stageVars, sessionVars, progressVars, browser>>

(* The next round, once those before it have ended: with the results of its *)
(* outstanding calls or, Codex repeating itself, without them.              *)
SendRound(o, r, withResults) ==
    /\ phase[turn] # "unregistered"
    /\ roundState[r] = "unused" /\ r = NewRound
    /\ \A s \in Rounds : roundState[s] # "open"
    /\ Join(o, r)
    /\ roundState' = [roundState EXCEPT ![r] = "open"]
    /\ brings' = IF withResults THEN brings \cup {r} ELSE brings

(* The same request again, the observers before it having been dropped. *)
Reconnect(o, r) ==
    /\ roundState[r] # "unused"
    /\ \A p \in connected : roundOf[p] # r
    /\ Join(o, r)
    /\ UNCHANGED <<roundState, brings>>

Current     == Head(line)
Stands(s)   == line # <<>> /\ stage = s
Retired     == ~Open(turn)

(* The first observer leaves the line, its poll (if it still waits) aborted. *)
Leave ==
    /\ line' = Tail(line)
    /\ connected' = connected \ {Current}
    /\ stage' = "none" /\ batch' = {} /\ boundary' = 0
    /\ UNCHANGED <<roundOf, brings>>

StopPolling ==
    IF poll \in waiters[turn] THEN AbortPoll(turn, poll) ELSE UNCHANGED vars

EndRound(how, calls) ==
    /\ roundState' = [roundState EXCEPT ![roundOf[Current]] = how]
    /\ roundBatch' = [roundBatch EXCEPT ![roundOf[Current]] = calls]

(* A waiting observer notices that its client is gone; one that is inside    *)
(* an await which ignores the client, or still in the line, does so later.   *)
Disconnect(o) ==
    /\ o \in connected
    /\ IF o = Current /\ stage \in {"polling", "boundary"}
       THEN Leave /\ StopPolling
       ELSE /\ connected' = connected \ {o}
            /\ UNCHANGED <<vars, line, roundOf, brings, stageVars>>
    /\ UNCHANGED <<journalVars, sessionVars, progressVars, browser>>

-------------------------------------------------------------------------------
(* runTurn(): one observer at a time *)

(* The error path: the session is cancelled, its binding revoked, and the    *)
(* round ends with the error.                                                *)
Fail ==
    /\ EndRound("failed", {})
    /\ Leave
    /\ IF Retired THEN UNCHANGED vars ELSE Revoke(turn)
    /\ UNCHANGED <<sessionVars, progressVars, browser>>

(* The first of the line starts with what ends it at once: a round that has  *)
(* ended is replayed, a settled browser turn ends the round, a client that   *)
(* is gone ends nothing, and a repeated request gets the same calls again.   *)
Replays == roundState[roundOf[Current]] \in Ended
EndsAtOnce ==
    /\ Stands("none")
    /\ \/ Replays /\ UNCHANGED journalVars
       \/ ~Replays /\ browser = "final" /\ EndRound("final", {})
       \/ ~Replays /\ browser = "live" /\ Current \notin connected /\ UNCHANGED journalVars
       \/ /\ ~Replays /\ browser = "live" /\ Current \in connected /\ ~Retired
          /\ outstanding # {} /\ roundOf[Current] \notin brings
          /\ EndRound("tools", outstanding)
    /\ Leave
    /\ UNCHANGED <<vars, sessionVars, progressVars, browser>>

FailsAtOnce ==
    /\ Stands("none")
    /\ ~Replays
    /\ browser = "error" \/ (browser = "live" /\ Current \in connected /\ Retired)
    /\ Fail

Begin ==
    /\ Stands("none")
    /\ ~Replays /\ browser = "live" /\ Current \in connected /\ ~Retired
    /\ outstanding = {} \/ roundOf[Current] \in brings
    /\ stage' = "results"
    /\ UNCHANGED <<vars, lineVars, journalVars, batch, boundary, sessionVars,
                   progressVars, browser>>

(* One result: completeTool, recordToolResult, markResultDelivered. *)
RecordToolResult == activeToolCalls > 0 /\ activeToolCalls' = activeToolCalls - 1

\* mutant
MarkWithoutClearing(c) ==
    deliveredResults' = deliveredResults \cup {c} /\ UNCHANGED outstanding
MarkResultDelivered(c) ==
    deliveredResults' = deliveredResults \cup {c} /\ outstanding' = outstanding \ {c}

DeliverResult(c) ==
    /\ Stands("results")
    /\ c \in outstanding
    /\ CompleteTool(turn, c)
    /\ RecordToolResult
    /\ MarkResultDelivered(c)
    /\ UNCHANGED <<lineVars, journalVars, stageVars, toolBatchRevision,
                   observedRevision, progressRetired, browser>>

ResultRefused ==
    /\ Stands("results")
    /\ outstanding # {}
    /\ Retired
    /\ Fail

(* armNextTools(): with no result left to deliver the observer asks the      *)
(* broker for a batch.  A batch is recorded as progress as soon as it        *)
(* arrives, also when the client has gone in the meantime.                   *)
Arming    == Stands("results") /\ outstanding = {}
Delivered == deliveredCallIds[turn] \cap invocations[turn]

RecordToolBatch(calls) ==
    /\ activeToolCalls' = activeToolCalls + Cardinality(calls)
    /\ toolBatchRevision' = toolBatchRevision + 1
    /\ UNCHANGED <<observedRevision, progressRetired>>

Receive(calls) ==
    /\ RecordToolBatch(calls)
    /\ IF Current \in connected
       THEN /\ stage' = "boundary" /\ batch' = calls /\ boundary' = toolBatchRevision + 1
            /\ UNCHANGED lineVars
       ELSE Leave
    /\ UNCHANGED <<journalVars, sessionVars, browser>>

(* "The exact reconnect receives the same call ids". *)
ArmRedelivered ==
    /\ Arming
    /\ ~Retired
    /\ Delivered # {}
    /\ Receive(Delivered)
    /\ UNCHANGED vars

ArmQueued ==
    /\ Arming
    /\ queuedCallIds[turn] # {}
    /\ NextToolBatch(turn, poll)
    /\ Receive(queuedCallIds[turn])

ArmWaiting ==
    /\ Arming
    /\ Current \in connected
    /\ queuedCallIds[turn] = {}
    /\ NextToolBatch(turn, poll)
    /\ stage' = "polling"
    /\ UNCHANGED <<lineVars, journalVars, batch, boundary, sessionVars,
                   progressVars, browser>>

ArmGone ==
    /\ Arming
    /\ Current \notin connected
    /\ Retired \/ (Delivered = {} /\ queuedCallIds[turn] = {})
    /\ Leave
    /\ UNCHANGED <<vars, journalVars, sessionVars, progressVars, browser>>

ArmFails == Arming /\ Current \in connected /\ Retired /\ Fail

(* The batching timer; the batch goes to the poll, if one waits. *)
TimerFires ==
    /\ BatchTimerFires(turn)
    /\ IF poll \in waiters[turn] /\ queuedCallIds[turn] # {}
       THEN Receive(queuedCallIds[turn])
       ELSE UNCHANGED <<lineVars, journalVars, stageVars, sessionVars, progressVars, browser>>

(* The boundary of the batch is captured: the batch is given to Codex. *)
\* mutant
BoundaryIgnored == TRUE
BoundaryCaptured == observedRevision >= boundary
DispatchBatch ==
    /\ Stands("boundary")
    /\ BoundaryCaptured
    /\ ~progressRetired
    /\ outstanding' = batch
    /\ EndRound("tools", batch)
    /\ Leave
    /\ UNCHANGED <<vars, deliveredResults, progressVars, browser>>

Racing == Stands("polling") \/ Stands("boundary")

(* The browser outcome ends the wait. *)
FinishWithBrowser ==
    /\ Racing
    /\ browser = "final"
    /\ EndRound("final", {})
    /\ Leave
    /\ IF Retired THEN UNCHANGED vars ELSE Revoke(turn)
    /\ UNCHANGED <<sessionVars, progressVars, browser>>

WaitFails ==
    /\ \/ Racing /\ browser = "error"
       \/ Stands("polling") /\ Retired
       \/ Stands("boundary") /\ progressRetired
    /\ Fail

-------------------------------------------------------------------------------
(* The browser observer, the turn's MCP requests, and the rest of the world  *)

(* acknowledgeToolBatch(): the answer text before the batch is captured.     *)
CapturedRevision == toolBatchRevision
CaptureBoundary ==
    /\ browser = "live"
    /\ ~progressRetired
    /\ observedRevision < toolBatchRevision
    /\ observedRevision' = CapturedRevision
    /\ UNCHANGED <<vars, lineVars, journalVars, stageVars, sessionVars, activeToolCalls,
                   toolBatchRevision, progressRetired, browser>>

(* The answer is complete: no tool call vetoes it, and the fence commits.    *)
NoToolCallInFlight == activeToolCalls = 0
FinishBrowser ==
    /\ browser = "live"
    /\ NoToolCallInFlight
    /\ CommitCompletionFence(turn, activityRevision[turn])
    /\ browser' = "final"
    /\ UNCHANGED <<lineVars, journalVars, stageVars, sessionVars, progressVars>>

FailBrowser ==
    /\ browser = "live"
    /\ browser' = "error"
    /\ UNCHANGED <<vars, lineVars, journalVars, stageVars, sessionVars, progressVars>>

(* observeCapabilityRetirement(): the binding's end clears the veto and      *)
(* aborts the browser.                                                       *)
RetirementObserved ==
    /\ phase[turn] = "retired"
    /\ ~progressRetired
    /\ progressRetired' = TRUE
    /\ activeToolCalls' = 0
    /\ browser' = IF browser = "live" THEN "error" ELSE browser
    /\ UNCHANGED <<vars, lineVars, journalVars, stageVars, sessionVars,
                   toolBatchRevision, observedRevision>>

(* The channel's other users: an MCP request that claims the turn, issues    *)
(* its calls and settles when they have ended; a cancellation of the turn.   *)
Elsewhere ==
    /\ \/ Register(turn, "none")
       \/ \E a \in Activities \ activities[turn] : browser = "live" /\ Claim(turn, a)
       \/ \E c \in Calls : activities[turn] # {} /\ Invoke(turn, c)
       \/ \E a \in activities[turn] : invocations[turn] = {} /\ CompleteActivity(turn, a)
       \/ Revoke(turn)
    /\ UNCHANGED <<lineVars, journalVars, stageVars, sessionVars, progressVars, browser>>

CodexStep ==
    \E o \in Observers : \/ \E r \in Rounds : \/ SendRound(o, r, TRUE)
                                              \/ SendRound(o, r, FALSE)
                                              \/ Reconnect(o, r)
                         \/ Disconnect(o)

AdapterStep ==
    \/ EndsAtOnce \/ FailsAtOnce \/ Begin
    \/ \E c \in Calls : DeliverResult(c)
    \/ ResultRefused
    \/ ArmRedelivered \/ ArmQueued \/ ArmWaiting \/ ArmGone \/ ArmFails
    \/ DispatchBatch \/ FinishWithBrowser \/ WaitFails

RoundNext ==
    \/ CodexStep \/ AdapterStep \/ TimerFires
    \/ CaptureBoundary \/ FinishBrowser \/ FailBrowser \/ RetirementObserved
    \/ Elsewhere

(* The event loop goes on with what can go on, and the browser observer      *)
(* reads the progress on every turn of its loop.  Nothing obliges ChatGPT    *)
(* to finish or Codex to stay.                                               *)
RoundFairness ==
    /\ WF_roundVars(AdapterStep)
    /\ WF_roundVars(TimerFires)
    /\ WF_roundVars(CaptureBoundary)
    /\ WF_roundVars(RetirementObserved)

RoundSpec == RoundInit /\ [][RoundNext]_roundVars /\ RoundFairness

-------------------------------------------------------------------------------
(* Properties *)

(* What Codex is working on, the broker awaits: while the binding lives,     *)
(* every outstanding call is delivered and unsettled there, whatever         *)
(* observers were dropped, redelivered or retried in between.                *)
OutstandingIsDelivered == Open(turn) => outstanding \subseteq Delivered

(* Every call that Codex is working on is counted, so it vetoes completion.  *)
OutstandingVetoes ==
    ~progressRetired => Cardinality(outstanding) <= activeToolCalls

(* A turn whose answer is final owes Codex nothing: no call is outstanding,  *)
(* and none is on its way to be.                                             *)
FinalOwesNothing == browser = "final" => outstanding = {} /\ batch = {}

(* What Codex works on is known everywhere: to the broker as delivered, to   *)
(* the progress of the turn as a veto, and to the browser before its answer  *)
(* is final.                                                                 *)
OutstandingIsOwed ==
    RoundTypeOK /\ OutstandingIsDelivered /\ OutstandingVetoes /\ FinalOwesNothing

(* "Tools are not emitted until the browser captures their text boundary",   *)
(* and a call whose result Codex has given is never given to Codex again.    *)
DispatchedInOrder ==
    [][/\ outstanding' # {} /\ outstanding = {} => observedRevision = toolBatchRevision
       /\ outstanding' \cap deliveredResults = {}]_roundVars

(* A tool call of the model reaches Codex, or the turn ends, as long as an   *)
(* observer stays: it is not lost between queue, batch and journal.          *)
CallsReachCodex ==
    \A c \in Calls :
        c \in invocations[turn] /\ connected # {}
            ~> c \notin invocations[turn] \/ c \in outstanding \/ connected = {}
===============================================================================
