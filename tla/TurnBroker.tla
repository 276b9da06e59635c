------------------------------ MODULE TurnBroker ------------------------------
(***************************************************************************)
(* The turn broker of src/adapters/chatgpt-web/turn-broker.ts.             *)
(*                                                                         *)
(* One TurnChannel per turn token ties a ChatGPT turn (the MCP requests    *)
(* its model issues) to the Codex turn that owns it (the adapter's long    *)
(* polls for tool batches and its tool results).  This module states what  *)
(* the broker does to its channels, whatever its clients send: every       *)
(* handler of dispatch() and every owner method that changes state is an   *)
(* action, enabled for every argument that does not make it throw.  The    *)
(* clients' own discipline is added by TurnCompletion.                     *)
(*                                                                         *)
(* A definition under the comment "mutant" is a broken version of the one  *)
(* that follows it; no specification uses it.                              *)
(*                                                                         *)
(* A handler that throws, or answers without changing a channel, is a step *)
(* that is not taken.  Turn tokens, activity ids and call ids are random   *)
(* and fresh, so each is used for one registration, one MCP request and    *)
(* one invoke request; the binding id of a turn is identified with it.     *)
(***************************************************************************)
EXTENDS Naturals, FiniteSets

CONSTANTS
    Turns,        \* turn tokens that will be registered
    MaxTurns,     \* a bound of the model: how many of them are registered
    SafeTurns,    \* those registered by registerSafe (Zero Risk turns)
    Activities,   \* MCP requests, each with the activity id it claims under
    Calls,        \* invoke requests
    Polls,        \* owner_next long polls (reusable)
    Answers,      \* final answers a Zero Risk connector may submit
    NoAnswer      \* no final answer accepted yet

ASSUME SafeTurnsAssumption == SafeTurns \subseteq Turns
ASSUME NoAnswerAssumption  == NoAnswer \notin Answers
ASSUME CallsAssumption     == IsFiniteSet(Calls)

VARIABLES
    phase,                    \* "unregistered", "open" (in channels), "retired"
    deadline,                 \* environment.expiresAt: "none", "ahead", "passed"
    bound,                    \* bindingId is set and in bindings
    activities,               \* claimed MCP requests that have not settled
    completedActivities,      \* tombstones of settled MCP requests
    activityRevision,         \* counts the starts and ends of activities
    completionCommitted,      \* the browser completion fence has been committed
    completionRevision,       \* at this revision (0 until then)
    queuedCallIds,            \* invocations waiting for an owner poll
    deliveredCallIds,         \* invocations handed to a poll, awaiting a result
    invocations,              \* invocations whose promise is unsettled
    batchTimer,               \* the 15 ms batching timer is armed
    compactionRequested,      \* context compaction has taken the turn over
    compactionDeliveryCount,  \* invocations answered by the compaction result
    outcome,                  \* how each invoke request was answered
    waiters,                  \* polls waiting for a batch
    startWaiters,             \* polls waiting for a Zero Risk turn to start
    resumedPolls,             \* those whose wait ended, not yet continued
    safeState,                \* SafeTurnControl.state, "none" without a control
    launcherSent,             \* the user confirmed Sent in the Launcher
    connectorStarted,         \* the connector called codex_turn_start
    finalAnswer,              \* the accepted final answer
    heldClaims,               \* claims waiting for Sent (in sentWaiters)
    resumedClaims,            \* those whose wait ended, not yet continued
    heldAnswers,              \* safe_complete requests waiting for Sent
    resumedAnswers            \* those whose wait ended, not yet continued

lifeVars     == <<phase, deadline, bound>>
activityVars == <<activities, completedActivities, activityRevision>>
fenceVars    == <<completionCommitted, completionRevision>>
callVars     == <<queuedCallIds, deliveredCallIds, invocations, outcome>>
compactVars  == <<compactionRequested, compactionDeliveryCount>>
pollVars     == <<waiters, startWaiters, resumedPolls>>
safeVars     == <<safeState, launcherSent, connectorStarted, finalAnswer>>
heldVars     == <<heldClaims, resumedClaims, heldAnswers, resumedAnswers>>
vars == <<lifeVars, activityVars, fenceVars, callVars, batchTimer, compactVars,
          pollVars, safeVars, heldVars>>

Outcomes   == {"unused", "pending", "result", "interrupted", "rejected"}
SafeStates == {"none", "awaiting_start", "running", "completed", "revoked"}

TypeOK ==
    /\ phase \in [Turns -> {"unregistered", "open", "retired"}]
    /\ deadline \in [Turns -> {"none", "ahead", "passed"}]
    /\ bound \in [Turns -> BOOLEAN]
    /\ activities \in [Turns -> SUBSET Activities]
    /\ completedActivities \in [Turns -> SUBSET Activities]
    /\ activityRevision \in [Turns -> Nat]
    /\ completionCommitted \in [Turns -> BOOLEAN]
    /\ completionRevision \in [Turns -> Nat]
    /\ queuedCallIds \in [Turns -> SUBSET Calls]
    /\ deliveredCallIds \in [Turns -> SUBSET Calls]
    /\ invocations \in [Turns -> SUBSET Calls]
    /\ batchTimer \in [Turns -> BOOLEAN]
    /\ compactionRequested \in [Turns -> BOOLEAN]
    /\ compactionDeliveryCount \in [Turns -> Nat]
    /\ outcome \in [Calls -> Outcomes]
    /\ waiters \in [Turns -> SUBSET Polls]
    /\ startWaiters \in [Turns -> SUBSET Polls]
    /\ resumedPolls \in [Turns -> SUBSET Polls]
    /\ safeState \in [Turns -> SafeStates]
    /\ launcherSent \in [Turns -> BOOLEAN]
    /\ connectorStarted \in [Turns -> BOOLEAN]
    /\ finalAnswer \in [Turns -> Answers \cup {NoAnswer}]
    /\ heldClaims \in [Turns -> SUBSET Activities]
    /\ resumedClaims \in [Turns -> SUBSET Activities]
    /\ heldAnswers \in [Turns -> SUBSET Answers]
    /\ resumedAnswers \in [Turns -> SUBSET Answers]

Init ==
    /\ phase = [t \in Turns |-> "unregistered"]
    /\ deadline = [t \in Turns |-> "none"]
    /\ bound = [t \in Turns |-> FALSE]
    /\ activities = [t \in Turns |-> {}]
    /\ completedActivities = [t \in Turns |-> {}]
    /\ activityRevision = [t \in Turns |-> 0]
    /\ completionCommitted = [t \in Turns |-> FALSE]
    /\ completionRevision = [t \in Turns |-> 0]
    /\ queuedCallIds = [t \in Turns |-> {}]
    /\ deliveredCallIds = [t \in Turns |-> {}]
    /\ invocations = [t \in Turns |-> {}]
    /\ batchTimer = [t \in Turns |-> FALSE]
    /\ compactionRequested = [t \in Turns |-> FALSE]
    /\ compactionDeliveryCount = [t \in Turns |-> 0]
    /\ outcome = [c \in Calls |-> "unused"]
    /\ waiters = [t \in Turns |-> {}]
    /\ startWaiters = [t \in Turns |-> {}]
    /\ resumedPolls = [t \in Turns |-> {}]
    /\ safeState = [t \in Turns |-> "none"]
    /\ launcherSent = [t \in Turns |-> FALSE]
    /\ connectorStarted = [t \in Turns |-> FALSE]
    /\ finalAnswer = [t \in Turns |-> NoAnswer]
    /\ heldClaims = [t \in Turns |-> {}]
    /\ resumedClaims = [t \in Turns |-> {}]
    /\ heldAnswers = [t \in Turns |-> {}]
    /\ resumedAnswers = [t \in Turns |-> {}]

-------------------------------------------------------------------------------
(* Reading the channels *)

Open(t) == phase[t] = "open"

(* registerSafe returns the token only after it has installed the control, *)
(* so no client names a Zero Risk turn before that.                        *)
Known(t) == Open(t) /\ (t \in SafeTurns => safeState[t] # "none")

Overdue == {t \in Turns : Open(t) /\ deadline[t] = "passed"}

(* prune() is the first statement of every handler but revoke's: a handler *)
(* that finds overdue channels is the step Prune followed by its own, so   *)
(* no other handler runs while one is left.                                *)
Swept == Overdue = {}

Serving(t) == Swept /\ Known(t)

(* assertSafeHarnessRunning, for the callers that allow compaction and for *)
(* those that do not.                                                      *)
HarnessRunning(t)     == safeState[t] \in {"none", "running"}
HarnessUncompacted(t) ==
    HarnessRunning(t) /\ (safeState[t] = "running" => ~compactionRequested[t])

(* The code's activeChannel: a committed turn no longer takes claims. *)
TakesClaims(t) == Open(t) /\ ~completionCommitted[t]

(* A settled activity id is never admitted. *)
\* mutant
NoTombstone(t, a) == FALSE
Tombstoned(t, a) == a \in completedActivities[t]

(* What the completion fence and a Zero Risk answer require of the channel. *)
\* mutant
CallsQuiet(t) == invocations[t] = {}
Quiet(t) == activities[t] = {} /\ invocations[t] = {}

IdlePolls == {w \in Polls : \A t \in Turns :
                w \notin waiters[t] \cup startWaiters[t] \cup resumedPolls[t]}
UnusedCalls == {c \in Calls : outcome[c] = "unused"}

-------------------------------------------------------------------------------
(* Registration, deadlines and revocation *)

(* register(); for a Zero Risk turn, registerSafe() up to its await. *)
Register(t, limit) ==
    /\ Swept
    /\ phase[t] = "unregistered"
    /\ Cardinality({u \in Turns : phase[u] # "unregistered"}) < MaxTurns
    /\ phase' = [phase EXCEPT ![t] = "open"]
    /\ deadline' = [deadline EXCEPT ![t] = limit]
    /\ UNCHANGED <<bound, activityVars, fenceVars, callVars, batchTimer,
                   compactVars, pollVars, safeVars, heldVars>>

NewSafeControl(t) ==
    /\ t \in SafeTurns
    /\ safeState[t] = "none"
    /\ safeState' = [safeState EXCEPT ![t] = "awaiting_start"]
    /\ UNCHANGED <<lifeVars, activityVars, fenceVars, callVars, batchTimer,
                   compactVars, pollVars, launcherSent, connectorStarted,
                   finalAnswer, heldVars>>

(* registerSafe() after its await: the channel may be gone by then. *)
\* mutant
InstallUnchecked(t) == phase[t] # "unregistered" /\ NewSafeControl(t)
InstallSafeControl(t) == Open(t) /\ NewSafeControl(t)

(* Time passes expiresAt. *)
PassDeadline(t) ==
    /\ Open(t)
    /\ deadline[t] = "ahead"
    /\ deadline' = [deadline EXCEPT ![t] = "passed"]
    /\ UNCHANGED <<phase, bound, activityVars, fenceVars, callVars, batchTimer,
                   compactVars, pollVars, safeVars, heldVars>>

Emptied(f, T) == [t \in Turns |-> IF t \in T THEN {} ELSE f[t]]

(* Rejecting what waits for Sent, and the polls. *)
\* mutant
RejectAnswersOnly(T) ==
    heldAnswers' = Emptied(heldAnswers, T) /\ UNCHANGED heldClaims
RejectHeld(T) ==
    heldClaims' = Emptied(heldClaims, T) /\ heldAnswers' = Emptied(heldAnswers, T)

RejectPolls(T) ==
    waiters' = Emptied(waiters, T) /\ startWaiters' = Emptied(startWaiters, T)

(* revoke() of every turn in T, with the rejectChannel() of each.  A claim, *)
(* a safe_complete or a poll that was waiting is rejected; one whose wait   *)
(* had already ended finds no channel when it continues.                    *)
Revoked(T) ==
    LET dropped == UNION {invocations[t] : t \in T}
    IN  /\ phase' = [t \in Turns |-> IF t \in T THEN "retired" ELSE phase[t]]
        /\ bound' = [t \in Turns |-> t \notin T /\ bound[t]]
        /\ safeState' = [t \in Turns |->
             IF t \in T /\ safeState[t] # "none" THEN "revoked" ELSE safeState[t]]
        /\ RejectHeld(T)
        /\ RejectPolls(T)
        /\ queuedCallIds' = Emptied(queuedCallIds, T)
        /\ deliveredCallIds' = Emptied(deliveredCallIds, T)
        /\ invocations' = Emptied(invocations, T)
        /\ batchTimer' = [t \in Turns |-> t \notin T /\ batchTimer[t]]
        /\ outcome' = [c \in Calls |->
                         IF c \in dropped THEN "rejected" ELSE outcome[c]]
        /\ UNCHANGED <<deadline, activityVars, fenceVars, compactVars,
                       resumedPolls, launcherSent, connectorStarted,
                       finalAnswer, resumedClaims, resumedAnswers>>

(* prune(), run by every handler; owner_status does nothing else. *)
Prune == Overdue # {} /\ Revoked(Overdue)

(* The owner, revokeTrace, the release of a failed MCP invocation. *)
Revoke(t) == Open(t) /\ Revoked({t})

(* close() revokes every channel. *)
Close ==
    /\ \E t \in Turns : Open(t)
    /\ Revoked({t \in Turns : Open(t)})

-------------------------------------------------------------------------------
(* MCP requests: claims, their settling, invocations *)

(* The end of the claim handler, once its turn may accept the request: a   *)
(* claim of an active activity changes nothing but the binding.            *)
Admit(t, a) ==
    /\ ~Tombstoned(t, a)
    /\ activities' = [activities EXCEPT ![t] = @ \cup {a}]
    /\ activityRevision' = IF a \in activities[t] THEN activityRevision
                           ELSE [activityRevision EXCEPT ![t] = @ + 1]
    /\ bound' = [bound EXCEPT ![t] = TRUE]
    /\ UNCHANGED <<phase, deadline, completedActivities, fenceVars, callVars,
                   batchTimer, compactVars, pollVars, safeVars>>

Claim(t, a) ==
    /\ Serving(t)
    /\ TakesClaims(t)
    /\ HarnessUncompacted(t)
    /\ Admit(t, a)
    /\ UNCHANGED heldVars

(* A claim of a Zero Risk turn that arrives before Sent waits for it. *)
HoldClaim(t, a) ==
    /\ Serving(t)
    /\ TakesClaims(t)
    /\ safeState[t] = "awaiting_start"
    /\ ~launcherSent[t]
    /\ a \notin heldClaims[t] \cup resumedClaims[t]
    /\ heldClaims' = [heldClaims EXCEPT ![t] = @ \cup {a}]
    /\ UNCHANGED <<lifeVars, activityVars, fenceVars, callVars, batchTimer,
                   compactVars, pollVars, safeVars, resumedClaims, heldAnswers,
                   resumedAnswers>>

(* The client of a waiting claim aborts: its socket closes. *)
AbandonClaim(t, a) ==
    /\ a \in heldClaims[t]
    /\ heldClaims' = [heldClaims EXCEPT ![t] = @ \ {a}]
    /\ UNCHANGED <<lifeVars, activityVars, fenceVars, callVars, batchTimer,
                   compactVars, pollVars, safeVars, resumedClaims, heldAnswers,
                   resumedAnswers>>

(* A waiting claim continues after Sent and is admitted ... *)
ResumeClaim(t, a) ==
    /\ a \in resumedClaims[t]
    /\ Swept
    /\ TakesClaims(t)
    /\ HarnessUncompacted(t)
    /\ Admit(t, a)
    /\ resumedClaims' = [resumedClaims EXCEPT ![t] = @ \ {a}]
    /\ UNCHANGED <<heldClaims, heldAnswers, resumedAnswers>>

(* ... or throws: the turn has been revoked or committed meanwhile, has    *)
(* not started, or the request was settled by its client in the meantime.  *)
RefuseClaim(t, a) ==
    /\ a \in resumedClaims[t]
    /\ Swept
    /\ ~TakesClaims(t) \/ ~HarnessUncompacted(t) \/ Tombstoned(t, a)
    /\ resumedClaims' = [resumedClaims EXCEPT ![t] = @ \ {a}]
    /\ UNCHANGED <<lifeVars, activityVars, fenceVars, callVars, batchTimer,
                   compactVars, pollVars, safeVars, heldClaims, heldAnswers,
                   resumedAnswers>>

Tombstone(t, a) ==
    completedActivities' = [completedActivities EXCEPT ![t] = @ \cup {a}]

\* mutant
CountEndDown(t) == activityRevision' = [activityRevision EXCEPT ![t] = @ - 1]
CountEnd(t) == activityRevision' = [activityRevision EXCEPT ![t] = @ + 1]

(* activity_complete: also for an activity whose claim never arrived. *)
CompleteActivity(t, a) ==
    /\ Serving(t)
    /\ ~Tombstoned(t, a)
    /\ activities' = [activities EXCEPT ![t] = @ \ {a}]
    /\ Tombstone(t, a)
    /\ CountEnd(t)
    /\ UNCHANGED <<lifeVars, fenceVars, callVars, batchTimer, compactVars,
                   pollVars, safeVars, heldVars>>

(* scheduleToolWaiters(), run when a call has just been queued. *)
\* mutant
ScheduleBeforeQueueing(t) ==
    batchTimer' = [batchTimer EXCEPT ![t] = @ \/ (queuedCallIds[t] # {} /\ waiters[t] # {})]
ScheduleToolWaiters(t) ==
    batchTimer' = [batchTimer EXCEPT ![t] = @ \/ waiters[t] # {}]

Enqueue(t, c) ==
    /\ queuedCallIds' = [queuedCallIds EXCEPT ![t] = @ \cup {c}]
    /\ invocations' = [invocations EXCEPT ![t] = @ \cup {c}]
    /\ outcome' = [outcome EXCEPT ![c] = "pending"]
    /\ ScheduleToolWaiters(t)
    /\ UNCHANGED <<lifeVars, activityVars, fenceVars, deliveredCallIds,
                   compactVars, pollVars, safeVars, heldVars>>

(* invoke on a live binding: the call is queued for the owner, and the     *)
(* batching timer armed if a poll is waiting.                              *)
Callable(t, c) == Serving(t) /\ bound[t] /\ HarnessUncompacted(t) /\ c \in UnusedCalls
Invoke(t, c) == Callable(t, c) /\ ~compactionRequested[t] /\ Enqueue(t, c)

CountInterrupted(t, n) ==
    compactionDeliveryCount' = [compactionDeliveryCount EXCEPT ![t] = @ + n]

(* invoke after compaction took the turn over: answered at once. *)
InterceptInvoke(t, c) ==
    /\ Callable(t, c)
    /\ compactionRequested[t]
    /\ outcome' = [outcome EXCEPT ![c] = "interrupted"]
    /\ CountInterrupted(t, 1)
    /\ UNCHANGED <<lifeVars, activityVars, fenceVars, queuedCallIds,
                   deliveredCallIds, invocations, batchTimer,
                   compactionRequested, pollVars, safeVars, heldVars>>

-------------------------------------------------------------------------------
(* The owner: polls for tool batches, tool results, compaction, the fence *)

\* mutant
TakeQueuedAgain(t) ==
    /\ deliveredCallIds' = [deliveredCallIds EXCEPT
                              ![t] = @ \cup (queuedCallIds[t] \cap invocations[t])]
    /\ UNCHANGED queuedCallIds

(* takeQueued(): the whole queue becomes one delivered batch. *)
TakeQueued(t) ==
    /\ deliveredCallIds' = [deliveredCallIds EXCEPT
                              ![t] = @ \cup (queuedCallIds[t] \cap invocations[t])]
    /\ queuedCallIds' = [queuedCallIds EXCEPT ![t] = {}]

(* nextToolBatch() past its wait for a Zero Risk start, by the poll w:     *)
(* undelivered results are offered again first, which changes nothing;     *)
(* then the queue is taken; then the poll waits.                           *)
TakeOrWait(t, w) ==
    /\ HarnessUncompacted(t)
    /\ ~compactionRequested[t]
    /\ deliveredCallIds[t] \cap invocations[t] = {}
    /\ \/ /\ queuedCallIds[t] # {}
          /\ TakeQueued(t)
          /\ UNCHANGED waiters
       \/ /\ queuedCallIds[t] = {}
          /\ waiters' = [waiters EXCEPT ![t] = @ \cup {w}]
          /\ UNCHANGED <<queuedCallIds, deliveredCallIds>>
    /\ UNCHANGED <<lifeVars, activityVars, fenceVars, invocations, outcome,
                   batchTimer, compactVars, startWaiters, safeVars, heldVars>>

NextToolBatch(t, w) ==
    /\ Serving(t)
    /\ w \in IdlePolls
    /\ safeState[t] # "completed"
    /\ TakeOrWait(t, w)
    /\ UNCHANGED resumedPolls

(* nextToolBatch() on a Zero Risk turn that has not started waits first. *)
WaitForSafeStart(t, w) ==
    /\ Serving(t)
    /\ w \in IdlePolls
    /\ safeState[t] = "awaiting_start"
    /\ startWaiters' = [startWaiters EXCEPT ![t] = @ \cup {w}]
    /\ UNCHANGED <<lifeVars, activityVars, fenceVars, callVars, batchTimer,
                   compactVars, waiters, resumedPolls, safeVars, heldVars>>

(* ... and goes on when the turn has started.  It ends at once if the turn *)
(* is gone, completed, compacted, or has calls to offer again.             *)
ResumePoll(t, w) ==
    /\ w \in resumedPolls[t]
    /\ Swept
    /\ resumedPolls' = [resumedPolls EXCEPT ![t] = @ \ {w}]
    /\ \/ /\ Open(t)
          /\ safeState[t] # "completed"
          /\ TakeOrWait(t, w)
       \/ /\ \/ ~Open(t)
             \/ safeState[t] = "completed"
             \/ ~HarnessUncompacted(t)
             \/ compactionRequested[t]
             \/ deliveredCallIds[t] \cap invocations[t] # {}
          /\ UNCHANGED <<lifeVars, activityVars, fenceVars, callVars,
                         batchTimer, compactVars, waiters, startWaiters,
                         safeVars, heldVars>>

(* The observer of a waiting poll disconnects. *)
AbortPoll(t, w) ==
    /\ w \in waiters[t] \cup startWaiters[t]
    /\ waiters' = [waiters EXCEPT ![t] = @ \ {w}]
    /\ startWaiters' = [startWaiters EXCEPT ![t] = @ \ {w}]
    /\ UNCHANGED <<lifeVars, activityVars, fenceVars, callVars, batchTimer,
                   compactVars, resumedPolls, safeVars, heldVars>>

(* The batching timer fires: wakeToolWaiters() gives the batch to one poll *)
(* and rejects the others, and does nothing without a queue or a poll.     *)
BatchTimerFires(t) ==
    /\ batchTimer[t]
    /\ batchTimer' = [batchTimer EXCEPT ![t] = FALSE]
    /\ \/ /\ queuedCallIds[t] # {} /\ waiters[t] # {}
          /\ TakeQueued(t)
          /\ waiters' = [waiters EXCEPT ![t] = {}]
       \/ /\ queuedCallIds[t] = {} \/ waiters[t] = {}
          /\ UNCHANGED <<queuedCallIds, deliveredCallIds, waiters>>
    /\ UNCHANGED <<lifeVars, activityVars, fenceVars, invocations, outcome,
                   compactVars, startWaiters, resumedPolls, safeVars, heldVars>>

(* Resolving the promises of the calls C and forgetting them. *)
\* mutant
SettleWithoutForgetting(t, C, how) ==
    /\ outcome' = [c \in Calls |-> IF c \in C THEN how ELSE outcome[c]]
    /\ UNCHANGED invocations
Settle(t, C, how) ==
    /\ outcome' = [c \in Calls |-> IF c \in C THEN how ELSE outcome[c]]
    /\ invocations' = [invocations EXCEPT ![t] = @ \ C]

CompleteTool(t, c) ==
    /\ Serving(t)
    /\ HarnessRunning(t)
    /\ c \in invocations[t]
    /\ c \in deliveredCallIds[t]
    /\ deliveredCallIds' = [deliveredCallIds EXCEPT ![t] = @ \ {c}]
    /\ Settle(t, {c}, "result")
    /\ UNCHANGED <<lifeVars, activityVars, fenceVars, queuedCallIds, batchTimer,
                   compactVars, pollVars, safeVars, heldVars>>

(* requestCompaction(): the calls still queued are answered with the       *)
(* compaction result; a poll that waits keeps waiting.                     *)
RequestCompaction(t) ==
    /\ Serving(t)
    /\ HarnessUncompacted(t)
    /\ ~compactionRequested[t]
    /\ LET interrupted == queuedCallIds[t] \cap invocations[t] IN
       /\ Settle(t, interrupted, "interrupted")
       /\ CountInterrupted(t, Cardinality(interrupted))
    /\ compactionRequested' = [compactionRequested EXCEPT ![t] = TRUE]
    /\ queuedCallIds' = [queuedCallIds EXCEPT ![t] = {}]
    /\ batchTimer' = [batchTimer EXCEPT ![t] = FALSE]
    /\ UNCHANGED <<lifeVars, activityVars, fenceVars, deliveredCallIds,
                   pollVars, safeVars, heldVars>>

(* beginCompletionFence() changes nothing: it hands the caller this. *)
MayBeginFence(t) == completionCommitted[t] \/ Quiet(t)
FenceRevision(t) == IF completionCommitted[t] THEN completionRevision[t]
                    ELSE activityRevision[t]

CommitCompletionFence(t, revision) ==
    /\ Serving(t)
    /\ ~completionCommitted[t]
    /\ activityRevision[t] = revision
    /\ Quiet(t)
    /\ completionCommitted' = [completionCommitted EXCEPT ![t] = TRUE]
    /\ completionRevision' = [completionRevision EXCEPT ![t] = revision]
    /\ UNCHANGED <<lifeVars, activityVars, callVars, batchTimer, compactVars,
                   pollVars, safeVars, heldVars>>

-------------------------------------------------------------------------------
(* The two ends of a Zero Risk turn: the Launcher and the connector *)

\* mutant
OneEndSpoke(t)   == launcherSent'[t] \/ connectorStarted'[t]
BothEndsSpoke(t) == launcherSent'[t] /\ connectorStarted'[t]

(* activateSafeTurn(): both ends have spoken, so the turn runs, without a  *)
(* deadline, and the polls that wait for it are resolved.                  *)
Activate(t) ==
    IF BothEndsSpoke(t)
    THEN /\ safeState' = [safeState EXCEPT ![t] = "running"]
         /\ deadline' = [deadline EXCEPT ![t] = "none"]
         /\ resumedPolls' = [resumedPolls EXCEPT ![t] = @ \cup startWaiters[t]]
         /\ startWaiters' = [startWaiters EXCEPT ![t] = {}]
    ELSE UNCHANGED <<safeState, deadline, resumedPolls, startWaiters>>

(* codex_turn_start *)
StartSafeTurn(t) ==
    /\ Serving(t)
    /\ safeState[t] \in {"awaiting_start", "running"}
    /\ ~connectorStarted[t]
    /\ connectorStarted' = [connectorStarted EXCEPT ![t] = TRUE]
    /\ UNCHANGED launcherSent
    /\ Activate(t)
    /\ UNCHANGED <<phase, bound, activityVars, fenceVars, callVars, batchTimer,
                   compactVars, waiters, finalAnswer, heldVars>>

\* mutant
ResolveClaimsOnly(t) ==
    /\ resumedClaims' = [resumedClaims EXCEPT ![t] = @ \cup heldClaims[t]]
    /\ heldClaims' = [heldClaims EXCEPT ![t] = {}]
    /\ UNCHANGED <<heldAnswers, resumedAnswers>>
ResolveSentWaiters(t) ==
    /\ resumedClaims' = [resumedClaims EXCEPT ![t] = @ \cup heldClaims[t]]
    /\ heldClaims' = [heldClaims EXCEPT ![t] = {}]
    /\ resumedAnswers' = [resumedAnswers EXCEPT ![t] = @ \cup heldAnswers[t]]
    /\ heldAnswers' = [heldAnswers EXCEPT ![t] = {}]

(* The Launcher's Sent confirmation releases what waits for it. *)
ConfirmSafeTurnSent(t) ==
    /\ Serving(t)
    /\ safeState[t] \in {"awaiting_start", "running"}
    /\ ~launcherSent[t]
    /\ launcherSent' = [launcherSent EXCEPT ![t] = TRUE]
    /\ UNCHANGED connectorStarted
    /\ ResolveSentWaiters(t)
    /\ Activate(t)
    /\ UNCHANGED <<phase, bound, activityVars, fenceVars, callVars, batchTimer,
                   compactVars, waiters, finalAnswer>>

(* completeSafeTurn(), for an answer it accepts. *)
MayAnswer(t) == safeState[t] = "running" /\ Quiet(t)

AcceptAnswer(t, answer) ==
    /\ MayAnswer(t)
    /\ safeState' = [safeState EXCEPT ![t] = "completed"]
    /\ finalAnswer' = [finalAnswer EXCEPT ![t] = answer]
    /\ UNCHANGED <<lifeVars, activityVars, fenceVars, callVars, batchTimer,
                   compactVars, pollVars, launcherSent, connectorStarted>>

CompleteSafeTurn(t, answer) == Serving(t) /\ AcceptAnswer(t, answer) /\ UNCHANGED heldVars

(* codex_turn_complete before Sent waits for it ... *)
HoldAnswer(t, answer) ==
    /\ Serving(t)
    /\ safeState[t] = "awaiting_start"
    /\ ~launcherSent[t]
    /\ answer \notin heldAnswers[t] \cup resumedAnswers[t]
    /\ heldAnswers' = [heldAnswers EXCEPT ![t] = @ \cup {answer}]
    /\ UNCHANGED <<lifeVars, activityVars, fenceVars, callVars, batchTimer,
                   compactVars, pollVars, safeVars, heldClaims, resumedClaims,
                   resumedAnswers>>

(* ... and is then accepted or refused like any other. *)
ResumeAnswer(t, answer) ==
    /\ answer \in resumedAnswers[t]
    /\ Swept
    /\ resumedAnswers' = [resumedAnswers EXCEPT ![t] = @ \ {answer}]
    /\ \/ Open(t) /\ AcceptAnswer(t, answer)
       \/ /\ ~(Open(t) /\ MayAnswer(t))
          /\ UNCHANGED <<lifeVars, activityVars, fenceVars, callVars,
                         batchTimer, compactVars, pollVars, safeVars>>
    /\ UNCHANGED <<heldClaims, resumedClaims, heldAnswers>>

-------------------------------------------------------------------------------
McpStep(t) ==
    \/ \E a \in Activities : \/ Claim(t, a) \/ HoldClaim(t, a)
                             \/ AbandonClaim(t, a) \/ ResumeClaim(t, a)
                             \/ RefuseClaim(t, a) \/ CompleteActivity(t, a)
    \/ \E c \in Calls : Invoke(t, c) \/ InterceptInvoke(t, c)
    \/ \E answer \in Answers : \/ CompleteSafeTurn(t, answer)
                               \/ HoldAnswer(t, answer)
                               \/ ResumeAnswer(t, answer)
    \/ StartSafeTurn(t)

OwnerStep(t) ==
    \/ \E limit \in {"none", "ahead"} : Register(t, limit)
    \/ InstallSafeControl(t)
    \/ \E w \in Polls : \/ NextToolBatch(t, w) \/ WaitForSafeStart(t, w)
                        \/ ResumePoll(t, w) \/ AbortPoll(t, w)
    \/ \E c \in Calls : CompleteTool(t, c)
    \/ RequestCompaction(t)
    \/ \E revision \in 0..activityRevision[t] : CommitCompletionFence(t, revision)
    \/ ConfirmSafeTurnSent(t)
    \/ Revoke(t)

BrokerStep ==
    \/ Prune
    \/ Close
    \/ \E t \in Turns : PassDeadline(t) \/ BatchTimerFires(t)

Next == BrokerStep \/ \E t \in Turns : McpStep(t) \/ OwnerStep(t)

(* Continuations of ended waits; each begins with prune(). *)
Continuing == \E t \in Turns : resumedClaims[t] \cup resumedAnswers[t] \cup resumedPolls[t] # {}

(* Node's event loop runs a due timer and the continuation of a resolved   *)
(* promise; nothing obliges a client to send anything.                     *)
Fairness ==
    /\ WF_vars(Continuing /\ Prune)
    /\ \A t \in Turns : WF_vars(BatchTimerFires(t))
    /\ \A t \in Turns, a \in Activities : WF_vars(ResumeClaim(t, a) \/ RefuseClaim(t, a))
    /\ \A t \in Turns, w \in Polls : WF_vars(ResumePoll(t, w))

Spec == Init /\ [][Next]_vars /\ Fairness

-------------------------------------------------------------------------------
(* Properties *)

(* Every tool call whose promise is unsettled is in the books of exactly    *)
(* one live channel, either queued or delivered there and never both: no    *)
(* order of invoke, delivery, redelivery, completion, compaction and        *)
(* revocation loses a call's promise or leaves an id without one.           *)
CallsAccounted ==
    /\ \A t \in Turns :
         /\ queuedCallIds[t] \cup deliveredCallIds[t] = invocations[t]
         /\ queuedCallIds[t] \cap deliveredCallIds[t] = {}
         /\ \A c \in invocations[t] : Open(t) /\ outcome[c] = "pending"
         /\ \A u \in Turns \ {t} : invocations[t] \cap invocations[u] = {}
    /\ \A c \in Calls : outcome[c] = "pending" => \E t \in Turns : c \in invocations[t]

(* "Prevents a lost/retried or delayed claim from resurrecting activity     *)
(* after cleanup": no settled MCP request is ever active again, also when   *)
(* the cleanup overtakes the claim, or the claim was waiting for Sent.      *)
TombstonesHold ==
    \A t \in Turns : activities[t] \cap completedActivities[t] = {}

(* Once the browser completion has been committed no MCP request is active  *)
(* on the turn, whatever claim was in the way or was held back.             *)
CommittedIsQuiet ==
    \A t \in Turns : completionCommitted[t] => activities[t] = {}

(* A Zero Risk turn gives no access before both ends have spoken: no        *)
(* binding, no active request, no tool call and no accepted answer without  *)
(* the Launcher's Sent and the connector's start; and one that has started  *)
(* has no deadline left to expire.                                          *)
SafeAuthorised ==
    \A t \in SafeTurns :
        \/ /\ launcherSent[t] /\ connectorStarted[t]
           /\ Open(t) => safeState[t] \in {"running", "completed"} /\ deadline[t] = "none"
        \/ /\ ~bound[t]
           /\ activities[t] = {}
           /\ invocations[t] = {}
           /\ finalAnswer[t] = NoAnswer
           /\ safeState[t] \notin {"running", "completed"}

(* A completed Zero Risk turn has its answer and nothing running: no call   *)
(* and no request is admitted after completeSafeTurn accepted the answer.   *)
SafeCompletedIsQuiet ==
    \A t \in Turns : safeState[t] = "completed" =>
        activities[t] = {} /\ invocations[t] = {} /\ finalAnswer[t] \in Answers

(* A turn that the fence or its answer has closed has no active request; one *)
(* that its answer has closed has no pending call either.                   *)
ClosedIsQuiet == CommittedIsQuiet /\ SafeCompletedIsQuiet

(* Nobody is left behind.  What waits for a Zero Risk turn's Sent or start  *)
(* waits on a live turn that has not had it, and a poll waits on a live one; *)
(* it never sleeps on a non-empty queue without the batching timer that will *)
(* wake it, since scheduleToolWaiters runs only when a call is queued or a   *)
(* poll starts, and requestCompaction disarms the timer.                     *)
WaitersHaveAFuture ==
    \A t \in Turns :
        /\ waiters[t] # {} => Open(t) /\ (queuedCallIds[t] # {} => batchTimer[t])
        /\ heldClaims[t] \cup heldAnswers[t] # {} =>
             Open(t) /\ safeState[t] = "awaiting_start" /\ ~launcherSent[t]
        /\ startWaiters[t] # {} =>
             /\ Open(t) /\ safeState[t] = "awaiting_start"
             /\ ~(launcherSent[t] /\ connectorStarted[t])

(* A tool call is answered once: with its result, the compaction result or  *)
(* an error, never with two of them.                                        *)
SettledOnce ==
    [][\A c \in Calls : outcome[c] \notin {"unused", "pending"}
                           => outcome'[c] = outcome[c]]_vars

(* No continuation, late request or timer changes a turn after revoke():    *)
(* it gains no activity, binding, call, poll or answer; and the accepted    *)
(* final answer of a Zero Risk turn is never replaced.                      *)
EndedIsFinal ==
    [][\A t \in Turns :
          /\ finalAnswer[t] # NoAnswer => finalAnswer'[t] = finalAnswer[t]
          /\ phase[t] = "retired" =>
                /\ phase'[t] = "retired" /\ bound'[t] = bound[t]
                /\ activities'[t] = activities[t] /\ invocations'[t] = invocations[t]
                /\ waiters'[t] = waiters[t] /\ finalAnswer'[t] = finalAnswer[t]
                /\ safeState'[t] = safeState[t]]_vars

(* A call queued while a poll waits is offered (or answered otherwise) in   *)
(* the end, unless the polls go away.                                       *)
QueuedIsOffered ==
    \A t \in Turns, c \in Calls :
        (c \in queuedCallIds[t] /\ waiters[t] # {})
            ~> (c \notin queuedCallIds[t] \/ waiters[t] = {})

(* A claim that waited for the user's Sent is answered once Sent is         *)
(* confirmed or the turn retires.                                           *)
HeldClaimsEnd ==
    \A t \in Turns, a \in Activities :
        (a \in heldClaims[t] \cup resumedClaims[t] /\ (launcherSent[t] \/ phase[t] = "retired"))
            ~> a \notin heldClaims[t] \cup resumedClaims[t]
===============================================================================
