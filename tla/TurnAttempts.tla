----------------------------- MODULE TurnAttempts -----------------------------
(***************************************************************************)
(* What the adapter does when a browser turn fails (runTurn and            *)
(* startRuntime in src/adapters/chatgpt-web/index.ts, retry-policy.ts,     *)
(* goal-stall.ts, adapter-error.ts): which failures Codex may answer with  *)
(* the same request, which the adapter itself answers with one fresh       *)
(* browser surface, and which end the native turn.                         *)
(*                                                                         *)
(* One thread, whose native turns follow each other.  Within a turn Codex  *)
(* sends one request at a time, sends it again when it was told to or when *)
(* the connection was lost, and may lose the answer.  The clock is one     *)
(* event, after which what was kept for half an hour is out of date.       *)
(***************************************************************************)
EXTENDS Naturals

CONSTANTS
    MaxRetries,     \* MAX_CHATGPT_WEB_TURN_RETRIES, 3 in the code
    MaxStalls,      \* answers without tools after which a goal is stopped, 3 in the code
    MaxNativeTurns, \* bound: native turns of the thread
    MaxLapses,      \* bound: how often half an hour passes
    MaxRequests     \* bound: requests of one native turn

VARIABLES
    nativeTurn,     \* [number, goal, compaction, over]
    request,        \* the request Codex waits for
    safeRetryUsed,  \* its one fresh surface was used
    budget,         \* the retry policy's entry of this turn
    execution,      \* the session of this turn, or NoExecution
    connectorLost,  \* unavailableRetainedConnectorNamespaces has this namespace
    stall,          \* the stall guard's state of this thread
    requests, lapses,
    told            \* what happened to the turn so far: a history variable

\* What the bounds must be for the model to have a turn: the module of the run assumes it.
AttemptAssumption == MaxRetries \in Nat /\ MaxNativeTurns \in Nat \ {0}

attemptVars == <<nativeTurn, request, safeRetryUsed, budget, execution, connectorLost, stall,
                 requests, lapses, told>>

NoExecution == [phase |-> "none"]
NoBudget    == [retries |-> 0, stale |-> FALSE]
Untold      == [failures |-> 0, lapsed |-> FALSE, worked |-> FALSE, forgotten |-> FALSE, sends |-> 0]

Errors == {"none", "rate_limit", "upstream", "subscription",    \* retryable
           "connector", "refused",                              \* of the adapter, not retryable
           "generic"}                                           \* anything else that is thrown
Transient == {"rate_limit", "upstream", "subscription"}

AttemptTypeOK ==
    /\ nativeTurn \in [number : 1..MaxNativeTurns, goal : BOOLEAN, compaction : BOOLEAN, over : BOOLEAN]
    /\ request \in {"none", "open", "waits", "sleeps"} /\ safeRetryUsed \in BOOLEAN
    /\ budget \in [retries : 0..(MaxRetries + 1), stale : BOOLEAN]
    /\ execution = NoExecution \/ execution \in
         [phase : {"prepared", "send_activated", "accepted"}, retained : BOOLEAN, sent : BOOLEAN,
          activity : BOOLEAN, tools : BOOLEAN, outcome : {"live", "final", "unavailable", "error"},
          error : Errors, journal : BOOLEAN, stale : BOOLEAN]
    /\ connectorLost \in BOOLEAN /\ stall \in [count : Nat, number : Nat, answers : Nat]
    /\ told \in [failures : Nat, lapsed : BOOLEAN, worked : BOOLEAN, forgotten : BOOLEAN, sends : Nat]

Has == execution # NoExecution
Live == Has /\ execution.outcome = "live"
-----------------------------------------------------------------------------
\* Codex: the next turn of the thread, and the requests of one turn.
NextTurn(goal, compaction) ==
    /\ ~(goal /\ compaction) /\ nativeTurn.over /\ nativeTurn.number < MaxNativeTurns
    /\ nativeTurn' = [number |-> nativeTurn.number + 1, goal |-> goal,
                      compaction |-> compaction, over |-> FALSE]
    /\ budget' = NoBudget /\ execution' = NoExecution /\ told' = Untold /\ requests' = 0
    /\ UNCHANGED <<request, safeRetryUsed, connectorLost, stall, lapses>>

Asks ==
    /\ request = "none" /\ ~nativeTurn.over /\ requests < MaxRequests
    /\ request' = "open" /\ safeRetryUsed' = FALSE /\ requests' = requests + 1
    /\ told' = [told EXCEPT !.sends = 0]
    /\ UNCHANGED <<nativeTurn, budget, execution, connectorLost, stall, lapses>>

\* The execution of an automatic turn goes on without its observer.
Disconnects ==
    /\ request # "none" /\ request' = "none"
    /\ UNCHANGED <<nativeTurn, safeRetryUsed, budget, execution, connectorLost, stall, requests,
                   lapses, told>>

GivesUp ==
    /\ request = "none" /\ ~nativeTurn.over /\ nativeTurn' = [nativeTurn EXCEPT !.over = TRUE]
    /\ UNCHANGED <<request, safeRetryUsed, budget, execution, connectorLost, stall, requests,
                   lapses, told>>

\* A final answer or an error that may not be retried ends the turn, if Codex gets to hear of it.
Answered ==
    /\ request' = "none"
    /\ \E heard \in BOOLEAN : nativeTurn' = [nativeTurn EXCEPT !.over = heard]

HalfAnHour ==
    /\ lapses < MaxLapses /\ lapses' = lapses + 1
    /\ budget' = [budget EXCEPT !.stale = @ \/ budget # NoBudget]
    /\ execution' = IF Has THEN [execution EXCEPT !.stale = TRUE] ELSE NoExecution
    /\ UNCHANGED <<nativeTurn, request, safeRetryUsed, connectorLost, stall, requests, told>>

\* Another thread's turn prunes the registry.
PruneSession ==
    /\ Has /\ ~Live /\ execution.stale /\ request # "waits" /\ execution' = NoExecution
    /\ told' = [told EXCEPT !.forgotten = TRUE]
    /\ UNCHANGED <<nativeTurn, request, safeRetryUsed, budget, connectorLost, stall, requests, lapses>>
-----------------------------------------------------------------------------
\* The guards of a request, in their order: the stalled goal, the budget, the environment.
Retries == IF budget.stale THEN 0 ELSE budget.retries
Exhausted == Retries > MaxRetries

Guarded == ~nativeTurn.compaction
ShouldStop == Guarded /\ nativeTurn.goal /\ stall.count >= MaxStalls
Watched ==
    stall' = IF Guarded /\ ~nativeTurn.goal THEN [stall EXCEPT !.count = 0, !.number = 0, !.answers = 0]
             ELSE stall

Refused ==
    /\ request = "open" /\ Watched /\ Answered
    /\ UNCHANGED <<safeRetryUsed, budget, execution, connectorLost, requests, lapses, told>>
StoppedForStall     == ShouldStop /\ Refused
StoppedForBudget    == ~ShouldStop /\ Exhausted /\ Refused
EnvironmentMissing  == ~ShouldStop /\ ~Exhausted /\ Guarded /\ Refused

Admitted == request = "open" /\ ~ShouldStop /\ ~Exhausted /\ Watched

\* startRuntime: a conversation is retained unless this is the fresh surface of a safe retry.
Retains == ~nativeTurn.compaction /\ ~safeRetryUsed /\ ~connectorLost
Starts ==
    /\ Admitted /\ ~Has /\ request' = "waits"
    /\ \E retained \in {FALSE, Retains} :
         execution' = [phase |-> "prepared", retained |-> retained, sent |-> FALSE, activity |-> FALSE,
                       tools |-> FALSE, outcome |-> "live", error |-> "none", journal |-> FALSE,
                       stale |-> FALSE]
    /\ UNCHANGED <<nativeTurn, safeRetryUsed, budget, connectorLost, requests, lapses, told>>
Joins ==
    /\ Admitted /\ Live /\ request' = "waits" /\ execution' = [execution EXCEPT !.stale = FALSE]
    /\ UNCHANGED <<nativeTurn, safeRetryUsed, budget, connectorLost, requests, lapses, told>>

\* A round that has its terminal event, or an answer that came meanwhile, is replayed.
ReplaysAnswer ==
    /\ Admitted /\ Has /\ ~Live /\ execution.journal /\ Answered
    /\ execution' = [execution EXCEPT !.stale = FALSE]
    /\ UNCHANGED <<safeRetryUsed, budget, connectorLost, requests, lapses, told>>
AnswersLate ==
    /\ Admitted /\ Has /\ execution.outcome \in {"final", "unavailable"} /\ ~execution.journal
    /\ Answered /\ budget' = NoBudget
    /\ execution' = [execution EXCEPT !.stale = FALSE, !.journal = TRUE]
    /\ UNCHANGED <<safeRetryUsed, connectorLost, requests, lapses, told>>
FailsLate ==
    /\ Admitted /\ Has /\ execution.outcome = "error" /\ ~execution.journal /\ request' = "waits"
    /\ execution' = [execution EXCEPT !.stale = FALSE]
    /\ UNCHANGED <<nativeTurn, safeRetryUsed, budget, connectorLost, requests, lapses, told>>
-----------------------------------------------------------------------------
\* The browser.  A compaction's prompt has no effects and stays "prepared" although it is sent.
Browser(next) ==
    execution' = next /\ UNCHANGED <<nativeTurn, request, safeRetryUsed, budget, connectorLost,
                                     stall, requests, lapses>>
Phase(p) == IF nativeTurn.compaction THEN execution.phase ELSE p

SendActivated ==
    /\ Live /\ ~execution.sent
    /\ Browser([execution EXCEPT !.sent = TRUE, !.phase = Phase("send_activated")])
    /\ told' = [told EXCEPT !.sends = @ + 1]
Submitted ==
    /\ Live /\ execution.sent /\ execution.phase # "accepted" /\ ~nativeTurn.compaction
    /\ Browser([execution EXCEPT !.phase = Phase("accepted")]) /\ UNCHANGED told
Works(tools) ==
    /\ Live /\ execution.phase = "accepted" /\ ~execution.activity
    /\ Browser([execution EXCEPT !.activity = TRUE, !.tools = tools]) /\ UNCHANGED told
Finishes(answer) ==
    /\ Live /\ execution.sent /\ execution.phase # "send_activated"
    /\ Browser([execution EXCEPT !.outcome = answer]) /\ UNCHANGED told

CanFail(error) ==
    /\ error # "none"
    /\ error = "connector" => ~execution.sent /\ ~nativeTurn.compaction
BrowserFails(error) ==
    /\ Live /\ CanFail(error)
    /\ Browser([execution EXCEPT !.outcome = "error", !.error = error]) /\ UNCHANGED told
-----------------------------------------------------------------------------
\* The end of an attempt, when its observer gets to it.
Effects == execution.phase # "prepared" /\ ~(execution.error \in Transient /\ ~execution.activity)
Retire(then) ==
    execution' = NoExecution /\ told' = [then EXCEPT !.worked = @ \/ Effects]
Journal ==
    execution' = [execution EXCEPT !.journal = TRUE]

\* Count the answers that called no tool and said that there are none.
Observed ==
    stall' = IF ~Guarded THEN stall
             ELSE IF ~nativeTurn.goal THEN [stall EXCEPT !.count = 0, !.number = 0, !.answers = 0]
             ELSE IF stall.number = nativeTurn.number THEN stall
             ELSE LET stuck == execution.outcome = "unavailable" /\ ~execution.tools
                  IN  [count |-> IF stuck THEN stall.count + 1 ELSE 0, number |-> nativeTurn.number,
                       answers |-> IF stuck THEN stall.answers + 1 ELSE 0]

Completes ==
    /\ request = "waits" /\ Has /\ execution.outcome \in {"final", "unavailable"}
    /\ Observed /\ Journal /\ budget' = NoBudget /\ Answered
    /\ UNCHANGED <<safeRetryUsed, connectorLost, requests, lapses, told>>

Failed == request = "waits" /\ Has /\ execution.outcome = "error" /\ ~execution.journal

\* mutant: the error alone decides.
RetryableAlways == execution.error \in Transient

\* submittedTurnFailure: what was sent may have executed tools, whatever the error says of itself.
Retryable == execution.error \in Transient /\ execution.phase = "prepared"
OfAdapter == execution.error # "generic" \/ execution.phase # "prepared"

LostConnector == execution.error = "connector" /\ execution.retained /\ execution.phase = "prepared"
EmptyUpstream == execution.error \in {"upstream", "rate_limit"} /\ execution.phase = "accepted"
SafeToRetry   == (LostConnector \/ EmptyUpstream) /\ ~execution.activity /\ ~safeRetryUsed

RetriesSafely ==
    /\ Failed /\ SafeToRetry /\ Retire(told) /\ safeRetryUsed' = TRUE /\ request' = "sleeps"
    /\ connectorLost' = (connectorLost \/ LostConnector)
    /\ UNCHANGED <<nativeTurn, budget, stall, requests, lapses>>
Wakes ==
    /\ request = "sleeps" /\ request' = "open"
    /\ UNCHANGED <<nativeTurn, safeRetryUsed, budget, execution, connectorLost, stall, requests,
                   lapses, told>>

Recorded == [retries |-> Retries + 1, stale |-> FALSE]
Counted  == [told EXCEPT !.failures = @ + 1, !.lapsed = @ \/ budget.stale]

MayBeRetried ==
    /\ Failed /\ ~SafeToRetry /\ Retryable /\ Retries < MaxRetries
    /\ budget' = Recorded /\ Retire(Counted)
    /\ request' = "none"
    /\ UNCHANGED <<nativeTurn, safeRetryUsed, connectorLost, stall, requests, lapses>>
Exhausts ==
    /\ Failed /\ ~SafeToRetry /\ Retryable /\ Retries >= MaxRetries
    /\ budget' = Recorded /\ Journal /\ told' = Counted /\ Answered
    /\ UNCHANGED <<safeRetryUsed, connectorLost, stall, requests, lapses>>
EndsTurn ==
    /\ Failed /\ ~SafeToRetry /\ ~Retryable /\ OfAdapter
    /\ budget' = NoBudget /\ Journal /\ Answered
    /\ UNCHANGED <<safeRetryUsed, connectorLost, stall, requests, lapses, told>>

\* Neither sent nor refused: the stream breaks, and Codex may ask again.
Throws ==
    /\ Failed /\ ~SafeToRetry /\ ~OfAdapter
    /\ budget' = NoBudget /\ Retire([told EXCEPT !.failures = 0]) /\ request' = "none"
    /\ UNCHANGED <<nativeTurn, safeRetryUsed, connectorLost, stall, requests, lapses>>
-----------------------------------------------------------------------------
AttemptInit ==
    /\ \E goal, compaction \in BOOLEAN :
        ~(goal /\ compaction) /\ nativeTurn = [number |-> 1, goal |-> goal, compaction |-> compaction, over |-> FALSE]
    /\ request = "none" /\ safeRetryUsed = FALSE /\ budget = NoBudget /\ execution = NoExecution
    /\ connectorLost = FALSE /\ stall = [count |-> 0, number |-> 0, answers |-> 0]
    /\ requests = 0 /\ lapses = 0 /\ told = Untold

AttemptNext ==
    \/ \E goal, compaction \in BOOLEAN : NextTurn(goal, compaction)
    \/ Asks \/ Disconnects \/ GivesUp \/ HalfAnHour \/ PruneSession
    \/ StoppedForStall \/ StoppedForBudget \/ EnvironmentMissing
    \/ Starts \/ Joins \/ ReplaysAnswer \/ AnswersLate \/ FailsLate
    \/ SendActivated \/ Submitted \/ \E tools \in BOOLEAN : Works(tools)
    \/ \E answer \in {"final", "unavailable"} : Finishes(answer)
    \/ \E error \in Errors : BrowserFails(error)
    \/ Completes \/ RetriesSafely \/ Wakes \/ MayBeRetried \/ Exhausts \/ EndsTurn \/ Throws

AttemptSpec == AttemptInit /\ [][AttemptNext]_attemptVars
-----------------------------------------------------------------------------
(***************************************************************************)
(* "Normal task prompts must never be replayed after Send activation": a   *)
(* prompt is sent again only when every earlier send of its turn came to   *)
(* an upstream error before ChatGPT did anything, however the requests     *)
(* were lost and repeated, unless the turn was forgotten after half an     *)
(* hour (startRuntime, submittedTurnFailure, safeToRetry).                 *)
(***************************************************************************)
NeverReplayed ==
    /\ Has /\ execution.phase # "prepared" => ~told.worked \/ told.forgotten
    /\ ~nativeTurn.compaction => told.sends <= 2 \/ told.forgotten

(***************************************************************************)
(* A turn is not attempted again once its budget is spent, across requests *)
(* and lost answers; only half an hour between two failures, or a failure  *)
(* of another kind, starts a new budget (ChatGptWebTurnRetryPolicy).       *)
(***************************************************************************)
BudgetBounds ==
    told.failures > MaxRetries /\ ~told.lapsed /\ ~budget.stale /\ ~told.forgotten => ~Live

(***************************************************************************)
(* After three answers that called no tool and said there is none, a goal  *)
(* sends nothing more until its user says something (GoalToolStallGuard).  *)
(***************************************************************************)
StalledGoalStops ==
    Guarded /\ nativeTurn.goal /\ stall.answers >= MaxStalls => ~Live \/ stall.number = nativeTurn.number

(***************************************************************************)
(* No failure, retry, disconnect or lost answer repeats work: sends that   *)
(* may have had effects, attempts without a budget, goals without tools.   *)
(***************************************************************************)
AttemptsHold == AttemptTypeOK /\ NeverReplayed /\ BudgetBounds /\ StalledGoalStops
=============================================================================
