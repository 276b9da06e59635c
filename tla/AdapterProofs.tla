----------------------------- MODULE AdapterProofs -----------------------------
(***************************************************************************)
(* What the adapter keeps of a thread, for any number of compactions, keys,  *)
(* threads, failures and requests: no failure repeats what may have worked,  *)
(* one compaction of a thread acts at a time, a compaction transaction is    *)
(* used once, and a turn runs with the authority Codex has for it.           *)
(***************************************************************************)
EXTENDS CompactionTransaction, StructuredCompaction, TurnAttempts, ThreadEnvironments,
        FiniteSetTheorems, TLAPS


--------------------------------------------------------------------------------
(* The attempts of a turn *)

(* Nothing that may have worked is given up for another attempt, so a turn is    *)
(* never told that it did.                                                       *)
NothingWasLost == ~told.worked

(* A prompt that was sent is known to be, but for a compaction's.  Within one    *)
(* request a second surface is the one that was allowed.                         *)
Spent == IF safeRetryUsed THEN 1 ELSE 0
SendsSound ==
    /\ Has /\ ~nativeTurn.compaction => (execution.sent <=> execution.phase # "prepared")
    /\ ~nativeTurn.compaction /\ ~told.forgotten =>
          told.sends <= IF Has /\ execution.sent THEN Spent + 1 ELSE Spent

(* A round that has its terminal event is over.  The failures of a turn are in   *)
(* its budget, unless it lapsed, or the round that cleared it stands for the     *)
(* turn; and who runs was admitted with a budget.                                *)
BudgetSound ==
    /\ Has /\ execution.journal => ~Live
    /\ ~told.lapsed /\ ~budget.stale /\ ~told.forgotten =>
          told.failures <= budget.retries \/ (Has /\ execution.journal)
    /\ Has /\ ~execution.journal => Retries <= MaxRetries

(* Every answer without tools that was counted said that there are none.         *)
StallSound == stall.count = stall.answers

AttemptSound ==
    /\ AttemptTypeOK /\ NothingWasLost /\ SendsSound /\ BudgetSound /\ StallSound /\ StalledGoalStops

(* The sessions of a turn.                                                       *)
Executions ==
    [phase : {"prepared", "send_activated", "accepted"}, retained : BOOLEAN, sent : BOOLEAN,
     activity : BOOLEAN, tools : BOOLEAN, outcome : {"live", "final", "unavailable", "error"},
     error : Errors, journal : BOOLEAN, stale : BOOLEAN]

(* A session is not what stands for none.                                        *)
LEMMA ExecutionIsOne == NoExecution \notin Executions
<1>1. SUFFICES ASSUME NoExecution \in Executions PROVE FALSE
    OBVIOUS
<1>2. NoExecution.phase \in {"prepared", "send_activated", "accepted"}
    BY <1>1 DEF Executions
<1> QED
    BY <1>2 DEF NoExecution

(* What a step changes of a session, and what it leaves.                         *)
LEMMA ExecutionChanges ==
    ASSUME NEW e \in Executions
    PROVE  /\ \A x \in BOOLEAN : [e EXCEPT !.stale = x] \in Executions
           /\ \A x \in BOOLEAN : [e EXCEPT !.journal = x] \in Executions
           /\ [e EXCEPT !.stale = FALSE, !.journal = TRUE] \in Executions
           /\ \A p \in {"prepared", "send_activated", "accepted"} :
                /\ [e EXCEPT !.phase = p] \in Executions
                /\ [e EXCEPT !.sent = TRUE, !.phase = p] \in Executions
           /\ \A x \in BOOLEAN : [e EXCEPT !.activity = TRUE, !.tools = x] \in Executions
           /\ \A x \in {"live", "final", "unavailable", "error"} : [e EXCEPT !.outcome = x] \in Executions
           /\ \A x \in Errors : [e EXCEPT !.outcome = "error", !.error = x] \in Executions
<1>1. /\ \A x \in BOOLEAN : [e EXCEPT !.stale = x] \in Executions
      /\ \A x \in BOOLEAN : [e EXCEPT !.journal = x] \in Executions
    BY DEF Executions
<1>2. [e EXCEPT !.stale = FALSE, !.journal = TRUE] \in Executions
    BY DEF Executions
<1>3. \A p \in {"prepared", "send_activated", "accepted"} : [e EXCEPT !.phase = p] \in Executions
    BY DEF Executions
<1>4. \A p \in {"prepared", "send_activated", "accepted"} : [e EXCEPT !.sent = TRUE, !.phase = p] \in Executions
    BY DEF Executions
<1>5. \A x \in BOOLEAN : [e EXCEPT !.activity = TRUE, !.tools = x] \in Executions
    BY DEF Executions
<1>6. \A x \in {"live", "final", "unavailable", "error"} : [e EXCEPT !.outcome = x] \in Executions
    BY DEF Executions
<1>7. \A x \in Errors : [e EXCEPT !.outcome = "error", !.error = x] \in Executions
    BY DEF Executions
<1> QED
    BY <1>1, <1>2, <1>3, <1>4, <1>5, <1>6, <1>7

(* The type, part by part.                                                       *)
RestTyped ==
    /\ nativeTurn \in [number : 1..MaxNativeTurns, goal : BOOLEAN, compaction : BOOLEAN, over : BOOLEAN]
    /\ request \in {"none", "open", "waits", "sleeps"} /\ safeRetryUsed \in BOOLEAN
    /\ budget \in [retries : 0..(MaxRetries + 1), stale : BOOLEAN]
    /\ connectorLost \in BOOLEAN /\ stall \in [count : Nat, number : Nat, answers : Nat]
    /\ told \in [failures : Nat, lapsed : BOOLEAN, worked : BOOLEAN, forgotten : BOOLEAN, sends : Nat]
ExecutionTyped == execution = NoExecution \/ execution \in Executions
LEMMA AttemptTypes ==
    /\ AttemptTypeOK <=> RestTyped /\ ExecutionTyped
    /\ AttemptTypeOK' <=> RestTyped' /\ ExecutionTyped'
BY DEF AttemptTypeOK, RestTyped, ExecutionTyped, Executions

(* Every step keeps the type of the session.                                     *)
LEMMA ExecutionStep == ExecutionTyped /\ [AttemptNext]_attemptVars => ExecutionTyped'
<1> SUFFICES ASSUME ExecutionTyped, [AttemptNext]_attemptVars PROVE ExecutionTyped'
    OBVIOUS
<1>0. execution # NoExecution => execution \in Executions
    BY DEF ExecutionTyped
<1>1. CASE UNCHANGED execution \/ execution' = NoExecution
    BY <1>1 DEF ExecutionTyped
<1>2. CASE HalfAnHour \/ Joins \/ FailsLate \/ ReplaysAnswer
    BY <1>0, <1>2, ExecutionChanges DEF HalfAnHour, Joins, FailsLate, ReplaysAnswer, Has, Live, ExecutionTyped
<1>3. CASE Starts
  <2>1. Retains \in BOOLEAN
      BY DEF Retains
  <2>2. PICK retained \in BOOLEAN :
           execution' = [phase |-> "prepared", retained |-> retained, sent |-> FALSE, activity |-> FALSE,
                         tools |-> FALSE, outcome |-> "live", error |-> "none", journal |-> FALSE,
                         stale |-> FALSE]
      BY <1>3, <2>1 DEF Starts
  <2> QED
      BY <2>2 DEF ExecutionTyped, Executions, Errors
<1>4. CASE AnswersLate
    BY <1>0, <1>4, ExecutionChanges DEF AnswersLate, Has, ExecutionTyped
<1>5. CASE SendActivated
  <2>1. execution \in Executions
      BY <1>0, <1>5 DEF SendActivated, Live, Has
  <2>2. Phase("send_activated") \in {"prepared", "send_activated", "accepted"}
      BY <2>1 DEF Phase, Executions
  <2> QED
      BY <1>5, <2>1, <2>2, ExecutionChanges DEF SendActivated, Browser, ExecutionTyped
<1>6. CASE Submitted
  <2>1. execution \in Executions
      BY <1>0, <1>6 DEF Submitted, Live, Has
  <2>2. Phase("accepted") \in {"prepared", "send_activated", "accepted"}
      BY <2>1 DEF Phase, Executions
  <2> QED
      BY <1>6, <2>1, <2>2, ExecutionChanges DEF Submitted, Browser, ExecutionTyped
<1>7. ASSUME NEW tools \in BOOLEAN, Works(tools) PROVE ExecutionTyped'
    BY <1>0, <1>7, ExecutionChanges DEF Works, Live, Has, Browser, ExecutionTyped
<1>8. ASSUME NEW answer \in {"final", "unavailable"}, Finishes(answer) PROVE ExecutionTyped'
    BY <1>0, <1>8, ExecutionChanges DEF Finishes, Live, Has, Browser, ExecutionTyped
<1>9. ASSUME NEW error \in Errors, BrowserFails(error) PROVE ExecutionTyped'
    BY <1>0, <1>9, ExecutionChanges DEF BrowserFails, Live, Has, Browser, ExecutionTyped
<1>10. CASE Completes \/ Exhausts \/ EndsTurn
    BY <1>0, <1>10, ExecutionChanges DEF Completes, Exhausts, EndsTurn, Failed, Has, Journal,
       ExecutionTyped
<1>11. CASE RetriesSafely \/ MayBeRetried \/ Throws
    BY <1>1, <1>11 DEF RetriesSafely, MayBeRetried, Throws, Retire
<1>12. CASE \/ \E goal, compaction \in BOOLEAN : NextTurn(goal, compaction)
            \/ Asks \/ Disconnects \/ GivesUp \/ PruneSession
            \/ StoppedForStall \/ StoppedForBudget \/ EnvironmentMissing \/ Wakes \/ UNCHANGED attemptVars
    BY <1>1, <1>12 DEF NextTurn, Asks, Disconnects, GivesUp, PruneSession, StoppedForStall, StoppedForBudget,
       EnvironmentMissing, Refused, Wakes, attemptVars
<1> QED
    BY <1>2, <1>3, <1>4, <1>5, <1>6, <1>7, <1>8, <1>9, <1>10, <1>11, <1>12 DEF AttemptNext

(* What a step may do to the turn's books: clear the budget, or count a failure. *)
LEMMA AttemptChanges ==
    ASSUME AttemptAssumption, RestTyped
    PROVE  /\ NoBudget \in [retries : 0..(MaxRetries + 1), stale : BOOLEAN]
           /\ Retries <= MaxRetries => Recorded \in [retries : 0..(MaxRetries + 1), stale : BOOLEAN]
           /\ \A x \in BOOLEAN : [budget EXCEPT !.stale = x] \in [retries : 0..(MaxRetries + 1), stale : BOOLEAN]
           /\ \A x \in BOOLEAN : [nativeTurn EXCEPT !.over = x] \in
                [number : 1..MaxNativeTurns, goal : BOOLEAN, compaction : BOOLEAN, over : BOOLEAN]
BY DEF AttemptAssumption, RestTyped, NoBudget, Recorded, Retries

(* What is told of a turn.                                                       *)
Tolds == [failures : Nat, lapsed : BOOLEAN, worked : BOOLEAN, forgotten : BOOLEAN, sends : Nat]
LEMMA ToldChanges ==
    ASSUME RestTyped
    PROVE  /\ told \in Tolds /\ Counted \in Tolds /\ [told EXCEPT !.failures = 0] \in Tolds
           /\ \A t \in Tolds, x \in BOOLEAN : [t EXCEPT !.worked = @ \/ x] \in Tolds
<1>1. told \in Tolds /\ [told EXCEPT !.failures = 0] \in Tolds
    BY DEF RestTyped, Tolds
<1>2. Counted \in Tolds
  <2>1. ASSUME NEW b \in BOOLEAN PROVE [told EXCEPT !.failures = @ + 1, !.lapsed = @ \/ b] \in Tolds
    <3>1. told.failures + 1 \in Nat /\ (told.lapsed \/ b) \in BOOLEAN
        BY DEF RestTyped
    <3> QED
        BY <3>1 DEF RestTyped, Tolds
  <2>2. budget.stale \in BOOLEAN
      BY DEF RestTyped
  <2> QED
      BY <2>1, <2>2, Zenon DEF Counted
<1>3. ASSUME NEW t \in Tolds, NEW x \in BOOLEAN PROVE [t EXCEPT !.worked = @ \/ x] \in Tolds
  <2>1. (t.worked \/ x) \in BOOLEAN
      OBVIOUS
  <2> QED
      BY <2>1 DEF Tolds
<1> QED
    BY <1>1, <1>2, <1>3

(* Every step keeps the rest of the type.                                        *)
LEMMA RestStep ==
    ASSUME AttemptAssumption, RestTyped, Has /\ ~execution.journal => Retries <= MaxRetries,
           [AttemptNext]_attemptVars
    PROVE  RestTyped'
<1>0. /\ nativeTurn.number \in 1..MaxNativeTurns /\ nativeTurn.number \in Nat /\ MaxNativeTurns \in Nat \ {0}
      /\ budget.stale \in BOOLEAN /\ told.sends + 1 \in Nat /\ stall.count + 1 \in Nat /\ stall.answers + 1 \in Nat
    BY DEF RestTyped, AttemptAssumption
<1>a. ASSUME Answered PROVE /\ request' \in {"none", "open", "waits", "sleeps"}
                            /\ nativeTurn' \in [number : 1..MaxNativeTurns, goal : BOOLEAN,
                                                compaction : BOOLEAN, over : BOOLEAN]
    BY <1>a, AttemptChanges DEF Answered
<1>b. ASSUME Watched \/ Observed PROVE stall' \in [count : Nat, number : Nat, answers : Nat]
  <2>1. CASE stall' = stall \/ stall' = [stall EXCEPT !.count = 0, !.number = 0, !.answers = 0]
    <3>1. stall \in [count : Nat, number : Nat, answers : Nat]
        BY DEF RestTyped
    <3>2. [stall EXCEPT !.count = 0, !.number = 0, !.answers = 0] \in [count : Nat, number : Nat, answers : Nat]
        BY <3>1
    <3> QED
        BY <2>1, <3>1, <3>2
  <2>2. CASE ~(stall' = stall \/ stall' = [stall EXCEPT !.count = 0, !.number = 0, !.answers = 0])
    <3>1. PICK count \in Nat, answers \in Nat :
             stall' = [count |-> count, number |-> nativeTurn.number, answers |-> answers]
        BY <1>0, <1>b, <2>2 DEF Watched, Observed
    <3> QED
        BY <1>0, <3>1
  <2> QED
      BY <2>1, <2>2
<1>1. ASSUME NEW goal \in BOOLEAN, NEW compaction \in BOOLEAN, NextTurn(goal, compaction)
      PROVE  RestTyped'
  <2>1. nativeTurn.number + 1 \in 1..MaxNativeTurns
      BY <1>0, <1>1 DEF NextTurn
  <2> QED
      BY <1>1, <2>1, AttemptChanges DEF NextTurn, RestTyped, Untold
<1>2. CASE Asks \/ Disconnects \/ GivesUp \/ PruneSession \/ Wakes
  <2>1. [told EXCEPT !.sends = 0] \in Tolds /\ [told EXCEPT !.forgotten = TRUE] \in Tolds
      BY DEF RestTyped, Tolds
  <2> QED
      BY <1>2, <2>1, AttemptChanges DEF Asks, Disconnects, GivesUp, PruneSession, Wakes, RestTyped, Tolds
<1>3. CASE HalfAnHour
  <2>1. (budget.stale \/ budget # NoBudget) \in BOOLEAN
      OBVIOUS
  <2>2. budget' \in [retries : 0..(MaxRetries + 1), stale : BOOLEAN]
      BY <1>3, <2>1, AttemptChanges DEF HalfAnHour
  <2> QED
      BY <1>3, <2>2 DEF HalfAnHour, RestTyped
<1>4. CASE StoppedForStall \/ StoppedForBudget \/ EnvironmentMissing
    BY <1>4, <1>a, <1>b DEF StoppedForStall, StoppedForBudget, EnvironmentMissing, Refused, RestTyped
<1>5. CASE Starts \/ Joins \/ FailsLate
    BY <1>5, <1>b DEF Starts, Joins, FailsLate, Admitted, RestTyped
<1>6. CASE ReplaysAnswer \/ AnswersLate \/ Completes
    BY <1>6, <1>a, <1>b, AttemptChanges DEF ReplaysAnswer, AnswersLate, Completes, Admitted, RestTyped
<1>7. CASE SendActivated \/ Submitted
    BY <1>0, <1>7 DEF SendActivated, Submitted, Browser, RestTyped
<1>8. CASE \/ \E tools \in BOOLEAN : Works(tools)
           \/ \E answer \in {"final", "unavailable"} : Finishes(answer)
           \/ \E error \in Errors : BrowserFails(error)
    BY <1>8 DEF Works, Finishes, BrowserFails, Browser, RestTyped
<1>9. Effects \in BOOLEAN
    BY DEF Effects
<1>10. CASE RetriesSafely
  <2>1. told' \in Tolds
      BY <1>0, <1>9, <1>10, ToldChanges DEF RetriesSafely, Retire
  <2>2. (connectorLost \/ LostConnector) \in BOOLEAN
      BY DEF RestTyped
  <2> QED
      BY <1>10, <2>1, <2>2 DEF RetriesSafely, RestTyped, Tolds
<1>11. CASE MayBeRetried
  <2>1. told' \in Tolds
      BY <1>0, <1>9, <1>11, ToldChanges DEF MayBeRetried, Retire
  <2>2. Retries <= MaxRetries
      BY <1>11 DEF MayBeRetried, Failed
  <2> QED
      BY <1>11, <2>1, <2>2, AttemptChanges DEF MayBeRetried, RestTyped, Tolds
<1>12. CASE Exhausts
  <2>1. told' \in Tolds
      BY <1>0, <1>12, ToldChanges DEF Exhausts
  <2>2. Retries <= MaxRetries
      BY <1>12 DEF Exhausts, Failed
  <2> QED
      BY <1>12, <1>a, <2>1, <2>2, AttemptChanges DEF Exhausts, RestTyped, Tolds
<1>13. CASE EndsTurn
    BY <1>13, <1>a, AttemptChanges DEF EndsTurn, RestTyped
<1>14. CASE Throws
  <2>1. told' \in Tolds
      BY <1>0, <1>9, <1>14, ToldChanges DEF Throws, Retire
  <2> QED
      BY <1>14, <2>1, AttemptChanges DEF Throws, RestTyped, Tolds
<1>15. CASE UNCHANGED attemptVars
    BY <1>15 DEF RestTyped, attemptVars
<1> QED
    BY <1>1, <1>2, <1>3, <1>4, <1>5, <1>6, <1>7, <1>8, <1>10, <1>11, <1>12, <1>13, <1>14, <1>15
    DEF AttemptNext

(* A turn that is answered may be over; it is the same turn.                      *)
LEMMA AnsweredSays ==
    ASSUME RestTyped, Answered
    PROVE  /\ nativeTurn'.number = nativeTurn.number /\ nativeTurn'.goal = nativeTurn.goal
           /\ nativeTurn'.compaction = nativeTurn.compaction
BY DEF RestTyped, Answered

(* A user who says something sets the guard back.                                *)
LEMMA WatchedSays ==
    ASSUME RestTyped, Watched
    PROVE  stall' = stall \/ (stall'.count = 0 /\ stall'.answers = 0 /\ ~nativeTurn.goal)
BY DEF RestTyped, Watched

(* A session that is asked for again, or whose answer is given, is the same.     *)
Touched ==
    /\ Has
    /\ execution' = [execution EXCEPT !.stale = FALSE] \/ execution' = [execution EXCEPT !.stale = FALSE, !.journal = TRUE]
LEMMA TouchedSays ==
    ASSUME ExecutionTyped, Touched
    PROVE  /\ Has /\ Has' /\ execution.sent \in BOOLEAN /\ execution'.phase = execution.phase /\ execution'.sent = execution.sent
           /\ execution'.outcome = execution.outcome /\ (execution.journal => execution'.journal)
           /\ execution' = [execution EXCEPT !.stale = FALSE] => execution'.journal = execution.journal
           /\ execution' = [execution EXCEPT !.stale = FALSE, !.journal = TRUE] => execution'.journal
           /\ Live' <=> Live
<1>1. execution \in Executions
    BY DEF ExecutionTyped, Touched, Has
<1>2. execution' \in Executions
    BY <1>1, ExecutionChanges DEF Touched
<1>3. execution' # NoExecution
    BY <1>2, ExecutionIsOne
<1>4. /\ execution.sent \in BOOLEAN /\ execution'.phase = execution.phase /\ execution'.sent = execution.sent
      /\ execution'.outcome = execution.outcome /\ (execution.journal => execution'.journal)
      /\ execution' = [execution EXCEPT !.stale = FALSE] => execution'.journal = execution.journal
      /\ execution' = [execution EXCEPT !.stale = FALSE, !.journal = TRUE] => execution'.journal
    BY <1>1 DEF Touched, Executions
<1> QED
    BY <1>3, <1>4 DEF Has, Live, Touched

(* No step gives up what may have worked. *)
LEMMA WorkedStep ==
    ASSUME AttemptAssumption, AttemptSound, AttemptTypeOK', [AttemptNext]_attemptVars
    PROVE  NothingWasLost'
<1>0. AttemptTypeOK /\ RestTyped /\ ExecutionTyped /\ NothingWasLost /\ SendsSound
    BY AttemptTypes DEF AttemptSound
<1> USE DEF NothingWasLost, RestTyped, ExecutionTyped, Executions, Has, Live
<1>1. ASSUME NEW goal \in BOOLEAN, NEW compaction \in BOOLEAN, NextTurn(goal, compaction)
      PROVE  NothingWasLost'
    BY <1>0, <1>1, ExecutionIsOne DEF NextTurn, Untold, NoBudget
<1>2. CASE Asks
    BY <1>0, <1>2, ExecutionIsOne DEF Asks
<1>3. CASE Disconnects \/ GivesUp
    BY <1>0, <1>3, ExecutionIsOne DEF Disconnects, GivesUp
<1>4. CASE HalfAnHour
    BY <1>0, <1>4, ExecutionIsOne DEF HalfAnHour, NoBudget
<1>5. CASE PruneSession
    BY <1>0, <1>5, ExecutionIsOne DEF PruneSession
<1>6. CASE StoppedForStall \/ StoppedForBudget \/ EnvironmentMissing
    BY <1>0, <1>6, ExecutionIsOne DEF StoppedForStall, StoppedForBudget, EnvironmentMissing, Refused,
       Answered, Watched, ShouldStop
<1>7. CASE Starts
    BY <1>0, <1>7, ExecutionIsOne DEF Starts, Admitted, Watched, ShouldStop, Exhausted
<1>8. CASE Joins \/ FailsLate
    BY <1>0, <1>8, ExecutionIsOne DEF Joins, FailsLate, Admitted, Watched, ShouldStop, Exhausted
<1>9. CASE ReplaysAnswer \/ AnswersLate
    BY <1>0, <1>9, ExecutionIsOne DEF ReplaysAnswer, AnswersLate, Admitted, Watched, ShouldStop, Exhausted,
       Answered, NoBudget
<1>10. CASE SendActivated
    BY <1>0, <1>10, ExecutionIsOne DEF SendActivated, Browser, Phase
<1>11. CASE Submitted
    BY <1>0, <1>11, ExecutionIsOne DEF Submitted, Browser, Phase
<1>12. ASSUME NEW tools \in BOOLEAN, Works(tools) PROVE NothingWasLost'
    BY <1>0, <1>12, ExecutionIsOne DEF Works, Browser
<1>13. ASSUME NEW answer \in {"final", "unavailable"}, Finishes(answer) PROVE NothingWasLost'
    BY <1>0, <1>13, ExecutionIsOne DEF Finishes, Browser
<1>14. ASSUME NEW error \in Errors, BrowserFails(error) PROVE NothingWasLost'
    BY <1>0, <1>14, ExecutionIsOne DEF BrowserFails, Browser
<1>15. CASE Completes
    BY <1>0, <1>15, ExecutionIsOne DEF Completes, Observed, Journal, Answered, NoBudget
<1>16. CASE RetriesSafely
    BY <1>0, <1>16, ExecutionIsOne DEF RetriesSafely, Failed, SafeToRetry, LostConnector,
       EmptyUpstream, Transient, Retire, Effects
<1>17. CASE Wakes
    BY <1>0, <1>17, ExecutionIsOne DEF Wakes
<1>18. CASE MayBeRetried
    BY <1>0, <1>18, ExecutionIsOne DEF MayBeRetried, Failed, Retryable, Retire, Effects, Recorded,
       Counted
<1>19. CASE Exhausts
    BY <1>0, <1>19, ExecutionIsOne DEF Exhausts, Failed, Recorded, Counted, Journal, Answered
<1>20. CASE EndsTurn
    BY <1>0, <1>20, ExecutionIsOne DEF EndsTurn, Failed, Journal, Answered, NoBudget
<1>21. CASE Throws
    BY <1>0, <1>21, ExecutionIsOne DEF Throws, Failed, OfAdapter, Retire, Effects, NoBudget
<1>22. CASE UNCHANGED attemptVars
    BY <1>0, <1>22, ExecutionIsOne DEF attemptVars
<1> QED
    BY <1>1, <1>2, <1>3, <1>4, <1>5, <1>6, <1>7, <1>8, <1>9, <1>10, <1>11, <1>12, <1>13, <1>14, <1>15,
       <1>16, <1>17, <1>18, <1>19, <1>20, <1>21, <1>22 DEF AttemptNext

(* Every step keeps what is sent within the allowance. *)
LEMMA SendsStep ==
    ASSUME AttemptAssumption, AttemptSound, AttemptTypeOK', [AttemptNext]_attemptVars
    PROVE  SendsSound'
<1>0. AttemptTypeOK /\ RestTyped /\ ExecutionTyped /\ SendsSound
    BY AttemptTypes DEF AttemptSound
<1> USE DEF SendsSound, Spent, RestTyped, ExecutionTyped, Executions, Has, Live
<1>1. ASSUME NEW goal \in BOOLEAN, NEW compaction \in BOOLEAN, NextTurn(goal, compaction)
      PROVE  SendsSound'
    BY <1>0, <1>1, ExecutionIsOne DEF NextTurn, Untold, NoBudget
<1>2. CASE Asks
    BY <1>0, <1>2, ExecutionIsOne DEF Asks
<1>3. CASE Disconnects \/ GivesUp
    BY <1>0, <1>3, ExecutionIsOne DEF Disconnects, GivesUp
<1>4. CASE HalfAnHour
    BY <1>0, <1>4, ExecutionIsOne DEF HalfAnHour, NoBudget
<1>5. CASE PruneSession
    BY <1>0, <1>5, ExecutionIsOne DEF PruneSession
<1>6. CASE StoppedForStall \/ StoppedForBudget \/ EnvironmentMissing
    BY <1>0, <1>6, ExecutionIsOne DEF StoppedForStall, StoppedForBudget, EnvironmentMissing, Refused,
       Answered, Watched, ShouldStop
<1>7. CASE Starts
    BY <1>0, <1>7, ExecutionIsOne DEF Starts, Admitted, Watched, ShouldStop, Exhausted
<1>8. CASE Joins \/ FailsLate
  <2> HIDE DEF RestTyped, ExecutionTyped, Executions, Has, Live
  <2>1. Touched
      BY <1>8 DEF Joins, FailsLate, Admitted, Live, Touched
  <2>2. UNCHANGED nativeTurn \/ Answered
      BY <1>8 DEF Joins, FailsLate
  <2>3. /\ nativeTurn'.number = nativeTurn.number /\ nativeTurn'.goal = nativeTurn.goal
        /\ nativeTurn'.compaction = nativeTurn.compaction
      BY <1>0, <2>2, AnsweredSays
  <2> QED
      BY <1>0, <2>1, <2>3, <1>8, TouchedSays, WatchedSays
      DEF Joins, FailsLate, Admitted, ShouldStop, Exhausted, NoBudget
<1>9. CASE ReplaysAnswer \/ AnswersLate
  <2> HIDE DEF RestTyped, ExecutionTyped, Executions, Has, Live
  <2>1. Touched
      BY <1>9 DEF ReplaysAnswer, AnswersLate, Admitted, Live, Touched
  <2>2. UNCHANGED nativeTurn \/ Answered
      BY <1>9 DEF ReplaysAnswer, AnswersLate
  <2>3. /\ nativeTurn'.number = nativeTurn.number /\ nativeTurn'.goal = nativeTurn.goal
        /\ nativeTurn'.compaction = nativeTurn.compaction
      BY <1>0, <2>2, AnsweredSays
  <2> QED
      BY <1>0, <2>1, <2>3, <1>9, TouchedSays, WatchedSays
      DEF ReplaysAnswer, AnswersLate, Admitted, ShouldStop, Exhausted, NoBudget
<1>10. CASE SendActivated
  <2> HIDE DEF RestTyped, ExecutionTyped, Executions, Has, Live
  <2>1. execution \in Executions /\ execution.outcome = "live" /\ Has /\ ~execution.sent
      BY <1>0, <1>10 DEF SendActivated, Live, Has, ExecutionTyped
  <2>2. execution' \in Executions
    <3>1. Phase("send_activated") \in {"prepared", "send_activated", "accepted"}
        BY <2>1 DEF Phase, Executions
    <3> QED
        BY <2>1, <3>1, <1>10, ExecutionChanges DEF SendActivated, Browser
  <2>3. Has' /\ execution'.sent /\ execution'.phase = Phase("send_activated")
      BY <2>1, <2>2, <1>10, ExecutionIsOne DEF SendActivated, Browser, Has, Executions
  <2>4. told.sends \in Nat /\ told'.sends = told.sends + 1 /\ told'.forgotten = told.forgotten
      BY <1>0, <1>10 DEF SendActivated, RestTyped
  <2>5. UNCHANGED <<nativeTurn, safeRetryUsed>>
      BY <1>10 DEF SendActivated, Browser
  <2> QED
      BY <1>0, <2>1, <2>3, <2>4, <2>5 DEF Phase
<1>11. CASE Submitted
    BY <1>0, <1>11, ExecutionIsOne DEF Submitted, Browser, Phase
<1>12. ASSUME NEW tools \in BOOLEAN, Works(tools) PROVE SendsSound'
    BY <1>0, <1>12, ExecutionIsOne DEF Works, Browser
<1>13. ASSUME NEW answer \in {"final", "unavailable"}, Finishes(answer) PROVE SendsSound'
    BY <1>0, <1>13, ExecutionIsOne DEF Finishes, Browser
<1>14. ASSUME NEW error \in Errors, BrowserFails(error) PROVE SendsSound'
    BY <1>0, <1>14, ExecutionIsOne DEF BrowserFails, Browser
<1>15. CASE Completes
    BY <1>0, <1>15, ExecutionIsOne DEF Completes, Observed, Journal, Answered, NoBudget
<1>16. CASE RetriesSafely
    BY <1>0, <1>16, ExecutionIsOne DEF RetriesSafely, Failed, SafeToRetry, LostConnector,
       EmptyUpstream, Transient, Retire, Effects
<1>17. CASE Wakes
    BY <1>0, <1>17, ExecutionIsOne DEF Wakes
<1>18. CASE MayBeRetried
    BY <1>0, <1>18, ExecutionIsOne DEF MayBeRetried, Failed, Retryable, Retire, Effects, Recorded,
       Counted
<1>19. CASE Exhausts
    BY <1>0, <1>19, ExecutionIsOne DEF Exhausts, Failed, Recorded, Counted, Journal, Answered
<1>20. CASE EndsTurn
    BY <1>0, <1>20, ExecutionIsOne DEF EndsTurn, Failed, Journal, Answered, NoBudget
<1>21. CASE Throws
    BY <1>0, <1>21, ExecutionIsOne DEF Throws, Failed, OfAdapter, Retire, Effects, NoBudget
<1>22. CASE UNCHANGED attemptVars
    BY <1>0, <1>22, ExecutionIsOne DEF attemptVars
<1> QED
    BY <1>1, <1>2, <1>3, <1>4, <1>5, <1>6, <1>7, <1>8, <1>9, <1>10, <1>11, <1>12, <1>13, <1>14, <1>15,
       <1>16, <1>17, <1>18, <1>19, <1>20, <1>21, <1>22 DEF AttemptNext

(* Every step keeps the failures in the budget. *)
LEMMA BudgetStep ==
    ASSUME AttemptAssumption, AttemptSound, AttemptTypeOK', [AttemptNext]_attemptVars
    PROVE  BudgetSound'
<1>0. AttemptTypeOK /\ RestTyped /\ ExecutionTyped /\ BudgetSound
    BY AttemptTypes DEF AttemptSound
<1> USE DEF BudgetSound, Retries, RestTyped, ExecutionTyped, Executions, Has, Live
<1>1. ASSUME NEW goal \in BOOLEAN, NEW compaction \in BOOLEAN, NextTurn(goal, compaction)
      PROVE  BudgetSound'
    BY <1>0, <1>1, ExecutionIsOne DEF NextTurn, Untold, NoBudget
<1>2. CASE Asks
    BY <1>0, <1>2, ExecutionIsOne DEF Asks
<1>3. CASE Disconnects \/ GivesUp
    BY <1>0, <1>3, ExecutionIsOne DEF Disconnects, GivesUp
<1>4. CASE HalfAnHour
  <2> HIDE DEF RestTyped, ExecutionTyped, Executions, Has, Live
  <2>1. /\ Has' => Has /\ execution'.journal = execution.journal /\ execution'.outcome = execution.outcome
        /\ Has => Has'
    <3>1. CASE Has
      <4>1. execution \in Executions
          BY <1>0, <3>1 DEF ExecutionTyped, Has
      <4>2. execution' = [execution EXCEPT !.stale = TRUE]
          BY <3>1, <1>4 DEF HalfAnHour
      <4>3. execution' \in Executions
          BY <4>1, <4>2, ExecutionChanges
      <4> QED
          BY <3>1, <4>1, <4>2, <4>3, ExecutionIsOne DEF Executions, Has
    <3>2. CASE ~Has
        BY <3>2, <1>4 DEF HalfAnHour, Has
    <3> QED
        BY <3>1, <3>2
  <2>2. budget'.retries = budget.retries /\ (budget.stale => budget'.stale) /\ UNCHANGED told
      BY <1>0, <1>4 DEF HalfAnHour, RestTyped
  <2>3. 0 <= MaxRetries /\ budget.retries \in Nat
      BY <1>0 DEF AttemptAssumption, RestTyped
  <2> QED
      BY <1>0, <2>1, <2>2, <2>3 DEF Live
<1>5. CASE PruneSession
    BY <1>0, <1>5, ExecutionIsOne DEF PruneSession
<1>6. CASE StoppedForStall \/ StoppedForBudget \/ EnvironmentMissing
    BY <1>0, <1>6, ExecutionIsOne DEF StoppedForStall, StoppedForBudget, EnvironmentMissing, Refused,
       Answered, Watched, ShouldStop
<1>7. CASE Starts
  <2> HIDE DEF RestTyped, ExecutionTyped, Executions, Has, Live
  <2>1. ~Has /\ UNCHANGED <<budget, told>> /\ Retries <= MaxRetries
    <3>1. Retries \in Nat /\ MaxRetries \in Nat
        BY <1>0 DEF RestTyped, AttemptAssumption
    <3> QED
        BY <3>1, <1>7 DEF Starts, Admitted, Exhausted
  <2>2. ~execution'.journal
      BY <1>7 DEF Starts
  <2> QED
      BY <1>0, <2>1, <2>2
<1>8. CASE Joins \/ FailsLate
    BY <1>0, <1>8, ExecutionIsOne DEF Joins, FailsLate, Admitted, Watched, ShouldStop, Exhausted
<1>9. CASE ReplaysAnswer \/ AnswersLate
  <2> HIDE DEF RestTyped, ExecutionTyped, Executions, Has, Live
  <2>1. Touched
      BY <1>9 DEF ReplaysAnswer, AnswersLate, Touched
  <2>2. Has /\ Has' /\ (Live' <=> Live) /\ execution'.journal
      BY <1>0, <2>1, <1>9, TouchedSays DEF ReplaysAnswer, AnswersLate
  <2>3. ~Live
      BY <1>9 DEF ReplaysAnswer, AnswersLate, Live
  <2> QED
      BY <2>2, <2>3
<1>10. CASE SendActivated
    BY <1>0, <1>10, ExecutionIsOne DEF SendActivated, Browser, Phase
<1>11. CASE Submitted
    BY <1>0, <1>11, ExecutionIsOne DEF Submitted, Browser, Phase
<1>12. ASSUME NEW tools \in BOOLEAN, Works(tools) PROVE BudgetSound'
    BY <1>0, <1>12, ExecutionIsOne DEF Works, Browser
<1>13. ASSUME NEW answer \in {"final", "unavailable"}, Finishes(answer) PROVE BudgetSound'
    BY <1>0, <1>13, ExecutionIsOne DEF Finishes, Browser
<1>14. ASSUME NEW error \in Errors, BrowserFails(error) PROVE BudgetSound'
    BY <1>0, <1>14, ExecutionIsOne DEF BrowserFails, Browser
<1>15. CASE Completes
    BY <1>0, <1>15, ExecutionIsOne DEF Completes, Observed, Journal, Answered, NoBudget
<1>16. CASE RetriesSafely
    BY <1>0, <1>16, ExecutionIsOne DEF RetriesSafely, Failed, SafeToRetry, LostConnector,
       EmptyUpstream, Transient, Retire, Effects
<1>17. CASE Wakes
    BY <1>0, <1>17, ExecutionIsOne DEF Wakes
<1>18. CASE MayBeRetried
    BY <1>0, <1>18, ExecutionIsOne DEF MayBeRetried, Failed, Retryable, Retire, Effects, Recorded,
       Counted
<1>19. CASE Exhausts
    BY <1>0, <1>19, ExecutionIsOne DEF Exhausts, Failed, Recorded, Counted, Journal, Answered
<1>20. CASE EndsTurn
    BY <1>0, <1>20, ExecutionIsOne DEF EndsTurn, Failed, Journal, Answered, NoBudget
<1>21. CASE Throws
    BY <1>0, <1>21, ExecutionIsOne DEF Throws, Failed, OfAdapter, Retire, Effects, NoBudget
<1>22. CASE UNCHANGED attemptVars
    BY <1>0, <1>22, ExecutionIsOne DEF attemptVars
<1> QED
    BY <1>1, <1>2, <1>3, <1>4, <1>5, <1>6, <1>7, <1>8, <1>9, <1>10, <1>11, <1>12, <1>13, <1>14, <1>15,
       <1>16, <1>17, <1>18, <1>19, <1>20, <1>21, <1>22 DEF AttemptNext

(* Every step keeps the count of the answers without tools. *)
LEMMA StallStep ==
    ASSUME AttemptAssumption, AttemptSound, AttemptTypeOK', [AttemptNext]_attemptVars
    PROVE  StallSound' /\ StalledGoalStops'
<1>0. AttemptTypeOK /\ RestTyped /\ ExecutionTyped /\ StallSound /\ StalledGoalStops
    BY AttemptTypes DEF AttemptSound
<1> USE DEF StallSound, StalledGoalStops, Guarded, RestTyped, ExecutionTyped, Executions, Has, Live
<1>1. ASSUME NEW goal \in BOOLEAN, NEW compaction \in BOOLEAN, NextTurn(goal, compaction)
      PROVE  StallSound' /\ StalledGoalStops'
    BY <1>0, <1>1, ExecutionIsOne DEF NextTurn, Untold, NoBudget
<1>2. CASE Asks
    BY <1>0, <1>2, ExecutionIsOne DEF Asks
<1>3. CASE Disconnects \/ GivesUp
    BY <1>0, <1>3, ExecutionIsOne DEF Disconnects, GivesUp
<1>4. CASE HalfAnHour
    BY <1>0, <1>4, ExecutionIsOne DEF HalfAnHour, NoBudget
<1>5. CASE PruneSession
    BY <1>0, <1>5, ExecutionIsOne DEF PruneSession
<1>6. CASE StoppedForStall \/ StoppedForBudget \/ EnvironmentMissing
  <2>1. Answered /\ Watched /\ execution' = execution
      BY <1>6 DEF StoppedForStall, StoppedForBudget, EnvironmentMissing, Refused
  <2> QED
      BY <1>0, <2>1, AnsweredSays, WatchedSays
<1>7. CASE Starts
    BY <1>0, <1>7, ExecutionIsOne DEF Starts, Admitted, Watched, ShouldStop, Exhausted
<1>8. CASE Joins \/ FailsLate
  <2> HIDE DEF RestTyped, ExecutionTyped, Executions, Has, Live
  <2>1. Touched
      BY <1>8 DEF Joins, FailsLate, Admitted, Live, Touched
  <2>2. UNCHANGED nativeTurn \/ Answered
      BY <1>8 DEF Joins, FailsLate
  <2>3. /\ nativeTurn'.number = nativeTurn.number /\ nativeTurn'.goal = nativeTurn.goal
        /\ nativeTurn'.compaction = nativeTurn.compaction
      BY <1>0, <2>2, AnsweredSays
  <2> QED
      BY <1>0, <2>1, <2>3, <1>8, TouchedSays, WatchedSays
      DEF Joins, FailsLate, Admitted, ShouldStop, Exhausted, NoBudget
<1>9. CASE ReplaysAnswer \/ AnswersLate
  <2> HIDE DEF RestTyped, ExecutionTyped, Executions, Has, Live
  <2>1. Touched
      BY <1>9 DEF ReplaysAnswer, AnswersLate, Admitted, Live, Touched
  <2>2. UNCHANGED nativeTurn \/ Answered
      BY <1>9 DEF ReplaysAnswer, AnswersLate
  <2>3. /\ nativeTurn'.number = nativeTurn.number /\ nativeTurn'.goal = nativeTurn.goal
        /\ nativeTurn'.compaction = nativeTurn.compaction
      BY <1>0, <2>2, AnsweredSays
  <2> QED
      BY <1>0, <2>1, <2>3, <1>9, TouchedSays, WatchedSays
      DEF ReplaysAnswer, AnswersLate, Admitted, ShouldStop, Exhausted, NoBudget
<1>10. CASE SendActivated
    BY <1>0, <1>10, ExecutionIsOne DEF SendActivated, Browser, Phase
<1>11. CASE Submitted
    BY <1>0, <1>11, ExecutionIsOne DEF Submitted, Browser, Phase
<1>12. ASSUME NEW tools \in BOOLEAN, Works(tools) PROVE StallSound' /\ StalledGoalStops'
    BY <1>0, <1>12, ExecutionIsOne DEF Works, Browser
<1>13. ASSUME NEW answer \in {"final", "unavailable"}, Finishes(answer)
       PROVE  StallSound' /\ StalledGoalStops'
    BY <1>0, <1>13, ExecutionIsOne DEF Finishes, Browser
<1>14. ASSUME NEW error \in Errors, BrowserFails(error) PROVE StallSound' /\ StalledGoalStops'
    BY <1>0, <1>14, ExecutionIsOne DEF BrowserFails, Browser
<1>15. CASE Completes
    BY <1>0, <1>15, ExecutionIsOne DEF Completes, Observed, Journal, Answered, NoBudget
<1>16. CASE RetriesSafely
    BY <1>0, <1>16, ExecutionIsOne DEF RetriesSafely, Failed, SafeToRetry, LostConnector,
       EmptyUpstream, Transient, Retire, Effects
<1>17. CASE Wakes
    BY <1>0, <1>17, ExecutionIsOne DEF Wakes
<1>18. CASE MayBeRetried
    BY <1>0, <1>18, ExecutionIsOne DEF MayBeRetried, Failed, Retryable, Retire, Effects, Recorded,
       Counted
<1>19. CASE Exhausts
    BY <1>0, <1>19, ExecutionIsOne DEF Exhausts, Failed, Recorded, Counted, Journal, Answered
<1>20. CASE EndsTurn
    BY <1>0, <1>20, ExecutionIsOne DEF EndsTurn, Failed, Journal, Answered, NoBudget
<1>21. CASE Throws
    BY <1>0, <1>21, ExecutionIsOne DEF Throws, Failed, OfAdapter, Retire, Effects, NoBudget
<1>22. CASE UNCHANGED attemptVars
    BY <1>0, <1>22, ExecutionIsOne DEF attemptVars
<1> QED
    BY <1>1, <1>2, <1>3, <1>4, <1>5, <1>6, <1>7, <1>8, <1>9, <1>10, <1>11, <1>12, <1>13, <1>14, <1>15,
       <1>16, <1>17, <1>18, <1>19, <1>20, <1>21, <1>22 DEF AttemptNext

(* A thread begins with nothing sent, nothing failed and nothing counted.        *)
LEMMA AttemptSoundInit == AttemptAssumption /\ AttemptInit => AttemptSound
<1> SUFFICES ASSUME AttemptAssumption, AttemptInit PROVE AttemptSound
    OBVIOUS
<1>1. RestTyped /\ ExecutionTyped
  <2>1. 1 \in 1..MaxNativeTurns /\ 0 \in 0..(MaxRetries + 1)
      BY DEF AttemptAssumption
  <2>2. nativeTurn \in [number : 1..MaxNativeTurns, goal : BOOLEAN, compaction : BOOLEAN, over : BOOLEAN]
    <3>1. PICK goal \in BOOLEAN, compaction \in BOOLEAN :
             nativeTurn = [number |-> 1, goal |-> goal, compaction |-> compaction, over |-> FALSE]
        BY DEF AttemptInit
    <3> QED
        BY <2>1, <3>1
  <2>3. budget \in [retries : 0..(MaxRetries + 1), stale : BOOLEAN]
      BY <2>1 DEF AttemptInit, NoBudget
  <2>4. told \in [failures : Nat, lapsed : BOOLEAN, worked : BOOLEAN, forgotten : BOOLEAN, sends : Nat]
      BY DEF AttemptInit, Untold
  <2> QED
      BY <2>2, <2>3, <2>4 DEF AttemptInit, RestTyped, ExecutionTyped
<1>2. ~Has /\ ~Live
    BY DEF AttemptInit, Has, Live
<1>3. told.sends = 0 /\ told.failures = 0 /\ ~told.worked /\ budget.retries = 0 /\ stall.count = stall.answers
    BY DEF AttemptInit, Untold, NoBudget
<1>4. NothingWasLost /\ SendsSound
    BY <1>2, <1>3 DEF AttemptInit, NothingWasLost, SendsSound, Spent
<1>5. BudgetSound /\ StallSound /\ StalledGoalStops
    BY <1>2, <1>3 DEF BudgetSound, StallSound, StalledGoalStops
<1> QED
    BY <1>1, <1>4, <1>5, AttemptTypes DEF AttemptSound

(* The invariant is kept by every step.                                          *)
LEMMA AttemptSoundStep == AttemptAssumption /\ AttemptSound /\ [AttemptNext]_attemptVars => AttemptSound'
<1> SUFFICES ASSUME AttemptAssumption, AttemptSound, [AttemptNext]_attemptVars PROVE AttemptSound'
    OBVIOUS
<1>1. RestTyped /\ ExecutionTyped /\ BudgetSound
    BY AttemptTypes DEF AttemptSound
<1>2. RestTyped' /\ ExecutionTyped'
    BY <1>1, RestStep, ExecutionStep DEF BudgetSound
<1>3. AttemptTypeOK'
    BY <1>2, AttemptTypes
<1> QED
    BY <1>3, WorkedStep, SendsStep, BudgetStep, StallStep DEF AttemptSound

(* The invariant says what the run checks: a second surface is all that a turn   *)
(* may send, and who runs was admitted with failures left in its budget.         *)
LEMMA AttemptSoundHolds == AttemptAssumption /\ AttemptSound => AttemptsHold
<1> SUFFICES ASSUME AttemptAssumption, AttemptSound PROVE AttemptsHold
    OBVIOUS
<1>1. RestTyped /\ NothingWasLost /\ SendsSound /\ BudgetSound
    BY AttemptTypes DEF AttemptSound
<1>2. NeverReplayed
  <2>1. Spent \in {0, 1} /\ told.sends \in Nat
      BY <1>1 DEF Spent, RestTyped
  <2> QED
      BY <1>1, <2>1 DEF NeverReplayed, NothingWasLost, SendsSound
<1>3. BudgetBounds
  <2> SUFFICES ASSUME told.failures > MaxRetries, ~told.lapsed, ~budget.stale, ~told.forgotten, Live
               PROVE  FALSE
      BY DEF BudgetBounds
  <2>1. Has /\ ~execution.journal
      BY <1>1 DEF BudgetSound, Live
  <2>2. told.failures <= budget.retries /\ budget.retries <= MaxRetries
      BY <1>1, <2>1 DEF BudgetSound, Retries
  <2>3. told.failures \in Nat /\ budget.retries \in Nat /\ MaxRetries \in Nat
      BY <1>1 DEF RestTyped, AttemptAssumption
  <2> QED
      BY <2>2, <2>3
<1> QED
    BY <1>2, <1>3 DEF AttemptsHold, AttemptSound

(* However requests are lost, repeated, joined and retried, for every budget of  *)
(* retries and every patience with a goal: no prompt that may have had effects   *)
(* is sent again, no turn is attempted after its budget, and no stalled goal     *)
(* goes on (runTurn, startRuntime, ChatGptWebTurnRetryPolicy, GoalToolStallGuard).*)
THEOREM NoFailureRepeatsWork ==
    ASSUME AttemptAssumption
    PROVE  AttemptSpec => []AttemptsHold
<1>1. AttemptInit => AttemptSound
    BY AttemptSoundInit
<1>2. AttemptSound /\ [AttemptNext]_attemptVars => AttemptSound'
    BY AttemptSoundStep
<1>3. AttemptSound => AttemptsHold
    BY AttemptSoundHolds
<1> QED
    BY <1>1, <1>2, <1>3, PTL DEF AttemptSpec

--------------------------------------------------------------------------------
(* The compactions of a thread *)

(* Which runs may act: their predecessor has settled, or they have none.         *)
Ahead(r) == gate[r] = NoRun \/ stage[gate[r]] = "settled"
Begun(r) == stage[r] # "none"

(* The runs of a thread that are not settled form a chain: each waits for        *)
(* another one of the thread, no two for the same, the last is the one its       *)
(* thread names, and there is a first.                                           *)
OneAhead ==
    \A r, s \in Runs : Active(r) /\ Active(s) /\ Ahead(r) /\ Ahead(s) /\ Owner(r) = Owner(s) => r = s
NoneShared ==
    \A r, s \in Runs : Active(r) /\ Active(s) /\ gate[r] # NoRun /\ gate[r] = gate[s] => r = s
GatesOfThread ==
    \A r \in Runs : Active(r) /\ gate[r] # NoRun => Begun(gate[r]) /\ Owner(gate[r]) = Owner(r)
LastNamed ==
    \A o \in Owners :
        /\ owners[o] = NoRun => \A r \in Runs : Active(r) => Owner(r) # o
        /\ owners[o] # NoRun =>
              /\ Active(owners[o]) /\ Owner(owners[o]) = o
              /\ \A r \in Runs : Active(r) => gate[r] # owners[o]
Rooted ==
    \A S \in SUBSET Runs :
        S # {} /\ (\A r \in S : Active(r)) => \E r \in S : Ahead(r) \/ gate[r] \notin S
Chain == OneAhead /\ NoneShared /\ GatesOfThread /\ LastNamed /\ Rooted

(* Who acts, or has a browser that is live, is the first.                        *)
Busy(r) == Acting(r) \/ fallback[r] = "live"
BusyAhead ==
    /\ \A r \in Runs : Busy(r) => Active(r) /\ Ahead(r)
    /\ \A r \in holding : Begun(r) /\ stage[r] \notin {"gated", "sourcing", "settled"}

(* A key has as many runs as failures, and the one that is going.                *)
Going(k) == runs[k] # NoRun /\ Active(runs[k])
Budgeted ==
    /\ \A k \in Keys :
          /\ attempts[k] = failures[k] + (IF Going(k) THEN 1 ELSE 0)
          /\ Going(k) => failures[k] <= 1
          /\ runs[k] # NoRun => Begun(runs[k]) /\ keyOfRun[runs[k]] = k
    /\ \A r \in Runs : Begun(r) => keyOfRun[r] \in Keys
    /\ \A r \in Runs : Active(r) => runs[keyOfRun[r]] = r

(* A run that has its source keeps the source's answer, or the source has none;  *)
(* one that dropped an answer before it could know of it fails.                  *)
Kept(r) == r \in preserve \/ Owner(r) \in instructed \/ source[Owner(r)] \in {"none", "error"}
AnswersKept ==
    /\ \A r \in Runs : stage[r] \in {"settling", "handoff", "accepted"} => r \in holding
    /\ \A r \in holding : stage[r] # "settling" => Kept(r)
    /\ \A r \in unavailable : Begun(r) /\ stage[r] \notin {"gated", "sourcing", "settling", "handoff", "accepted"}
    /\ \A r \in lost : stage[r] \in {"cleanup", "thrown"} /\ r \notin unavailable

(* A conversation that is being released has no session.                         *)
ReleasedGone == \A o \in retiring : source[o] = "none"

GateSound ==
    /\ RunnerTypeOK /\ Chain /\ BusyAhead /\ Budgeted /\ InterruptedRunsStop
    /\ AnswersKept /\ ReleasedGone
(* A step that lets runs go on but neither begins nor settles one.               *)
SameRuns == \A r \in Runs : /\ stage'[r] = "none" <=> stage[r] = "none"
                            /\ stage'[r] = "settled" <=> stage[r] = "settled"
Quiet == UNCHANGED <<runs, failures, owners, attempts, keyOfRun, gate>> /\ SameRuns

(* A run that was begun has a thread.                                            *)
LEMMA BegunHasOwner ==
    ASSUME Budgeted, NEW r \in Runs, Begun(r)
    PROVE  keyOfRun[r] \in Keys /\ Owner(r) \in Owners
BY DEF Budgeted, Owner, Owners

(* A run that is going is moved to another stage.                                *)
LEMMA Moved ==
    ASSUME stage \in [Runs -> Stages], NEW r \in Runs, Active(r),
           NEW s \in Stages \ {"none", "settled"}, Goto(r, s)
    PROVE  /\ stage' \in [Runs -> Stages] /\ SameRuns /\ stage'[r] = s
           /\ \A x \in Runs : x # r => stage'[x] = stage[x]
BY DEF Goto, SameRuns, Active

(* A conversation that is closed: its session leaves, which no other run minds,  *)
(* and an answer is lost only by a run that does not keep it.                    *)
LEMMA Closed ==
    ASSUME RunnerTypeOK, ReleasedGone, NEW r \in Runs, Owner(r) \in Owners, CloseSource(r)
    PROVE  /\ ReleasedGone' /\ (r \in holding' => source'[Owner(r)] = "none")
           /\ source' \in [Owners -> {"none", "active", "final", "error"}]
           /\ retiring' \in SUBSET Owners /\ instructed' \in SUBSET instructed
           /\ \A o \in Owners : source'[o] \in {source[o], "none"}
           /\ \A o \in instructed : o \in instructed' \/ source'[o] = "none"
           /\ holding' \in SUBSET holding /\ \A x \in holding : x # r => x \in holding'
           /\ lost' \in SUBSET Runs /\ lost' \in {lost, lost \cup {r}} /\ (Kept(r) => lost' = lost)
<1>1. CASE UNCHANGED <<source, retiring, instructed, holding, lost>>
    BY <1>1 DEF RunnerTypeOK, ReleasedGone, CloseSource
<1>2. CASE /\ source' = [source EXCEPT ![Owner(r)] = "none"]
           /\ retiring' = retiring \cup {Owner(r)}
           /\ instructed' = instructed \ {Owner(r)}
           /\ holding' = holding \ {r}
           /\ lost' = IF source[Owner(r)] = "final" /\ Owner(r) \notin instructed /\ r \notin preserve
                      THEN lost \cup {r} ELSE lost
    BY <1>2 DEF RunnerTypeOK, Kept, ReleasedGone
<1> QED
    BY <1>1, <1>2 DEF CloseSource

(* What the catch block does.                                                    *)
LEMMA Caught ==
    ASSUME RunnerTypeOK, ReleasedGone, NEW r \in Runs, Active(r), Owner(r) \in Owners, Catch(r)
    PROVE  /\ ReleasedGone' /\ (r \in holding' => source'[Owner(r)] = "none")
           /\ stage' \in [Runs -> Stages] /\ SameRuns
           /\ stage'[r] = IF r \in holding THEN "cleanup" ELSE "thrown"
           /\ \A x \in Runs : x # r => stage'[x] = stage[x]
           /\ source' \in [Owners -> {"none", "active", "final", "error"}]
           /\ retiring' \in SUBSET Owners /\ instructed' \in SUBSET instructed
           /\ \A o \in Owners : source'[o] \in {source[o], "none"}
           /\ \A o \in instructed : o \in instructed' \/ source'[o] = "none"
           /\ holding' \in SUBSET holding /\ \A x \in holding : x # r => x \in holding'
           /\ lost' \in SUBSET Runs /\ lost' \in {lost, lost \cup {r}}
           /\ Kept(r) \/ r \notin holding => lost' = lost
           /\ UNCHANGED <<tableVars, runVars, signalVars, preserve, sourceLive>>
<1>1. "cleanup" \in Stages \ {"none", "settled"} /\ "thrown" \in Stages \ {"none", "settled"}
    BY DEF Stages
<1>2. stage \in [Runs -> Stages] /\ lost \in SUBSET Runs /\ instructed \in SUBSET Owners /\ retiring \in SUBSET Owners
      /\ source \in [Owners -> {"none", "active", "final", "error"}] /\ holding \in SUBSET Runs
    BY DEF RunnerTypeOK
<1>3. UNCHANGED <<tableVars, runVars, signalVars, preserve, sourceLive>>
    BY DEF Catch
<1>4. CASE r \in holding
  <2>1. Goto(r, "cleanup") /\ CloseSource(r)
      BY <1>4 DEF Catch
  <2> QED
      BY <1>1, <1>2, <1>3, <1>4, <2>1, Moved, Closed
<1>5. CASE r \notin holding
  <2>1. Goto(r, "thrown") /\ UNCHANGED <<source, retiring, instructed, holding, lost>>
      BY <1>5 DEF Catch
  <2> QED
      BY <1>1, <1>2, <1>3, <1>5, <2>1, Moved DEF ReleasedGone
<1> QED
    BY <1>4, <1>5

(* Every step but those that begin a run, settle one or prune the tables is      *)
(* quiet.                                                                        *)
LEMMA QuietStep ==
    ASSUME RunnerTypeOK, ReleasedGone, Budgeted
    PROVE  /\ \A r \in Runs :
                RunStep(r) /\ ~OwnerSettles(r) => Quiet /\ stage' \in [Runs -> Stages]
           /\ \A t \in NativeTurns :
                PruneInterruption(t) \/ CancelNativeTurn(t) => Quiet /\ stage' \in [Runs -> Stages]
           /\ CancelAll => Quiet /\ stage' \in [Runs -> Stages]
           /\ \A o \in Owners :
                Released(o) \/ StartTurn(o) \/ TurnSettles(o) \/ TurnReleased(o) \/ TurnDropped(o)
                    => Quiet /\ stage' \in [Runs -> Stages]
           /\ UNCHANGED runnerVars => Quiet /\ stage' \in [Runs -> Stages]
<1>0. stage \in [Runs -> Stages]
    BY DEF RunnerTypeOK
<1>a. ASSUME UNCHANGED <<tableVars, runVars, stage>> PROVE Quiet /\ stage' \in [Runs -> Stages]
    BY <1>0, <1>a DEF Quiet, SameRuns, tableVars, runVars
<1>b. ASSUME UNCHANGED <<tableVars, runVars>>, NEW r \in Runs, Active(r),
             NEW s \in Stages \ {"none", "settled"}, Goto(r, s)
      PROVE  Quiet /\ stage' \in [Runs -> Stages]
    BY <1>0, <1>b, Moved DEF Quiet, tableVars, runVars
<1>c. ASSUME NEW r \in Runs, Active(r), Catch(r)
      PROVE  Quiet /\ stage' \in [Runs -> Stages]
  <2>1. Owner(r) \in Owners
      BY <1>c, BegunHasOwner DEF Active, Begun
  <2> QED
      BY <1>c, <2>1, Caught DEF Quiet, tableVars, runVars
<1>d. {"sourcing", "fallback", "settling", "handoff", "closing", "accepted", "ok", "thrown"}
          \subseteq Stages \ {"none", "settled"}
    BY DEF Stages
<1>1. ASSUME NEW r \in Runs, PassGate(r) PROVE Quiet /\ stage' \in [Runs -> Stages]
    BY <1>b, <1>d, <1>1 DEF PassGate, Active
<1>2. ASSUME NEW r \in Runs, FindSource(r) PROVE Quiet /\ stage' \in [Runs -> Stages]
    BY <1>b, <1>d, <1>2 DEF FindSource, OpenHandoff, OpenFallback, Active
<1>3. ASSUME NEW r \in Runs, SourceSettled(r) PROVE Quiet /\ stage' \in [Runs -> Stages]
    BY <1>b, <1>d, <1>3 DEF SourceSettled, OpenHandoff, OpenFallback, Active
<1>4. ASSUME NEW r \in Runs, SourceFails(r) PROVE Quiet /\ stage' \in [Runs -> Stages]
    BY <1>c, <1>4 DEF SourceFails, Active
<1>5. ASSUME NEW r \in Runs, SubmitHandoff(r) PROVE Quiet /\ stage' \in [Runs -> Stages]
    BY <1>b, <1>d, <1>5 DEF SubmitHandoff, Active
<1>6. ASSUME NEW r \in Runs, HandoffDone(r) PROVE Quiet /\ stage' \in [Runs -> Stages]
    BY <1>b, <1>d, <1>6 DEF HandoffDone, Active
<1>7. ASSUME NEW r \in Runs, HandoffFails(r) PROVE Quiet /\ stage' \in [Runs -> Stages]
    BY <1>c, <1>7 DEF HandoffFails, Active
<1>8. ASSUME NEW r \in Runs, HandoffEnds(r) PROVE Quiet /\ stage' \in [Runs -> Stages]
    BY <1>a, <1>8 DEF HandoffEnds
<1>9. ASSUME NEW r \in Runs, FallbackDone(r) PROVE Quiet /\ stage' \in [Runs -> Stages]
    BY <1>b, <1>d, <1>9 DEF FallbackDone, Active
<1>10. ASSUME NEW r \in Runs, FallbackFails(r) PROVE Quiet /\ stage' \in [Runs -> Stages]
    BY <1>c, <1>10 DEF FallbackFails, Active
<1>11. ASSUME NEW r \in Runs, FallbackEnds(r) PROVE Quiet /\ stage' \in [Runs -> Stages]
    BY <1>a, <1>11 DEF FallbackEnds
<1>12. ASSUME NEW r \in Runs, Stop(r) PROVE Quiet /\ stage' \in [Runs -> Stages]
    BY <1>c, <1>12 DEF Stop, Stoppable, Active
<1>13. ASSUME NEW r \in Runs, NothingToClose(r) PROVE Quiet /\ stage' \in [Runs -> Stages]
    BY <1>b, <1>d, <1>13 DEF NothingToClose, OpenFallback, Active
<1>14. ASSUME NEW r \in Runs, Expire(r) PROVE Quiet /\ stage' \in [Runs -> Stages]
    BY <1>a, <1>14 DEF Expire
<1>15. ASSUME NEW r \in Runs, CancelTrace(r) PROVE Quiet /\ stage' \in [Runs -> Stages]
    BY <1>a, <1>15 DEF CancelTrace
<1>16. ASSUME NEW o \in Owners, Released(o) PROVE Quiet /\ stage' \in [Runs -> Stages]
  <2> DEFINE Waiting(at) == {r \in Runs : stage[r] = at /\ Owner(r) = o}
  <2>1. CASE stage' = [r \in Runs |->
                 IF r \in Waiting("closing") /\ ~Stopped(r) THEN "ok"
                 ELSE IF r \in Waiting("cleanup")
                 THEN IF r \in unavailable THEN "fallback" ELSE "thrown"
                 ELSE stage[r]]
      BY <1>0, <1>d, <1>16, <2>1 DEF Released, Quiet, SameRuns, tableVars, runVars
  <2>2. CASE stage' = [r \in Runs |->
                 IF r \in UNION {Waiting(at) : at \in {"sourcing", "closing", "cleanup"}}
                 THEN "thrown" ELSE stage[r]]
      BY <1>0, <1>d, <1>16, <2>2 DEF Released, Quiet, SameRuns, tableVars, runVars
  <2> QED
      BY <1>16, <2>1, <2>2 DEF Released
<1>17. ASSUME NEW o \in Owners, StartTurn(o) \/ TurnSettles(o) \/ TurnReleased(o) \/ TurnDropped(o)
      PROVE  Quiet /\ stage' \in [Runs -> Stages]
    BY <1>a, <1>17 DEF StartTurn, TurnSettles, TurnReleased, TurnDropped
<1>18. ASSUME NEW t \in NativeTurns, PruneInterruption(t) \/ CancelNativeTurn(t)
      PROVE  Quiet /\ stage' \in [Runs -> Stages]
    BY <1>0, <1>18 DEF PruneInterruption, CancelNativeTurn, Quiet, SameRuns, runVars
<1>19. CASE CancelAll \/ UNCHANGED runnerVars
    BY <1>a, <1>19 DEF CancelAll, runnerVars
<1> QED
    BY <1>1, <1>2, <1>3, <1>4, <1>5, <1>6, <1>7, <1>8, <1>9, <1>10, <1>11, <1>12, <1>13, <1>14, <1>15,
       <1>16, <1>17, <1>18, <1>19 DEF RunStep

(* The chain of a thread                                                         *)

(* A quiet step leaves the chains as they are.                                   *)
LEMMA ChainQuiet ==
    ASSUME RunnerTypeOK, Chain, NoRun \notin Runs, SameRuns, UNCHANGED <<owners, keyOfRun, gate>>
    PROVE  Chain'
<1> USE DEF Ahead, Active, Begun, Owner, RunnerTypeOK, SameRuns
<1>0. /\ \A r \in Runs : gate[r] # NoRun => gate[r] \in Runs
      /\ \A o \in Owners : owners[o] # NoRun => owners[o] \in Runs
    OBVIOUS
<1>1. OneAhead'
    BY <1>0 DEF Chain, OneAhead
<1>2. NoneShared'
    BY <1>0 DEF Chain, NoneShared
<1>3. GatesOfThread'
    BY <1>0 DEF Chain, GatesOfThread
<1>4. LastNamed'
    BY <1>0 DEF Chain, LastNamed
<1>5. Rooted'
  <2> SUFFICES ASSUME NEW S \in SUBSET Runs, S # {},
                      \A r \in S : stage'[r] # "none" /\ stage'[r] # "settled"
               PROVE  \E r \in S : gate[r] = NoRun \/ stage'[gate[r]] = "settled" \/ gate[r] \notin S
      BY DEF Rooted
  <2>1. \E r \in S : Ahead(r) \/ gate[r] \notin S
      BY DEF Chain, Rooted
  <2> QED
      BY <1>0, <2>1
<1> QED
    BY <1>1, <1>2, <1>3, <1>4, <1>5 DEF Chain

(* A run begins behind the last of its thread.                                   *)
LEMMA ChainStart ==
    ASSUME RunnerTypeOK, Chain, Budgeted, NoRun \notin Runs, NEW k \in Keys, NEW n \in Runs, Start(k, n)
    PROVE  Chain'
<1> DEFINE o == ownerOf[k]
<1> USE DEF Begun
<1>0. /\ stage[n] = "none" /\ keyOfRun' = [keyOfRun EXCEPT ![n] = k]
      /\ gate' = [gate EXCEPT ![n] = owners[o]] /\ owners' = [owners EXCEPT ![o] = n]
      /\ stage' = [stage EXCEPT ![n] = IF owners[o] = NoRun THEN "sourcing" ELSE "gated"]
    BY DEF Start, Goto
<1>1. /\ stage \in [Runs -> Stages] /\ keyOfRun \in [Runs -> Keys \cup {NoRun}]
      /\ gate \in [Runs -> Runs \cup {NoRun}] /\ owners \in [Owners -> Runs \cup {NoRun}] /\ o \in Owners
    BY DEF RunnerTypeOK, Owners
<1>2. /\ stage'[n] \notin {"none", "settled"} /\ ownerOf[keyOfRun'[n]] = o /\ gate'[n] = owners[o]
      /\ owners'[o] = n
      /\ \A x \in Runs : x # n => stage'[x] = stage[x] /\ keyOfRun'[x] = keyOfRun[x] /\ gate'[x] = gate[x]
      /\ \A p \in Owners : p # o => owners'[p] = owners[p]
    BY <1>0, <1>1
<1>3. \A x \in Runs : gate[x] # NoRun => gate[x] \in Runs
    BY <1>1
<1>4. \A p \in Owners : owners[p] # NoRun => owners[p] \in Runs /\ owners[p] # n
    BY <1>0, <1>1 DEF Chain, LastNamed, Active
<1>5. \A x \in Runs : Active(x) => x # n /\ Owner(x) \in Owners
    BY <1>0, BegunHasOwner DEF Active
<1>6. \A x \in Runs : Active(x) /\ gate[x] # NoRun => gate[x] # n
    BY <1>0 DEF Chain, GatesOfThread
<1>7. owners[o] # NoRun => stage[owners[o]] \notin {"none", "settled"} /\ Owner(owners[o]) = o
    BY <1>1 DEF Chain, LastNamed, Active
<1>8. OneAhead'
  <2> SUFFICES ASSUME NEW r \in Runs, NEW s \in Runs,
                      stage'[r] \notin {"none", "settled"}, stage'[s] \notin {"none", "settled"},
                      gate'[r] = NoRun \/ stage'[gate'[r]] = "settled",
                      gate'[s] = NoRun \/ stage'[gate'[s]] = "settled",
                      ownerOf[keyOfRun'[r]] = ownerOf[keyOfRun'[s]], r # s
               PROVE  FALSE
      BY DEF OneAhead, Active, Ahead, Owner
  <2>1. CASE r # n /\ s # n
      BY <1>2, <1>3, <1>6, <2>1 DEF Chain, OneAhead, Active, Ahead, Owner
  <2>2. ASSUME NEW x \in Runs, x # n, stage'[x] \notin {"none", "settled"}, ownerOf[keyOfRun'[x]] = o
        PROVE  gate'[n] # NoRun /\ stage'[gate'[n]] # "settled"
    <3>1. Active(x) /\ Owner(x) = o
        BY <1>2, <2>2 DEF Active, Owner
    <3>2. owners[o] # NoRun
        BY <1>1, <3>1 DEF Chain, LastNamed
    <3> QED
        BY <1>2, <1>4, <1>7, <1>1, <3>2
  <2> QED
      BY <1>2, <2>1, <2>2
<1>9. NoneShared'
  <2> SUFFICES ASSUME NEW r \in Runs, NEW s \in Runs,
                      stage'[r] \notin {"none", "settled"}, stage'[s] \notin {"none", "settled"},
                      gate'[r] # NoRun, gate'[r] = gate'[s], r # s
               PROVE  FALSE
      BY DEF NoneShared, Active
  <2>1. CASE r # n /\ s # n
      BY <1>2, <2>1 DEF Chain, NoneShared, Active
  <2>2. ASSUME NEW x \in Runs, x # n, stage'[x] \notin {"none", "settled"}, gate'[n] # NoRun
        PROVE  gate'[x] # gate'[n]
      BY <1>1, <1>2, <2>2 DEF Chain, LastNamed, Active
  <2> QED
      BY <2>1, <2>2
<1>10. GatesOfThread'
  <2> SUFFICES ASSUME NEW r \in Runs, stage'[r] \notin {"none", "settled"}, gate'[r] # NoRun
               PROVE  stage'[gate'[r]] # "none" /\ ownerOf[keyOfRun'[gate'[r]]] = ownerOf[keyOfRun'[r]]
      BY DEF GatesOfThread, Active, Owner
  <2>1. CASE r = n
      BY <1>1, <1>2, <1>4, <1>7, <2>1 DEF Owner
  <2>2. CASE r # n
      BY <1>2, <1>3, <1>6, <2>2 DEF Chain, GatesOfThread, Active, Owner
  <2> QED
      BY <2>1, <2>2
<1>11. LastNamed'
  <2> SUFFICES ASSUME NEW p \in Owners
               PROVE  /\ owners'[p] = NoRun =>
                            \A r \in Runs : stage'[r] \notin {"none", "settled"} => ownerOf[keyOfRun'[r]] # p
                      /\ owners'[p] # NoRun =>
                            /\ stage'[owners'[p]] \notin {"none", "settled"} /\ ownerOf[keyOfRun'[owners'[p]]] = p
                            /\ \A r \in Runs : stage'[r] \notin {"none", "settled"} => gate'[r] # owners'[p]
      BY DEF LastNamed, Active, Owner
  <2>1. CASE p = o
      BY <1>2, <1>3, <1>4, <1>6, <2>1 DEF Active
  <2>2. CASE p # o /\ owners[p] = NoRun
      BY <1>2, <2>2 DEF Chain, LastNamed, Active, Owner
  <2>3. CASE p # o /\ owners[p] # NoRun
    <3>1. Active(owners[p]) /\ Owner(owners[p]) = p /\ \A r \in Runs : Active(r) => gate[r] # owners[p]
        BY <2>3 DEF Chain, LastNamed
    <3>2. owners[o] # owners[p]
        BY <1>7, <2>3, <3>1
    <3> QED
        BY <1>2, <1>4, <2>3, <3>1, <3>2 DEF Active, Owner
  <2> QED
      BY <2>1, <2>2, <2>3
<1>12. Rooted'
  <2> SUFFICES ASSUME NEW S \in SUBSET Runs, S # {}, \A r \in S : stage'[r] \notin {"none", "settled"}
               PROVE  \E r \in S : gate'[r] = NoRun \/ stage'[gate'[r]] = "settled" \/ gate'[r] \notin S
      BY DEF Rooted, Active, Ahead
  <2>1. CASE S = {n}
      BY <1>2, <1>4, <1>1, <2>1
  <2>2. CASE S # {n}
    <3> DEFINE T == S \ {n}
    <3>1. T # {} /\ T \in SUBSET Runs /\ \A r \in T : Active(r)
        BY <1>2, <2>2 DEF Active
    <3>2. PICK r \in T : Ahead(r) \/ gate[r] \notin T
        BY <3>1 DEF Chain, Rooted
    <3>3. Active(r) /\ r # n
        BY <3>1
    <3> QED
        BY <1>2, <1>3, <1>6, <3>1, <3>2, <3>3 DEF Ahead
  <2> QED
      BY <2>1, <2>2
<1> QED
    BY <1>8, <1>9, <1>10, <1>11, <1>12 DEF Chain

(* A thread whose last run settles has no other that goes on: the others would   *)
(* wait for one another in a circle.                                             *)
LEMMA LastIsOnly ==
    ASSUME RunnerTypeOK, Chain, Budgeted, NoRun \notin Runs, NEW g \in Runs, Active(g), Ahead(g),
           owners[Owner(g)] = g
    PROVE  \A r \in Runs : Active(r) /\ Owner(r) = Owner(g) => r = g
<1> DEFINE S == {r \in Runs : Active(r) /\ Owner(r) = Owner(g) /\ r # g}
<1>1. SUFFICES ASSUME S # {} PROVE FALSE
    OBVIOUS
<1>2. Owner(g) \in Owners
    BY BegunHasOwner DEF Active, Begun
<1>3. PICK r \in S : Ahead(r) \/ gate[r] \notin S
    BY <1>1 DEF Chain, Rooted
<1>4. ~Ahead(r)
    BY DEF Chain, OneAhead
<1>5. gate[r] \in Runs /\ gate[r] # NoRun /\ stage[gate[r]] # "settled"
    BY <1>4 DEF Ahead, RunnerTypeOK
<1>6. stage[gate[r]] # "none" /\ Owner(gate[r]) = Owner(r)
    BY <1>5 DEF Chain, GatesOfThread, Begun
<1>7. gate[r] # g
    BY <1>2 DEF Chain, LastNamed
<1> QED
    BY <1>3, <1>4, <1>5, <1>6, <1>7 DEF Active

(* A run that settles lets the next of its thread through.                       *)
LEMMA ChainSettles ==
    ASSUME RunnerTypeOK, Chain, Budgeted, NoRun \notin Runs, NEW g \in Runs, OwnerSettles(g)
    PROVE  Chain'
<1> DEFINE o == Owner(g)
<1>0. /\ stage' = [stage EXCEPT ![g] = "settled"] /\ keyOfRun' = keyOfRun
      /\ gate' = [gate EXCEPT ![g] = NoRun]
      /\ owners' = [owners EXCEPT ![o] = IF @ = g THEN NoRun ELSE @]
      /\ Active(g) /\ Ahead(g)
    BY DEF OwnerSettles, Goto, Returned, GateOpens, Active, Ahead
<1>1. /\ stage \in [Runs -> Stages] /\ gate \in [Runs -> Runs \cup {NoRun}]
      /\ owners \in [Owners -> Runs \cup {NoRun}] /\ o \in Owners
    BY <1>0, BegunHasOwner DEF RunnerTypeOK, Active, Begun
<1>2. /\ stage'[g] = "settled" /\ gate'[g] = NoRun /\ owners'[o] = IF owners[o] = g THEN NoRun ELSE owners[o]
      /\ \A x \in Runs : x # g => stage'[x] = stage[x] /\ gate'[x] = gate[x]
      /\ \A p \in Owners : p # o => owners'[p] = owners[p]
    BY <1>0, <1>1
<1>3. /\ \A x \in Runs : gate[x] # NoRun => gate[x] \in Runs
      /\ \A p \in Owners : owners[p] # NoRun => owners[p] \in Runs
    BY <1>1
<1>4. \A x \in Runs : stage'[x] \notin {"none", "settled"} => x # g /\ Active(x)
    BY <1>2 DEF Active
<1>5. \A x \in Runs : Active(x) /\ x # g => ~Ahead(x) \/ Owner(x) # o
    BY <1>0 DEF Chain, OneAhead
<1>6. OneAhead'
  <2> SUFFICES ASSUME NEW r \in Runs, NEW s \in Runs,
                      stage'[r] \notin {"none", "settled"}, stage'[s] \notin {"none", "settled"},
                      gate'[r] = NoRun \/ stage'[gate'[r]] = "settled",
                      gate'[s] = NoRun \/ stage'[gate'[s]] = "settled",
                      Owner(r) = Owner(s), r # s
               PROVE  FALSE
      BY <1>0 DEF OneAhead, Active, Ahead, Owner
  <2>1. Active(r) /\ Active(s) /\ r # g /\ s # g
      BY <1>4
  <2>2. (Ahead(r) \/ gate[r] = g) /\ (Ahead(s) \/ gate[s] = g)
      BY <1>2, <1>3, <2>1 DEF Ahead
  <2>3. CASE Ahead(r) /\ Ahead(s)
      BY <2>1, <2>3 DEF Chain, OneAhead
  <2>4. CASE gate[r] = g /\ gate[s] = g
      BY <2>1, <2>4 DEF Chain, NoneShared
  <2>5. ASSUME NEW x \in Runs, NEW y \in Runs, Active(x), Active(y), y # g, gate[x] = g, Ahead(y)
        PROVE  Owner(x) # Owner(y)
    <3>1. Owner(x) = o
        BY <2>5 DEF Chain, GatesOfThread
    <3> QED
        BY <1>5, <2>5, <3>1
  <2> QED
      BY <2>1, <2>2, <2>3, <2>4, <2>5
<1>7. NoneShared'
    BY <1>2, <1>4 DEF Chain, NoneShared, Active
<1>8. GatesOfThread'
    BY <1>0, <1>2, <1>3, <1>4 DEF Chain, GatesOfThread, Active, Begun, Owner
<1>9. LastNamed'
  <2> SUFFICES ASSUME NEW p \in Owners
               PROVE  /\ owners'[p] = NoRun =>
                            \A r \in Runs : stage'[r] \notin {"none", "settled"} => Owner(r) # p
                      /\ owners'[p] # NoRun =>
                            /\ stage'[owners'[p]] \notin {"none", "settled"} /\ Owner(owners'[p]) = p
                            /\ \A r \in Runs : stage'[r] \notin {"none", "settled"} => gate'[r] # owners'[p]
      BY <1>0 DEF LastNamed, Active, Owner
  <2>1. CASE p = o /\ owners[o] = g
      BY <1>0, <1>2, <1>4, <2>1, LastIsOnly
  <2>2. CASE owners[p] = NoRun
    <3>1. \A r \in Runs : Active(r) => Owner(r) # p
        BY <2>2 DEF Chain, LastNamed
    <3>2. owners'[p] = NoRun
        BY <1>2, <2>2
    <3> QED
        BY <1>4, <3>1, <3>2
  <2>3. CASE ~(p = o /\ owners[o] = g) /\ owners[p] # NoRun
    <3>1. Active(owners[p]) /\ Owner(owners[p]) = p /\ \A r \in Runs : Active(r) => gate[r] # owners[p]
        BY <2>3 DEF Chain, LastNamed
    <3>2. owners[p] # g /\ owners'[p] = owners[p]
        BY <1>2, <2>3, <3>1
    <3> QED
        BY <1>2, <1>3, <1>4, <2>3, <3>1, <3>2 DEF Active
  <2> QED
      BY <2>1, <2>2, <2>3
<1>10. Rooted'
  <2> SUFFICES ASSUME NEW S \in SUBSET Runs, S # {}, \A r \in S : stage'[r] \notin {"none", "settled"}
               PROVE  \E r \in S : gate'[r] = NoRun \/ stage'[gate'[r]] = "settled" \/ gate'[r] \notin S
      BY DEF Rooted, Active, Ahead
  <2>1. PICK r \in S : Ahead(r) \/ gate[r] \notin S
      BY <1>4 DEF Chain, Rooted
  <2> QED
      BY <1>2, <1>3, <1>4, <2>1 DEF Ahead
<1> QED
    BY <1>6, <1>7, <1>8, <1>9, <1>10 DEF Chain

(* Every step keeps the chains.                                                  *)
LEMMA ChainStep ==
    ASSUME RunnerTypeOK, ReleasedGone, Chain, Budgeted, NoRun \notin Runs, [RunnerNext]_runnerVars
    PROVE  Chain'
<1>1. ASSUME NEW k \in Keys, NEW r \in Runs, Start(k, r) PROVE Chain'
    BY <1>1, ChainStart
<1>2. ASSUME NEW r \in Runs, OwnerSettles(r) PROVE Chain'
    BY <1>2, ChainSettles
<1>3. ASSUME NEW k \in Keys, PruneRun(k) \/ PruneFailures(k) PROVE Chain'
  <2>1. SameRuns /\ UNCHANGED <<owners, keyOfRun, gate>>
      BY <1>3 DEF PruneRun, PruneFailures, SameRuns, runVars
  <2> QED
      BY <2>1, ChainQuiet
<1>4. CASE Quiet
    BY <1>4, ChainQuiet DEF Quiet
<1> QED
    BY <1>1, <1>2, <1>3, <1>4, QuietStep DEF RunnerNext

(* The types                                                                     *)

(* Every step of a run keeps the types.                                          *)
LEMMA TypeRunStep ==
    ASSUME RunnerTypeOK, ReleasedGone, Budgeted, NEW r \in Runs, RunStep(r), ~OwnerSettles(r)
    PROVE  RunnerTypeOK'
<1>0. stage' \in [Runs -> Stages]
    BY QuietStep
<1> USE DEF tableVars, runVars, signalVars, workVars, browserVars, sourceVars
<1>1. CASE PassGate(r)
    BY <1>0, <1>1 DEF PassGate, RunnerTypeOK
<1>2. CASE FindSource(r)
    BY <1>0, <1>2 DEF FindSource, OpenHandoff, OpenFallback, RunnerTypeOK
<1>3. CASE SubmitHandoff(r)
    BY <1>0, <1>3 DEF SubmitHandoff, RunnerTypeOK
<1>4. CASE HandoffEnds(r)
    BY <1>0, <1>4 DEF HandoffEnds, RunnerTypeOK
<1>5. CASE FallbackEnds(r)
    BY <1>0, <1>5 DEF FallbackEnds, RunnerTypeOK
<1>6. CASE NothingToClose(r)
    BY <1>0, <1>6 DEF NothingToClose, OpenFallback, RunnerTypeOK
<1>7. CASE Expire(r)
    BY <1>0, <1>7 DEF Expire, RunnerTypeOK
<1>8. CASE CancelTrace(r)
    BY <1>0, <1>8 DEF CancelTrace, AbortRuns, RunnerTypeOK
<1>a. ASSUME Begun(r) PROVE Owner(r) \in Owners
    BY <1>a, BegunHasOwner
<1>b. ASSUME CloseSource(r), Begun(r)
      PROVE  /\ source' \in [Owners -> {"none", "active", "final", "error"}]
             /\ retiring' \in SUBSET Owners /\ instructed' \in SUBSET Owners
             /\ holding' \in SUBSET Runs /\ lost' \in SUBSET Runs
  <2>1. instructed \in SUBSET Owners /\ holding \in SUBSET Runs
      BY DEF RunnerTypeOK
  <2> QED
      BY <1>a, <1>b, <2>1, Closed
<1>9. CASE SourceFails(r)
  <2>1. Active(r) /\ Begun(r) /\ Catch(r)
      BY <1>9 DEF SourceFails, Stoppable, Active, Begun
  <2>2. /\ source' \in [Owners -> {"none", "active", "final", "error"}]
        /\ retiring' \in SUBSET Owners /\ instructed' \in SUBSET Owners
        /\ holding' \in SUBSET Runs /\ lost' \in SUBSET Runs
        /\ UNCHANGED <<tableVars, runVars, signalVars, preserve, sourceLive>>
    <3>1. instructed \in SUBSET Owners /\ holding \in SUBSET Runs
        BY DEF RunnerTypeOK
    <3> QED
        BY <1>a, <2>1, <3>1, Caught
  <2> QED
      BY <1>0, <1>9, <2>2 DEF SourceFails, RunnerTypeOK
<1>10. CASE HandoffFails(r)
  <2>1. Active(r) /\ Begun(r) /\ Catch(r)
      BY <1>10 DEF HandoffFails, Stoppable, Active, Begun
  <2>2. /\ source' \in [Owners -> {"none", "active", "final", "error"}]
        /\ retiring' \in SUBSET Owners /\ instructed' \in SUBSET Owners
        /\ holding' \in SUBSET Runs /\ lost' \in SUBSET Runs
        /\ UNCHANGED <<tableVars, runVars, signalVars, preserve, sourceLive>>
    <3>1. instructed \in SUBSET Owners /\ holding \in SUBSET Runs
        BY DEF RunnerTypeOK
    <3> QED
        BY <1>a, <2>1, <3>1, Caught
  <2> QED
      BY <1>0, <1>10, <2>2 DEF HandoffFails, RunnerTypeOK
<1>11. CASE FallbackFails(r)
  <2>1. Active(r) /\ Begun(r) /\ Catch(r)
      BY <1>11 DEF FallbackFails, Stoppable, Active, Begun
  <2>2. /\ source' \in [Owners -> {"none", "active", "final", "error"}]
        /\ retiring' \in SUBSET Owners /\ instructed' \in SUBSET Owners
        /\ holding' \in SUBSET Runs /\ lost' \in SUBSET Runs
        /\ UNCHANGED <<tableVars, runVars, signalVars, preserve, sourceLive>>
    <3>1. instructed \in SUBSET Owners /\ holding \in SUBSET Runs
        BY DEF RunnerTypeOK
    <3> QED
        BY <1>a, <2>1, <3>1, Caught
  <2> QED
      BY <1>0, <1>11, <2>2 DEF FallbackFails, RunnerTypeOK
<1>12. CASE Stop(r)
  <2>1. Active(r) /\ Begun(r) /\ Catch(r)
      BY <1>12 DEF Stop, Stoppable, Active, Begun
  <2>2. /\ source' \in [Owners -> {"none", "active", "final", "error"}]
        /\ retiring' \in SUBSET Owners /\ instructed' \in SUBSET Owners
        /\ holding' \in SUBSET Runs /\ lost' \in SUBSET Runs
        /\ UNCHANGED <<tableVars, runVars, signalVars, preserve, sourceLive>>
    <3>1. instructed \in SUBSET Owners /\ holding \in SUBSET Runs
        BY DEF RunnerTypeOK
    <3> QED
        BY <1>a, <2>1, <3>1, Caught
  <2> QED
      BY <1>0, <1>12, <2>2 DEF Stop, RunnerTypeOK
<1>13. CASE SourceSettled(r)
  <2>1. /\ source' \in [Owners -> {"none", "active", "final", "error"}]
        /\ retiring' \in SUBSET Owners /\ instructed' \in SUBSET Owners
        /\ holding' \in SUBSET Runs /\ lost' \in SUBSET Runs
      BY <1>b, <1>13 DEF SourceSettled, PreserveOrdinary, OpenHandoff, OpenFallback, Begun, RunnerTypeOK
  <2> QED
      BY <1>0, <1>13, <2>1 DEF SourceSettled, PreserveOrdinary, OpenHandoff, OpenFallback, RunnerTypeOK
<1>14. CASE HandoffDone(r)
  <2>1. /\ source' \in [Owners -> {"none", "active", "final", "error"}]
        /\ retiring' \in SUBSET Owners /\ instructed' \in SUBSET Owners
        /\ holding' \in SUBSET Runs /\ lost' \in SUBSET Runs
      BY <1>b, <1>14 DEF HandoffDone, Begun, RunnerTypeOK
  <2> QED
      BY <1>0, <1>14, <2>1 DEF HandoffDone, RunnerTypeOK
<1>15. CASE FallbackDone(r)
  <2>1. /\ source' \in [Owners -> {"none", "active", "final", "error"}]
        /\ retiring' \in SUBSET Owners /\ instructed' \in SUBSET Owners
        /\ holding' \in SUBSET Runs /\ lost' \in SUBSET Runs
      BY <1>b, <1>15 DEF FallbackDone, Begun, RunnerTypeOK
  <2> QED
      BY <1>0, <1>15, <2>1 DEF FallbackDone, RunnerTypeOK
<1> QED
    BY <1>1, <1>2, <1>3, <1>4, <1>5, <1>6, <1>7, <1>8, <1>9, <1>10, <1>11, <1>12, <1>13, <1>14,
       <1>15 DEF RunStep

(* Every step keeps the types.                                                   *)
LEMMA TypeStep ==
    ASSUME RunnerTypeOK, ReleasedGone, Budgeted, NoRun \notin Runs, [RunnerNext]_runnerVars
    PROVE  RunnerTypeOK'
<1> USE DEF tableVars, runVars, signalVars, workVars, browserVars, sourceVars
<1>1. ASSUME NEW r \in Runs, RunStep(r), ~OwnerSettles(r) PROVE RunnerTypeOK'
    BY <1>1, TypeRunStep
<1>2. ASSUME NEW k \in Keys, NEW r \in Runs, Start(k, r) PROVE RunnerTypeOK'
  <2>1. ownerOf[k] \in Owners
      BY DEF Owners
  <2>2. \A s \in {"sourcing", "gated"} : [stage EXCEPT ![r] = s] \in [Runs -> Stages]
      BY DEF RunnerTypeOK, Stages
  <2>3. attempts[k] + 1 \in Nat
      BY DEF RunnerTypeOK
  <2> QED
      BY <1>2, <2>1, <2>2, <2>3 DEF Start, Goto, RunnerTypeOK
<1>3. ASSUME NEW r \in Runs, OwnerSettles(r) PROVE RunnerTypeOK'
  <2>1. keyOfRun[r] \in Keys /\ Active(r)
      BY <1>3, BegunHasOwner DEF OwnerSettles, Returned, Active, Begun
  <2>2. Going(keyOfRun[r])
      BY <2>1 DEF Budgeted, Going
  <2>3. failures[keyOfRun[r]] \in 0..2 /\ failures[keyOfRun[r]] <= 1
      BY <2>1, <2>2 DEF Budgeted, RunnerTypeOK
  <2>4. CountFailure(keyOfRun[r]) \in 0..2
      BY <2>3 DEF CountFailure
  <2>5. [stage EXCEPT ![r] = "settled"] \in [Runs -> Stages]
      BY DEF RunnerTypeOK, Stages
  <2>6. failures' \in [Keys -> 0..2]
      BY <1>3, <2>1, <2>4 DEF OwnerSettles, RunnerTypeOK
  <2>7. attempts' \in [Keys -> Nat]
      BY <1>3, <2>1 DEF OwnerSettles, RunnerTypeOK
  <2>8. runs' \in [Keys -> Runs \cup {NoRun}] /\ owners' \in [Owners -> Runs \cup {NoRun}]
        /\ gate' \in [Runs -> Runs \cup {NoRun}] /\ stage' \in [Runs -> Stages]
      BY <1>3, <2>1, <2>5 DEF OwnerSettles, Goto, RunnerTypeOK
  <2>9. UNCHANGED <<interruptions, keyOfRun, manual, browserVars, sourceVars>> /\ Forget(r)
      BY <1>3 DEF OwnerSettles
  <2> QED
      BY <2>6, <2>7, <2>8, <2>9 DEF Forget, RunnerTypeOK
<1>4. ASSUME NEW k \in Keys, PruneRun(k) \/ PruneFailures(k) PROVE RunnerTypeOK'
    BY <1>4 DEF PruneRun, PruneFailures, RunnerTypeOK
<1>5. ASSUME NEW t \in NativeTurns, PruneInterruption(t) \/ CancelNativeTurn(t) PROVE RunnerTypeOK'
    BY <1>5 DEF PruneInterruption, CancelNativeTurn, AbortRuns, RunsOfTurn, RunnerTypeOK
<1>6. CASE CancelAll
    BY <1>6 DEF CancelAll, AbortRuns, RunnerTypeOK
<1>7. ASSUME NEW o \in Owners, Released(o) PROVE RunnerTypeOK'
  <2>1. stage' \in [Runs -> Stages]
      BY <1>7, QuietStep
  <2>2. fallback' \in [Runs -> {"none", "live", "ended"}]
      BY <1>7 DEF Released, RunnerTypeOK
  <2> QED
      BY <1>7, <2>1, <2>2 DEF Released, RunnerTypeOK
<1>8. ASSUME NEW o \in Owners, StartTurn(o) \/ TurnSettles(o) \/ TurnReleased(o) \/ TurnDropped(o)
      PROVE  RunnerTypeOK'
    BY <1>8 DEF StartTurn, TurnSettles, TurnReleased, TurnDropped, RunnerTypeOK
<1>9. CASE UNCHANGED runnerVars
    BY <1>9 DEF runnerVars, RunnerTypeOK
<1> QED
    BY <1>1, <1>2, <1>3, <1>4, <1>5, <1>6, <1>7, <1>8, <1>9 DEF RunnerNext

(* Who acts                                                                      *)

(* A quiet step lets no run act before its predecessors have settled, if those   *)
(* that act after it did before, or were let through.                            *)
LEMMA BusyQuiet ==
    ASSUME RunnerTypeOK, BusyAhead, NoRun \notin Runs, Quiet, stage' \in [Runs -> Stages],
           \A x \in Runs : stage'[x] \in Stages \ {"none", "gated", "ok", "thrown", "settled"} \/ fallback'[x] = "live"
                              => Busy(x) \/ (Active(x) /\ Ahead(x)),
           \A x \in holding' : x \in Runs /\ stage'[x] \notin {"none", "gated", "sourcing", "settled"}
    PROVE  BusyAhead'
<1>1. \A x \in Runs : Active(x) /\ Ahead(x) =>
          stage'[x] \notin {"none", "settled"} /\ (gate'[x] = NoRun \/ stage'[gate'[x]] = "settled")
    BY DEF Quiet, SameRuns, Active, Ahead, RunnerTypeOK
<1>2. \A x \in Runs : Busy(x) => Active(x) /\ Ahead(x)
    BY DEF BusyAhead
<1> QED
    BY <1>1, <1>2 DEF BusyAhead, Busy, Acting, Active, Ahead, Returned, Begun

(* A quiet step of one run that is the first of its thread, or is no more going. *)
LEMMA BusyRunStep ==
    ASSUME RunnerTypeOK, RunnerTypeOK', ReleasedGone, Budgeted, BusyAhead, NoRun \notin Runs, NEW r \in Runs, RunStep(r), ~OwnerSettles(r),
           AnswersKept
    PROVE  BusyAhead'
<1> USE DEF tableVars, runVars, signalVars, workVars, browserVars, sourceVars
<1>0. Quiet /\ stage' \in [Runs -> Stages] /\ stage \in [Runs -> Stages]
    BY QuietStep DEF RunnerTypeOK
<1>1. ASSUME \A x \in Runs : x # r => stage'[x] = stage[x] /\ fallback'[x] = fallback[x],
             \A x \in holding' : x # r => x \in holding,
             \/ stage'[r] \in {"none", "gated", "ok", "thrown", "settled"} /\ fallback'[r] = fallback[r]
             \/ Busy(r)
             \/ Active(r) /\ Ahead(r),
             r \in holding' => stage'[r] \notin {"none", "gated", "sourcing", "settled"}
      PROVE  BusyAhead'
  <2>1. \A x \in Runs : stage'[x] \in Stages \ {"none", "gated", "ok", "thrown", "settled"} \/ fallback'[x] = "live"
                              => Busy(x) \/ (Active(x) /\ Ahead(x))
      BY <1>0, <1>1 DEF Busy, Acting, Returned, Active
  <2>2. \A x \in holding' : x \in Runs /\ stage'[x] \notin {"none", "gated", "sourcing", "settled"}
      BY <1>0, <1>1 DEF BusyAhead, Begun, RunnerTypeOK
  <2> QED
      BY <1>0, <2>1, <2>2, BusyQuiet
<1>2. r \in holding => stage[r] \notin {"none", "gated", "sourcing", "settled"}
    BY DEF BusyAhead, Begun
<1>3. CASE PassGate(r)
    BY <1>0, <1>1, <1>2, <1>3 DEF PassGate, Goto, Busy, Acting, Returned, Active, RunnerTypeOK, Ahead
<1>4. CASE FindSource(r)
    BY <1>0, <1>1, <1>2, <1>4 DEF FindSource, Goto, OpenHandoff, OpenFallback, Busy, Acting, Returned,
       Active, RunnerTypeOK
<1>5. CASE SubmitHandoff(r)
    BY <1>0, <1>1, <1>2, <1>5 DEF SubmitHandoff, Goto, Busy, Acting, Returned, Active, RunnerTypeOK
<1>6. CASE HandoffEnds(r)
    BY <1>0, <1>1, <1>2, <1>6 DEF HandoffEnds, Goto, Busy, Acting, Returned, Active, RunnerTypeOK
<1>7. CASE FallbackEnds(r)
    BY <1>0, <1>1, <1>2, <1>7 DEF FallbackEnds, Goto, Busy, Acting, Returned, Active, RunnerTypeOK
<1>8. CASE NothingToClose(r)
    BY <1>0, <1>1, <1>2, <1>8 DEF NothingToClose, Goto, OpenFallback, Busy, Acting, Returned, Active,
       RunnerTypeOK
<1>9. CASE Expire(r)
    BY <1>0, <1>1, <1>2, <1>9 DEF Expire, Goto, Busy, Acting, Returned, Active, RunnerTypeOK
<1>10. CASE CancelTrace(r)
    BY <1>0, <1>1, <1>2, <1>10 DEF CancelTrace, Goto, Busy, Acting, Returned, Active, RunnerTypeOK
<1>a. ASSUME CloseSource(r), Begun(r) PROVE holding' \in SUBSET holding
    BY <1>a, BegunHasOwner, Closed
<1>11. CASE SourceFails(r)
  <2>1. Active(r) /\ Begun(r) /\ Catch(r) /\ UNCHANGED fallback
      BY <1>11 DEF SourceFails, Stoppable, Active, Begun
  <2>2. /\ stage'[r] = IF r \in holding THEN "cleanup" ELSE "thrown"
        /\ \A x \in Runs : x # r => stage'[x] = stage[x]
        /\ holding' \in SUBSET holding
      BY <2>1, BegunHasOwner, Caught
  <2>3. r \in holding => Busy(r)
      BY <1>2, <2>1, <1>11 DEF Busy, Acting, Returned, Active, SourceFails, Stoppable
  <2> QED
      BY <1>1, <1>2, <2>1, <2>2, <2>3
<1>12. CASE HandoffFails(r)
  <2>1. Active(r) /\ Begun(r) /\ Catch(r) /\ UNCHANGED fallback
      BY <1>12 DEF HandoffFails, Stoppable, Active, Begun
  <2>2. /\ stage'[r] = IF r \in holding THEN "cleanup" ELSE "thrown"
        /\ \A x \in Runs : x # r => stage'[x] = stage[x]
        /\ holding' \in SUBSET holding
      BY <2>1, BegunHasOwner, Caught
  <2>3. r \in holding => Busy(r)
      BY <1>2, <2>1, <1>12 DEF Busy, Acting, Returned, Active, HandoffFails, Stoppable
  <2> QED
      BY <1>1, <1>2, <2>1, <2>2, <2>3
<1>13. CASE FallbackFails(r)
  <2>1. Active(r) /\ Begun(r) /\ Catch(r) /\ UNCHANGED fallback
      BY <1>13 DEF FallbackFails, Stoppable, Active, Begun
  <2>2. /\ stage'[r] = IF r \in holding THEN "cleanup" ELSE "thrown"
        /\ \A x \in Runs : x # r => stage'[x] = stage[x]
        /\ holding' \in SUBSET holding
      BY <2>1, BegunHasOwner, Caught
  <2>3. r \in holding => Busy(r)
      BY <1>2, <2>1, <1>13 DEF Busy, Acting, Returned, Active, FallbackFails, Stoppable
  <2> QED
      BY <1>1, <1>2, <2>1, <2>2, <2>3
<1>14. CASE Stop(r)
  <2>1. Active(r) /\ Begun(r) /\ Catch(r) /\ UNCHANGED fallback
      BY <1>14 DEF Stop, Stoppable, Active, Begun
  <2>2. /\ stage'[r] = IF r \in holding THEN "cleanup" ELSE "thrown"
        /\ \A x \in Runs : x # r => stage'[x] = stage[x]
        /\ holding' \in SUBSET holding
      BY <2>1, BegunHasOwner, Caught
  <2>3. r \in holding => Busy(r)
      BY <1>2, <2>1, <1>14 DEF Busy, Acting, Returned, Active, Stop, Stoppable
  <2> QED
      BY <1>1, <1>2, <2>1, <2>2, <2>3
<1>15. CASE SourceSettled(r)
  <2>1. Busy(r) /\ holding' \in SUBSET holding
      BY <1>a, <1>15 DEF SourceSettled, Goto, OpenHandoff, OpenFallback, Busy, Acting, Returned,
         Active, Begun, RunnerTypeOK
  <2>2. /\ stage'[r] \notin {"none", "gated", "sourcing", "settled"}
        /\ \A x \in Runs : x # r => stage'[x] = stage[x] /\ fallback'[x] = fallback[x]
      BY <1>15 DEF SourceSettled, Goto, OpenHandoff, OpenFallback, RunnerTypeOK
  <2> QED
      BY <1>1, <2>1, <2>2
<1>16. CASE HandoffDone(r)
  <2>1. Busy(r) /\ holding' \in SUBSET holding
      BY <1>a, <1>16 DEF HandoffDone, Goto, Busy, Acting, Returned, Active, Begun, RunnerTypeOK
  <2>2. /\ stage'[r] \notin {"none", "gated", "sourcing", "settled"}
        /\ \A x \in Runs : x # r => stage'[x] = stage[x] /\ fallback'[x] = fallback[x]
      BY <1>16 DEF HandoffDone, Goto, RunnerTypeOK
  <2> QED
      BY <1>1, <2>1, <2>2
<1>17. CASE FallbackDone(r)
  <2>1. Busy(r) /\ holding' \in SUBSET holding
      BY <1>a, <1>17 DEF FallbackDone, Goto, Busy, Acting, Returned, Active, Begun, RunnerTypeOK
  <2>2. /\ stage'[r] \notin {"none", "gated", "sourcing", "settled"}
        /\ \A x \in Runs : x # r => stage'[x] = stage[x] /\ fallback'[x] = fallback[x]
      BY <1>17 DEF FallbackDone, Goto, RunnerTypeOK
  <2> QED
      BY <1>1, <2>1, <2>2
<1> QED
    BY <1>3, <1>4, <1>5, <1>6, <1>7, <1>8, <1>9, <1>10, <1>11, <1>12, <1>13, <1>14, <1>15, <1>16,
       <1>17 DEF RunStep

(* Every step lets only the first of a thread act.                               *)
LEMMA BusyStep ==
    ASSUME RunnerTypeOK, RunnerTypeOK', ReleasedGone, Chain, Budgeted, BusyAhead, AnswersKept, NoRun \notin Runs, [RunnerNext]_runnerVars
    PROVE  BusyAhead'
<1> USE DEF tableVars, runVars, signalVars, workVars, browserVars, sourceVars
<1>0. stage \in [Runs -> Stages] /\ gate \in [Runs -> Runs \cup {NoRun}] /\ holding \in SUBSET Runs
      /\ fallback \in [Runs -> {"none", "live", "ended"}]
    BY DEF RunnerTypeOK
<1>1. ASSUME NEW r \in Runs, RunStep(r), ~OwnerSettles(r) PROVE BusyAhead'
    BY <1>1, BusyRunStep
<1>2. ASSUME NEW k \in Keys, NEW n \in Runs, Start(k, n) PROVE BusyAhead'
  <2>1. /\ stage[n] = "none" /\ gate' = [gate EXCEPT ![n] = owners[ownerOf[k]]]
        /\ stage' = [stage EXCEPT ![n] = IF owners[ownerOf[k]] = NoRun THEN "sourcing" ELSE "gated"]
        /\ UNCHANGED <<fallback, holding>>
      BY <1>2 DEF Start, Goto
  <2>2. /\ \A x \in Runs : x # n => stage'[x] = stage[x] /\ gate'[x] = gate[x]
        /\ gate'[n] = owners[ownerOf[k]]
        /\ stage'[n] = IF owners[ownerOf[k]] = NoRun THEN "sourcing" ELSE "gated"
      BY <1>0, <2>1
  <2>3. fallback[n] # "live" /\ n \notin holding
      BY <2>1 DEF BusyAhead, Busy, Active, Begun
  <2>4. ASSUME NEW x \in Runs, x # n, Active(x), Ahead(x)
        PROVE  stage'[x] \notin {"none", "settled"} /\ (gate'[x] = NoRun \/ stage'[gate'[x]] = "settled")
      BY <1>0, <2>1, <2>2, <2>4 DEF Active, Ahead
  <2>5. \A x \in Runs : x # n /\ (stage'[x] \notin {"none", "gated", "ok", "thrown", "settled"} \/ fallback'[x] = "live")
            => Busy(x)
      BY <2>1, <2>2 DEF Busy, Acting, Active, Returned
  <2>6. \A x \in holding' : stage'[x] \notin {"none", "gated", "sourcing", "settled"}
      BY <1>0, <2>1, <2>2, <2>3 DEF BusyAhead, Begun
  <2>7. \A x \in Runs : stage'[x] \notin {"none", "gated", "ok", "thrown", "settled"} \/ fallback'[x] = "live" =>
            stage'[x] \notin {"none", "settled"} /\ (gate'[x] = NoRun \/ stage'[gate'[x]] = "settled")
      BY <2>1, <2>2, <2>3, <2>4, <2>5 DEF BusyAhead
  <2> QED
      BY <2>6, <2>7 DEF BusyAhead, Busy, Acting, Active, Ahead, Returned, Begun
<1>3. ASSUME NEW g \in Runs, OwnerSettles(g) PROVE BusyAhead'
  <2>1. /\ fallback[g] # "live" /\ stage' = [stage EXCEPT ![g] = "settled"] /\ gate' = [gate EXCEPT ![g] = NoRun]
        /\ UNCHANGED fallback /\ holding' = holding \ {g}
      BY <1>3 DEF OwnerSettles, Goto, GateOpens, Forget
  <2>2. /\ \A x \in Runs : x # g => stage'[x] = stage[x] /\ gate'[x] = gate[x]
        /\ stage'[g] = "settled"
      BY <1>0, <2>1
  <2>3. ASSUME NEW x \in Runs, stage'[x] \notin {"none", "gated", "ok", "thrown", "settled"} \/ fallback'[x] = "live"
        PROVE  stage'[x] \notin {"none", "settled"} /\ (gate'[x] = NoRun \/ stage'[gate'[x]] = "settled")
    <3>1. x # g /\ Busy(x)
        BY <2>1, <2>2, <2>3 DEF Busy, Acting, Active, Returned
    <3> QED
        BY <1>0, <2>2, <3>1 DEF BusyAhead, Active, Ahead
  <2>4. \A x \in holding' : stage'[x] \notin {"none", "gated", "sourcing", "settled"}
      BY <1>0, <2>1, <2>2 DEF BusyAhead, Begun
  <2> QED
      BY <2>3, <2>4 DEF BusyAhead, Busy, Acting, Active, Ahead, Returned, Begun
<1>a. ASSUME UNCHANGED <<stage, gate, fallback, holding>> PROVE BusyAhead'
    BY <1>a DEF BusyAhead, Busy, Acting, Active, Ahead, Returned, Begun
<1>4. ASSUME NEW k \in Keys, PruneRun(k) \/ PruneFailures(k) PROVE BusyAhead'
    BY <1>a, <1>4 DEF PruneRun, PruneFailures
<1>5. ASSUME NEW t \in NativeTurns, PruneInterruption(t) \/ CancelNativeTurn(t) PROVE BusyAhead'
    BY <1>a, <1>5 DEF PruneInterruption, CancelNativeTurn
<1>6. CASE CancelAll
    BY <1>a, <1>6 DEF CancelAll
<1>7. ASSUME NEW o \in Owners, Released(o) PROVE BusyAhead'
  <2>1. Quiet /\ stage' \in [Runs -> Stages]
      BY <1>7, QuietStep
  <2>2. \A x \in Runs : \/ stage'[x] = stage[x] /\ fallback'[x] = fallback[x]
                        \/ stage'[x] \in {"ok", "thrown"} /\ fallback'[x] = fallback[x]
                        \/ stage[x] = "cleanup"
      BY <1>0, <1>7 DEF Released
  <2>3. \A x \in Runs : stage'[x] \in Stages \ {"none", "gated", "ok", "thrown", "settled"} \/ fallback'[x] = "live"
                              => Busy(x) \/ (Active(x) /\ Ahead(x))
      BY <2>2 DEF Busy, Acting, Active, Returned
  <2>4. holding' \in SUBSET holding
      BY <1>7 DEF Released
  <2>5. \A x \in Runs : stage'[x] \in {stage[x], "ok", "thrown", "fallback"}
      BY <1>0, <1>7 DEF Released
  <2>6. \A x \in holding' : x \in Runs /\ stage'[x] \notin {"none", "gated", "sourcing", "settled"}
      BY <1>0, <2>4, <2>5 DEF BusyAhead, Begun
  <2> QED
      BY <2>1, <2>3, <2>6, BusyQuiet
<1>8. ASSUME NEW o \in Owners, StartTurn(o) \/ TurnSettles(o) \/ TurnReleased(o) \/ TurnDropped(o)
      PROVE  BusyAhead'
    BY <1>a, <1>8 DEF StartTurn, TurnSettles, TurnReleased, TurnDropped
<1>9. CASE UNCHANGED runnerVars
    BY <1>a, <1>9 DEF runnerVars
<1> QED
    BY <1>1, <1>2, <1>3, <1>4, <1>5, <1>6, <1>7, <1>8, <1>9 DEF RunnerNext

(* The budget of a key, and the turns that were interrupted                      *)

(* Every step keeps the budget of every key.                                     *)
LEMMA BudgetedStep ==
    ASSUME RunnerTypeOK, ReleasedGone, Budgeted, NoRun \notin Runs, [RunnerNext]_runnerVars
    PROVE  Budgeted'
<1> USE DEF Begun, Active, Going
<1>0. /\ stage \in [Runs -> Stages] /\ runs \in [Keys -> Runs \cup {NoRun}] /\ failures \in [Keys -> 0..2]
      /\ attempts \in [Keys -> Nat] /\ keyOfRun \in [Runs -> Keys \cup {NoRun}]
    BY DEF RunnerTypeOK
<1>1. CASE Quiet
    BY <1>0, <1>1 DEF Budgeted, Quiet, SameRuns
<1>2. ASSUME NEW k \in Keys, NEW n \in Runs, Start(k, n) PROVE Budgeted'
  <2>1. /\ stage[n] = "none" /\ runs[k] = NoRun /\ failures[k] <= 1
        /\ UNCHANGED failures
      BY <1>0, <1>2 DEF Start, FailedTwice
  <2>2. /\ stage'[n] \notin {"none", "settled"} /\ keyOfRun'[n] = k /\ runs'[k] = n /\ attempts'[k] = attempts[k] + 1
        /\ \A x \in Runs : x # n => stage'[x] = stage[x] /\ keyOfRun'[x] = keyOfRun[x]
        /\ \A l \in Keys : l # k => runs'[l] = runs[l] /\ attempts'[l] = attempts[l]
      BY <1>0, <1>2 DEF Start, Goto
  <2>3. \A x \in Runs : stage[x] \notin {"none", "settled"} => keyOfRun[x] # k
      BY <1>0, <2>1 DEF Budgeted
  <2>4. \A l \in Keys : l # k => runs[l] # n
      BY <2>1 DEF Budgeted
  <2>5. attempts[k] = failures[k]
    <3>1. attempts[k] = failures[k] + 0 /\ failures[k] \in Nat
        BY <1>0, <2>1 DEF Budgeted
    <3> QED
        BY <3>1
  <2>6. ASSUME NEW l \in Keys
        PROVE  /\ attempts'[l] = failures[l] + (IF runs'[l] # NoRun /\ stage'[runs'[l]] \notin {"none", "settled"} THEN 1 ELSE 0)
               /\ runs'[l] # NoRun /\ stage'[runs'[l]] \notin {"none", "settled"} => failures[l] <= 1
               /\ runs'[l] # NoRun => stage'[runs'[l]] # "none" /\ keyOfRun'[runs'[l]] = l
    <3>1. CASE l = k
        BY <2>1, <2>2, <2>5, <3>1
    <3>2. CASE l # k
      <4>1. runs'[l] = runs[l] /\ attempts'[l] = attempts[l]
          BY <2>2, <3>2
      <4>2. runs[l] # NoRun => /\ runs[l] \in Runs /\ stage'[runs[l]] = stage[runs[l]]
                              /\ keyOfRun'[runs[l]] = keyOfRun[runs[l]]
          BY <1>0, <2>2, <2>4, <3>2
      <4> QED
          BY <4>1, <4>2 DEF Budgeted
    <3> QED
        BY <3>1, <3>2
  <2>7. \A x \in Runs : stage'[x] # "none" => keyOfRun'[x] \in Keys
      BY <2>2 DEF Budgeted
  <2>8. \A x \in Runs : stage'[x] \notin {"none", "settled"} => runs'[keyOfRun'[x]] = x
      BY <2>2, <2>3 DEF Budgeted
  <2> QED
      BY <2>1, <2>6, <2>7, <2>8 DEF Budgeted
<1>3. ASSUME NEW g \in Runs, OwnerSettles(g) PROVE Budgeted'
  <2> DEFINE k == keyOfRun[g]
  <2>1. /\ k \in Keys /\ stage[g] \notin {"none", "settled"} /\ runs[k] = g /\ g # NoRun
      BY <1>0, <1>3 DEF OwnerSettles, Returned, Budgeted
  <2>2. failures[k] \in 0..2 /\ failures[k] <= 1 /\ attempts[k] = failures[k] + 1
      BY <1>0, <2>1 DEF Budgeted
  <2>3. /\ stage'[g] = "settled" /\ UNCHANGED keyOfRun
        /\ \A x \in Runs : x # g => stage'[x] = stage[x]
        /\ \A l \in Keys : l # k => runs'[l] = runs[l] /\ attempts'[l] = attempts[l] /\ failures'[l] = failures[l]
      BY <1>0, <1>3, <2>1 DEF OwnerSettles, Goto
  <2>4. /\ attempts'[k] = failures'[k] /\ runs'[k] \in {NoRun, g}
      BY <1>0, <1>3, <2>1, <2>2 DEF OwnerSettles, CountFailure
  <2>5. \A l \in Keys : l # k => runs[l] # g
      BY <2>1 DEF Budgeted
  <2>6. failures'[k] \in Nat
      BY <1>0, <1>3, <2>1, <2>2 DEF OwnerSettles, CountFailure
  <2>7. ASSUME NEW l \in Keys
        PROVE  /\ attempts'[l] = failures'[l] + (IF runs'[l] # NoRun /\ stage'[runs'[l]] \notin {"none", "settled"} THEN 1 ELSE 0)
               /\ runs'[l] # NoRun /\ stage'[runs'[l]] \notin {"none", "settled"} => failures'[l] <= 1
               /\ runs'[l] # NoRun => stage'[runs'[l]] # "none" /\ keyOfRun[runs'[l]] = l
    <3>1. CASE l = k
        BY <2>1, <2>3, <2>4, <2>6, <3>1
    <3>2. CASE l # k
      <4>1. runs'[l] = runs[l] /\ attempts'[l] = attempts[l] /\ failures'[l] = failures[l]
          BY <2>3, <3>2
      <4>2. runs[l] # NoRun => runs[l] \in Runs /\ stage'[runs[l]] = stage[runs[l]]
          BY <1>0, <2>3, <2>5, <3>2
      <4> QED
          BY <4>1, <4>2 DEF Budgeted
    <3> QED
        BY <3>1, <3>2
  <2>8. \A x \in Runs : stage'[x] # "none" => keyOfRun[x] \in Keys
      BY <2>1, <2>3 DEF Budgeted
  <2>9. \A x \in Runs : stage'[x] \notin {"none", "settled"} => runs'[keyOfRun[x]] = x
      BY <2>1, <2>3 DEF Budgeted
  <2> QED
      BY <2>3, <2>7, <2>8, <2>9 DEF Budgeted
<1>4. ASSUME NEW k \in Keys, PruneRun(k) PROVE Budgeted'
    BY <1>0, <1>4 DEF PruneRun, Budgeted, runVars
<1>5. ASSUME NEW k \in Keys, PruneFailures(k) PROVE Budgeted'
    BY <1>0, <1>5 DEF PruneFailures, Budgeted, runVars
<1> QED
    BY <1>1, <1>2, <1>3, <1>4, <1>5, QuietStep DEF RunnerNext

(* A key whose runs are counted has two at most.                                 *)
LEMMA BudgetedBounds == RunnerTypeOK /\ Budgeted => AtMostOneRetry
<1> SUFFICES ASSUME RunnerTypeOK, Budgeted, NEW k \in Keys PROVE attempts[k] <= 2
    BY DEF AtMostOneRetry
<1>1. failures[k] \in 0..2
    BY DEF RunnerTypeOK
<1> QED
    BY <1>1 DEF Budgeted

(* Every step keeps the runs of an interrupted turn cancelled.                   *)
LEMMA InterruptedStep ==
    ASSUME RunnerTypeOK, ReleasedGone, Budgeted, InterruptedRunsStop, [RunnerNext]_runnerVars
    PROVE  InterruptedRunsStop'
<1> USE DEF InterruptedRunsStop, tableVars, runVars, signalVars, workVars, browserVars, sourceVars
<1>0. stage \in [Runs -> Stages] /\ keyOfRun \in [Runs -> Keys \cup {NoRun}]
    BY DEF RunnerTypeOK
<1>a. ASSUME Quiet, interruptions' \in SUBSET interruptions, aborted \in SUBSET aborted'
      PROVE  InterruptedRunsStop'
    BY <1>a DEF Quiet, SameRuns, Active
<1>1. ASSUME NEW r \in Runs, RunStep(r), ~OwnerSettles(r) PROVE InterruptedRunsStop'
  <2>1. Quiet
      BY <1>1, QuietStep
  <2>2. UNCHANGED interruptions /\ aborted \in SUBSET aborted'
      BY <1>1 DEF RunStep, PassGate, FindSource, SourceSettled, SourceFails, SubmitHandoff, HandoffDone,
         HandoffFails,
         HandoffEnds, FallbackDone, FallbackFails, FallbackEnds, Stop, NothingToClose, Expire,
         CancelTrace,
         AbortRuns, Catch
  <2> QED
      BY <1>a, <2>1, <2>2
<1>2. ASSUME NEW k \in Keys, NEW n \in Runs, Start(k, n) PROVE InterruptedRunsStop'
    BY <1>0, <1>2 DEF Start, Goto, Active, Interrupted
<1>3. ASSUME NEW g \in Runs, OwnerSettles(g) PROVE InterruptedRunsStop'
    BY <1>0, <1>3 DEF OwnerSettles, Goto, Forget, Active
<1>4. ASSUME NEW k \in Keys, PruneRun(k) \/ PruneFailures(k) PROVE InterruptedRunsStop'
    BY <1>4 DEF PruneRun, PruneFailures, Active
<1>5. ASSUME NEW t \in NativeTurns, PruneInterruption(t) PROVE InterruptedRunsStop'
    BY <1>5 DEF PruneInterruption, Active
<1>6. ASSUME NEW t \in NativeTurns, CancelNativeTurn(t) PROVE InterruptedRunsStop'
    BY <1>6 DEF CancelNativeTurn, AbortRuns, RunsOfTurn, Active
<1>7. CASE CancelAll
    BY <1>7 DEF CancelAll, AbortRuns, Active
<1>8. ASSUME NEW o \in Owners, Released(o) \/ StartTurn(o) \/ TurnSettles(o) \/ TurnReleased(o) \/ TurnDropped(o)
      PROVE  InterruptedRunsStop'
  <2>1. Quiet
      BY <1>8, QuietStep
  <2>2. UNCHANGED <<interruptions, aborted>>
      BY <1>8 DEF Released, StartTurn, TurnSettles, TurnReleased, TurnDropped
  <2> QED
      BY <1>a, <2>1, <2>2
<1>9. CASE UNCHANGED runnerVars
    BY <1>9 DEF runnerVars, Active
<1> QED
    BY <1>1, <1>2, <1>3, <1>4, <1>5, <1>6, <1>7, <1>8, <1>9 DEF RunnerNext

(* The answer of a thread                                                        *)

(* The parts of what is kept, for the runs that hold a conversation, were told   *)
(* that one is gone, or dropped an answer.                                       *)
AnswersIn(r) ==
    /\ stage[r] \in {"settling", "handoff", "accepted"} => r \in holding
    /\ r \in holding /\ stage[r] # "settling" => Kept(r)
    /\ r \in unavailable => Begun(r) /\ stage[r] \notin {"gated", "sourcing", "settling", "handoff", "accepted"}
    /\ r \in lost => stage[r] \in {"cleanup", "thrown"} /\ r \notin unavailable
LEMMA AnswersByRun == RunnerTypeOK => (AnswersKept <=> \A r \in Runs : AnswersIn(r))
BY DEF RunnerTypeOK, AnswersKept, AnswersIn

(* What a run keeps it goes on keeping, while its source may leave but not come. *)
SourceStays ==
    /\ \A r \in Runs : stage[r] # "none" => keyOfRun'[r] = keyOfRun[r]
    /\ \A o \in instructed : o \in instructed' \/ source'[o] = "none"
    /\ \A o \in Owners : source'[o] \in {source[o], "none"}
    /\ preserve \in SUBSET preserve'
LEMMA StaysKept ==
    ASSUME RunnerTypeOK, SourceStays, NEW r \in Runs, stage[r] # "none", Owner(r) \in Owners, Kept(r)
    PROVE  r \in preserve' \/ ownerOf[keyOfRun'[r]] \in instructed' \/ source'[ownerOf[keyOfRun'[r]]] \in {"none", "error"}
BY DEF SourceStays, Kept, Owner, RunnerTypeOK

(* The other runs of a step that moves one.                                      *)
LEMMA OthersKeep ==
    ASSUME RunnerTypeOK, Budgeted, AnswersKept, BusyAhead, NEW r \in Runs, SourceStays,
           \A x \in Runs : x # r => stage'[x] = stage[x],
           \A x \in Runs : x # r => /\ x \in holding <=> x \in holding'
                                    /\ x \in unavailable' <=> x \in unavailable
                                    /\ x \in lost' <=> x \in lost,
           NEW x \in Runs, x # r
    PROVE  AnswersIn(x)'
<1>1. AnswersIn(x)
    BY AnswersByRun
<1>2. x \in holding => stage[x] # "none" /\ Owner(x) \in Owners
    BY BegunHasOwner DEF BusyAhead, Begun
<1>3. x \in holding /\ Kept(x) =>
          x \in preserve' \/ ownerOf[keyOfRun'[x]] \in instructed' \/ source'[ownerOf[keyOfRun'[x]]] \in {"none", "error"}
    BY <1>2, StaysKept
<1> QED
    BY <1>1, <1>3 DEF AnswersIn, Begun, Kept, Owner

(* A step of one run keeps what it says of the answers, and no session comes     *)
(* back to a conversation that is being released.                                *)
LEMMA AnswersRunStep ==
    ASSUME RunnerTypeOK, RunnerTypeOK', Budgeted, BusyAhead, AnswersKept, ReleasedGone,
           NEW r \in Runs, RunStep(r), ~OwnerSettles(r)
    PROVE  (\A x \in Runs : AnswersIn(x)') /\ ReleasedGone'
<1> USE DEF tableVars, runVars, signalVars, workVars, browserVars, sourceVars
<1>0. /\ stage \in [Runs -> Stages] /\ preserve \in SUBSET Runs /\ holding \in SUBSET Runs
      /\ unavailable \in SUBSET Runs /\ lost \in SUBSET Runs /\ source \in [Owners -> {"none", "active", "final", "error"}]
      /\ instructed \in SUBSET Owners /\ retiring \in SUBSET Owners
    BY DEF RunnerTypeOK
<1>1. AnswersIn(r)
    BY AnswersByRun
<1>2. r \in holding => stage[r] \notin {"none", "gated", "sourcing", "settled"}
    BY DEF BusyAhead, Begun
<1>3. stage[r] # "none" => Owner(r) \in Owners
    BY BegunHasOwner DEF Begun
<1>4. keyOfRun' = keyOfRun
    BY QuietStep DEF Quiet
<1>5. ASSUME \A o \in instructed : o \in instructed' \/ source'[o] = "none",
             \A o \in Owners : source'[o] \in {source[o], "none"},
             preserve \in SUBSET preserve',
             \A x \in Runs : x # r => stage'[x] = stage[x],
             \A x \in Runs : x # r => /\ x \in holding <=> x \in holding'
                                      /\ x \in unavailable' <=> x \in unavailable
                                      /\ x \in lost' <=> x \in lost,
             AnswersIn(r)'
      PROVE  \A x \in Runs : AnswersIn(x)'
  <2>1. SourceStays
      BY <1>4, <1>5 DEF SourceStays
  <2>2. ASSUME NEW x \in Runs, x # r PROVE AnswersIn(x)'
      BY <1>5, <2>1, <2>2, OthersKeep
  <2> QED
      BY <1>5, <2>2
<1>6. ASSUME UNCHANGED <<source, instructed, retiring>>,
             preserve \in SUBSET preserve',
             \A x \in Runs : x # r => stage'[x] = stage[x],
             \A x \in Runs : x # r => /\ x \in holding <=> x \in holding'
                                      /\ x \in unavailable' <=> x \in unavailable
                                      /\ x \in lost' <=> x \in lost,
             AnswersIn(r)'
      PROVE  (\A x \in Runs : AnswersIn(x)') /\ ReleasedGone'
    BY <1>5, <1>6 DEF ReleasedGone
<1>7. CASE PassGate(r)
  <2>1. /\ UNCHANGED <<source, instructed, retiring>> /\ preserve \in SUBSET preserve'
        /\ \A x \in Runs : x # r => stage'[x] = stage[x]
        /\ \A x \in Runs : x # r => /\ x \in holding <=> x \in holding'
                                    /\ x \in unavailable' <=> x \in unavailable
                                    /\ x \in lost' <=> x \in lost
      BY <1>0, <1>7 DEF PassGate, Goto
  <2>2. AnswersIn(r)'
      BY <1>0, <1>1, <1>2, <1>3, <1>4, <1>7 DEF PassGate, Goto, AnswersIn, Begun, Kept, Owner
  <2> QED
      BY <1>6, <2>1, <2>2
<1>8. CASE FindSource(r)
  <2>1. /\ UNCHANGED <<source, instructed, retiring>> /\ preserve \in SUBSET preserve'
        /\ \A x \in Runs : x # r => stage'[x] = stage[x]
        /\ \A x \in Runs : x # r => /\ x \in holding <=> x \in holding'
                                    /\ x \in unavailable' <=> x \in unavailable
                                    /\ x \in lost' <=> x \in lost
      BY <1>0, <1>8 DEF FindSource, Goto, OpenHandoff, OpenFallback
  <2>2. AnswersIn(r)'
      BY <1>0, <1>1, <1>2, <1>3, <1>4, <1>8 DEF FindSource, Goto, OpenHandoff, OpenFallback, AnswersIn,
         Begun, Kept, Owner
  <2> QED
      BY <1>6, <2>1, <2>2
<1>9. CASE SubmitHandoff(r)
  <2>1. /\ UNCHANGED <<source, instructed, retiring>> /\ preserve \in SUBSET preserve'
        /\ \A x \in Runs : x # r => stage'[x] = stage[x]
        /\ \A x \in Runs : x # r => /\ x \in holding <=> x \in holding'
                                    /\ x \in unavailable' <=> x \in unavailable
                                    /\ x \in lost' <=> x \in lost
      BY <1>0, <1>9 DEF SubmitHandoff, Goto
  <2>2. AnswersIn(r)'
      BY <1>0, <1>1, <1>2, <1>3, <1>4, <1>9 DEF SubmitHandoff, Goto, AnswersIn, Begun, Kept, Owner
  <2> QED
      BY <1>6, <2>1, <2>2
<1>10. CASE HandoffEnds(r)
  <2>1. /\ UNCHANGED <<source, instructed, retiring>> /\ preserve \in SUBSET preserve'
        /\ \A x \in Runs : x # r => stage'[x] = stage[x]
        /\ \A x \in Runs : x # r => /\ x \in holding <=> x \in holding'
                                    /\ x \in unavailable' <=> x \in unavailable
                                    /\ x \in lost' <=> x \in lost
      BY <1>0, <1>10 DEF HandoffEnds
  <2>2. AnswersIn(r)'
      BY <1>0, <1>1, <1>2, <1>3, <1>4, <1>10 DEF HandoffEnds, AnswersIn, Begun, Kept, Owner
  <2> QED
      BY <1>6, <2>1, <2>2
<1>11. CASE FallbackEnds(r)
  <2>1. /\ UNCHANGED <<source, instructed, retiring>> /\ preserve \in SUBSET preserve'
        /\ \A x \in Runs : x # r => stage'[x] = stage[x]
        /\ \A x \in Runs : x # r => /\ x \in holding <=> x \in holding'
                                    /\ x \in unavailable' <=> x \in unavailable
                                    /\ x \in lost' <=> x \in lost
      BY <1>0, <1>11 DEF FallbackEnds
  <2>2. AnswersIn(r)'
      BY <1>0, <1>1, <1>2, <1>3, <1>4, <1>11 DEF FallbackEnds, AnswersIn, Begun, Kept, Owner
  <2> QED
      BY <1>6, <2>1, <2>2
<1>12. CASE NothingToClose(r)
  <2>1. /\ UNCHANGED <<source, instructed, retiring>> /\ preserve \in SUBSET preserve'
        /\ \A x \in Runs : x # r => stage'[x] = stage[x]
        /\ \A x \in Runs : x # r => /\ x \in holding <=> x \in holding'
                                    /\ x \in unavailable' <=> x \in unavailable
                                    /\ x \in lost' <=> x \in lost
      BY <1>0, <1>12 DEF NothingToClose, Goto, OpenFallback
  <2>2. AnswersIn(r)'
      BY <1>0, <1>1, <1>2, <1>3, <1>4, <1>12 DEF NothingToClose, Goto, OpenFallback, AnswersIn, Begun,
         Kept, Owner
  <2> QED
      BY <1>6, <2>1, <2>2
<1>13. CASE Expire(r)
  <2>1. /\ UNCHANGED <<source, instructed, retiring>> /\ preserve \in SUBSET preserve'
        /\ \A x \in Runs : x # r => stage'[x] = stage[x]
        /\ \A x \in Runs : x # r => /\ x \in holding <=> x \in holding'
                                    /\ x \in unavailable' <=> x \in unavailable
                                    /\ x \in lost' <=> x \in lost
      BY <1>0, <1>13 DEF Expire
  <2>2. AnswersIn(r)'
      BY <1>0, <1>1, <1>2, <1>3, <1>4, <1>13 DEF Expire, AnswersIn, Begun, Kept, Owner
  <2> QED
      BY <1>6, <2>1, <2>2
<1>14. CASE CancelTrace(r)
  <2>1. /\ UNCHANGED <<source, instructed, retiring>> /\ preserve \in SUBSET preserve'
        /\ \A x \in Runs : x # r => stage'[x] = stage[x]
        /\ \A x \in Runs : x # r => /\ x \in holding <=> x \in holding'
                                    /\ x \in unavailable' <=> x \in unavailable
                                    /\ x \in lost' <=> x \in lost
      BY <1>0, <1>14 DEF CancelTrace, AbortRuns
  <2>2. AnswersIn(r)'
      BY <1>0, <1>1, <1>2, <1>3, <1>4, <1>14 DEF CancelTrace, AbortRuns, AnswersIn, Begun, Kept, Owner
  <2> QED
      BY <1>6, <2>1, <2>2
<1>15. CASE SourceFails(r)
  <2>1. Active(r) /\ Begun(r) /\ Catch(r)
      BY <1>15 DEF SourceFails, Stoppable, Active, Begun
  <2>2. /\ ReleasedGone' /\ (r \in holding' => source'[Owner(r)] = "none")
        /\ stage'[r] = IF r \in holding THEN "cleanup" ELSE "thrown"
        /\ \A x \in Runs : x # r => stage'[x] = stage[x]
        /\ \A o \in Owners : source'[o] \in {source[o], "none"}
        /\ \A o \in instructed : o \in instructed' \/ source'[o] = "none"
        /\ holding' \in SUBSET holding /\ \A x \in holding : x # r => x \in holding'
        /\ lost' \in {lost, lost \cup {r}}
        /\ Kept(r) \/ r \notin holding => lost' = lost
        /\ UNCHANGED preserve
      BY <1>3, <2>1, Caught DEF Begun
  <2>3. unavailable' \in {unavailable, unavailable \cup {r}} /\ (stage[r] = "settling" => unavailable' = unavailable)
      BY <1>15 DEF SourceFails
  <2>4. r \in lost' => r \in lost \/ stage[r] = "settling"
      BY <1>1, <2>2 DEF AnswersIn
  <2>5. stage[r] \notin {"cleanup", "thrown"}
      BY <1>15 DEF SourceFails, Stoppable
  <2>6. AnswersIn(r)'
      BY <1>1, <1>2, <1>4, <2>2, <2>3, <2>4, <2>5 DEF AnswersIn, Begun, Kept, Owner
  <2>7. \A x \in Runs : x # r => /\ x \in holding <=> x \in holding'
                                 /\ x \in unavailable' <=> x \in unavailable
                                 /\ x \in lost' <=> x \in lost
      BY <2>2, <2>3
  <2> QED
      BY <1>5, <2>2, <2>6, <2>7
<1>16. CASE HandoffFails(r)
  <2>1. Active(r) /\ Begun(r) /\ Catch(r)
      BY <1>16 DEF HandoffFails, Stoppable, Active, Begun
  <2>2. /\ ReleasedGone' /\ (r \in holding' => source'[Owner(r)] = "none")
        /\ stage'[r] = IF r \in holding THEN "cleanup" ELSE "thrown"
        /\ \A x \in Runs : x # r => stage'[x] = stage[x]
        /\ \A o \in Owners : source'[o] \in {source[o], "none"}
        /\ \A o \in instructed : o \in instructed' \/ source'[o] = "none"
        /\ holding' \in SUBSET holding /\ \A x \in holding : x # r => x \in holding'
        /\ lost' \in {lost, lost \cup {r}}
        /\ Kept(r) \/ r \notin holding => lost' = lost
        /\ UNCHANGED preserve
      BY <1>3, <2>1, Caught DEF Begun
  <2>3. unavailable' \in {unavailable, unavailable \cup {r}} /\ (stage[r] = "settling" => unavailable' = unavailable)
      BY <1>16 DEF HandoffFails
  <2>4. r \in lost' => r \in lost \/ stage[r] = "settling"
      BY <1>1, <2>2 DEF AnswersIn
  <2>5. stage[r] \notin {"cleanup", "thrown"}
      BY <1>16 DEF HandoffFails, Stoppable
  <2>6. AnswersIn(r)'
      BY <1>1, <1>2, <1>4, <2>2, <2>3, <2>4, <2>5 DEF AnswersIn, Begun, Kept, Owner
  <2>7. \A x \in Runs : x # r => /\ x \in holding <=> x \in holding'
                                 /\ x \in unavailable' <=> x \in unavailable
                                 /\ x \in lost' <=> x \in lost
      BY <2>2, <2>3
  <2> QED
      BY <1>5, <2>2, <2>6, <2>7
<1>17. CASE FallbackFails(r)
  <2>1. Active(r) /\ Begun(r) /\ Catch(r)
      BY <1>17 DEF FallbackFails, Stoppable, Active, Begun
  <2>2. /\ ReleasedGone' /\ (r \in holding' => source'[Owner(r)] = "none")
        /\ stage'[r] = IF r \in holding THEN "cleanup" ELSE "thrown"
        /\ \A x \in Runs : x # r => stage'[x] = stage[x]
        /\ \A o \in Owners : source'[o] \in {source[o], "none"}
        /\ \A o \in instructed : o \in instructed' \/ source'[o] = "none"
        /\ holding' \in SUBSET holding /\ \A x \in holding : x # r => x \in holding'
        /\ lost' \in {lost, lost \cup {r}}
        /\ Kept(r) \/ r \notin holding => lost' = lost
        /\ UNCHANGED preserve
      BY <1>3, <2>1, Caught DEF Begun
  <2>3. unavailable' \in {unavailable, unavailable \cup {r}} /\ (stage[r] = "settling" => unavailable' = unavailable)
      BY <1>17 DEF FallbackFails
  <2>4. r \in lost' => r \in lost \/ stage[r] = "settling"
      BY <1>1, <2>2 DEF AnswersIn
  <2>5. stage[r] \notin {"cleanup", "thrown"}
      BY <1>17 DEF FallbackFails, Stoppable
  <2>6. AnswersIn(r)'
      BY <1>1, <1>2, <1>4, <2>2, <2>3, <2>4, <2>5 DEF AnswersIn, Begun, Kept, Owner
  <2>7. \A x \in Runs : x # r => /\ x \in holding <=> x \in holding'
                                 /\ x \in unavailable' <=> x \in unavailable
                                 /\ x \in lost' <=> x \in lost
      BY <2>2, <2>3
  <2> QED
      BY <1>5, <2>2, <2>6, <2>7
<1>18. CASE Stop(r)
  <2>1. Active(r) /\ Begun(r) /\ Catch(r)
      BY <1>18 DEF Stop, Stoppable, Active, Begun
  <2>2. /\ ReleasedGone' /\ (r \in holding' => source'[Owner(r)] = "none")
        /\ stage'[r] = IF r \in holding THEN "cleanup" ELSE "thrown"
        /\ \A x \in Runs : x # r => stage'[x] = stage[x]
        /\ \A o \in Owners : source'[o] \in {source[o], "none"}
        /\ \A o \in instructed : o \in instructed' \/ source'[o] = "none"
        /\ holding' \in SUBSET holding /\ \A x \in holding : x # r => x \in holding'
        /\ lost' \in {lost, lost \cup {r}}
        /\ Kept(r) \/ r \notin holding => lost' = lost
        /\ UNCHANGED preserve
      BY <1>3, <2>1, Caught DEF Begun
  <2>3. unavailable' \in {unavailable, unavailable \cup {r}} /\ (stage[r] = "settling" => unavailable' = unavailable)
      BY <1>18 DEF Stop
  <2>4. r \in lost' => r \in lost \/ stage[r] = "settling"
      BY <1>1, <2>2 DEF AnswersIn
  <2>5. stage[r] \notin {"cleanup", "thrown"}
      BY <1>18 DEF Stop, Stoppable
  <2>6. AnswersIn(r)'
      BY <1>1, <1>2, <1>4, <2>2, <2>3, <2>4, <2>5 DEF AnswersIn, Begun, Kept, Owner
  <2>7. \A x \in Runs : x # r => /\ x \in holding <=> x \in holding'
                                 /\ x \in unavailable' <=> x \in unavailable
                                 /\ x \in lost' <=> x \in lost
      BY <2>2, <2>3
  <2> QED
      BY <1>5, <2>2, <2>6, <2>7
<1>a. ASSUME CloseSource(r), Begun(r), Kept(r), preserve \in SUBSET preserve', UNCHANGED unavailable,
             r \notin lost, r \in unavailable => stage[r] = "fallback",
             stage' = [stage EXCEPT ![r] = "closing"]
      PROVE  (\A x \in Runs : AnswersIn(x)') /\ ReleasedGone'
  <2>1. /\ ReleasedGone' /\ (r \in holding' => source'[Owner(r)] = "none")
        /\ \A o \in Owners : source'[o] \in {source[o], "none"}
        /\ \A o \in instructed : o \in instructed' \/ source'[o] = "none"
        /\ holding' \in SUBSET holding /\ \A x \in holding : x # r => x \in holding'
        /\ lost' = lost
      BY <1>3, <1>a, Closed DEF Begun
  <2>2. stage'[r] = "closing" /\ \A x \in Runs : x # r => stage'[x] = stage[x]
      BY <1>0, <1>a
  <2>3. AnswersIn(r)'
      BY <1>4, <1>a, <2>1, <2>2 DEF AnswersIn, Begun, Kept, Owner
  <2> QED
      BY <1>5, <1>a, <2>1, <2>2, <2>3
<1>19. CASE HandoffDone(r)
  <2>1. r \in holding /\ Kept(r) /\ Begun(r) /\ r \notin lost /\ r \notin unavailable
      BY <1>1, <1>19 DEF HandoffDone, AnswersIn, Begun
  <2> QED
      BY <1>a, <2>1, <1>19 DEF HandoffDone, Goto
<1>20. CASE FallbackDone(r)
  <2>0. stage[r] = "fallback" /\ r \notin lost /\ Begun(r)
      BY <1>1, <1>20 DEF FallbackDone, AnswersIn, Begun
  <2>1. CASE r \in holding
    <3>1. Kept(r)
        BY <1>1, <2>0, <2>1 DEF AnswersIn
    <3> QED
        BY <1>a, <2>0, <2>1, <3>1, <1>20 DEF FallbackDone, Goto
  <2>2. CASE r \notin holding
    <3>1. /\ UNCHANGED <<source, instructed, retiring, holding, lost, unavailable, preserve>>
          /\ stage' = [stage EXCEPT ![r] = "ok"]
        BY <2>2, <1>20 DEF FallbackDone, Goto
    <3>2. stage'[r] = "ok" /\ \A x \in Runs : x # r => stage'[x] = stage[x]
        BY <1>0, <3>1
    <3>3. AnswersIn(r)'
        BY <2>0, <2>2, <3>1, <3>2 DEF AnswersIn, Begun
    <3> QED
        BY <1>6, <3>1, <3>2, <3>3
  <2> QED
      BY <2>1, <2>2
<1>21. CASE SourceSettled(r)
  <2>0. /\ stage[r] = "settling" /\ r \in holding /\ r \notin unavailable /\ r \notin lost /\ Begun(r)
        /\ preserve' = PreserveOrdinary(r) /\ UNCHANGED unavailable
      BY <1>1, <1>21 DEF SourceSettled, AnswersIn, Begun
  <2>1. preserve \in SUBSET preserve' /\ (Owner(r) \in instructed \/ r \in preserve')
      BY <1>0, <2>0 DEF PreserveOrdinary
  <2>2. CASE Goto(r, "closing") /\ CloseSource(r) /\ Owner(r) \in instructed
    <3>1. Kept(r)
        BY <2>2 DEF Kept
    <3> QED
        BY <1>a, <2>0, <2>1, <2>2, <3>1 DEF Goto
  <2>3. CASE (OpenHandoff(r) \/ OpenFallback(r)) /\ UNCHANGED <<source, retiring, instructed, holding, lost>>
    <3>1. stage'[r] \in {"handoff", "fallback"} /\ \A x \in Runs : x # r => stage'[x] = stage[x]
        BY <1>0, <2>3 DEF OpenHandoff, OpenFallback, Goto
    <3>2. AnswersIn(r)'
        BY <1>4, <2>0, <2>1, <2>3, <3>1 DEF AnswersIn, Begun, Kept, Owner
    <3> QED
        BY <1>6, <2>0, <2>1, <2>3, <3>1, <3>2
  <2> QED
      BY <2>2, <2>3, <1>21 DEF SourceSettled
<1> QED
    BY <1>7, <1>8, <1>9, <1>10, <1>11, <1>12, <1>13, <1>14, <1>15, <1>16, <1>17, <1>18, <1>19, <1>20,
       <1>21 DEF RunStep

(* Every step keeps what is said of the answers.                                 *)
LEMMA AnswersStep ==
    ASSUME RunnerTypeOK, RunnerTypeOK', Budgeted, BusyAhead, AnswersKept, ReleasedGone, [RunnerNext]_runnerVars
    PROVE  AnswersKept' /\ ReleasedGone'
<1> USE DEF tableVars, runVars, signalVars, workVars, browserVars, sourceVars
<1>0. /\ stage \in [Runs -> Stages] /\ preserve \in SUBSET Runs /\ holding \in SUBSET Runs
      /\ unavailable \in SUBSET Runs /\ lost \in SUBSET Runs /\ source \in [Owners -> {"none", "active", "final", "error"}]
      /\ instructed \in SUBSET Owners /\ retiring \in SUBSET Owners /\ keyOfRun \in [Runs -> Keys \cup {NoRun}]
    BY DEF RunnerTypeOK
<1>1. \A x \in Runs : AnswersIn(x)
    BY AnswersByRun
<1>b. /\ \A x \in Runs : stage[x] # "none" => Owner(x) \in Owners
      /\ \A x \in holding : x \in Runs /\ stage[x] \notin {"none", "gated", "sourcing", "settled"}
    BY <1>0, BegunHasOwner DEF BusyAhead, Begun
<1>2. SUFFICES (\A x \in Runs : AnswersIn(x)') /\ ReleasedGone'
  <2>1. RunnerTypeOK' => (AnswersKept' <=> \A x \in Runs : AnswersIn(x)')
      BY DEF RunnerTypeOK, AnswersKept, AnswersIn
  <2> QED
      BY <2>1
<1>3. ASSUME NEW r \in Runs, RunStep(r), ~OwnerSettles(r)
      PROVE  (\A x \in Runs : AnswersIn(x)') /\ ReleasedGone'
    BY <1>3, AnswersRunStep
<1>a. ASSUME UNCHANGED <<stage, keyOfRun, holding, preserve, unavailable, lost, instructed, source>>
      PROVE  \A x \in Runs : AnswersIn(x)'
  <2> SUFFICES ASSUME NEW x \in Runs PROVE AnswersIn(x)'
      OBVIOUS
  <2>1. AnswersIn(x)
      BY <1>1
  <2> QED
      BY <1>a, <2>1 DEF AnswersIn, Begun, Kept, Owner
<1>4. ASSUME NEW k \in Keys, NEW n \in Runs, Start(k, n)
      PROVE  (\A x \in Runs : AnswersIn(x)') /\ ReleasedGone'
  <2>1. /\ stage[n] = "none" /\ UNCHANGED <<holding, preserve, unavailable, lost, instructed, source, retiring>>
        /\ stage' = [stage EXCEPT ![n] = IF owners[ownerOf[k]] = NoRun THEN "sourcing" ELSE "gated"]
        /\ keyOfRun' = [keyOfRun EXCEPT ![n] = k]
      BY <1>4 DEF Start, Goto
  <2>2. /\ stage'[n] \in {"sourcing", "gated"}
        /\ \A x \in Runs : x # n => stage'[x] = stage[x] /\ keyOfRun'[x] = keyOfRun[x]
      BY <1>0, <2>1
  <2>3. n \notin holding /\ n \notin unavailable /\ n \notin lost
    <3>1. AnswersIn(n)
        BY <1>1
    <3> QED
        BY <1>b, <2>1, <3>1 DEF AnswersIn, Begun
  <2>4. ASSUME NEW x \in Runs PROVE AnswersIn(x)'
    <3>1. AnswersIn(x)
        BY <1>1
    <3> QED
        BY <2>1, <2>2, <2>3, <3>1 DEF AnswersIn, Begun, Kept, Owner
  <2> QED
      BY <2>1, <2>4 DEF ReleasedGone
<1>5. ASSUME NEW g \in Runs, OwnerSettles(g) PROVE (\A x \in Runs : AnswersIn(x)') /\ ReleasedGone'
  <2>1. /\ stage' = [stage EXCEPT ![g] = "settled"] /\ UNCHANGED <<keyOfRun, instructed, source, retiring>>
        /\ Forget(g)
      BY <1>5 DEF OwnerSettles, Goto
  <2>2. stage'[g] = "settled" /\ \A x \in Runs : x # g => stage'[x] = stage[x]
      BY <1>0, <2>1
  <2> QED
    <3> SUFFICES ASSUME NEW x \in Runs PROVE AnswersIn(x)'
        BY <2>1 DEF ReleasedGone
    <3>1. AnswersIn(x)
        BY <1>1
    <3> QED
        BY <2>1, <2>2, <3>1 DEF Forget, AnswersIn, Begun, Kept, Owner
<1>6. ASSUME NEW k \in Keys, PruneRun(k) \/ PruneFailures(k)
      PROVE  (\A x \in Runs : AnswersIn(x)') /\ ReleasedGone'
    BY <1>a, <1>6 DEF PruneRun, PruneFailures, ReleasedGone
<1>7. ASSUME NEW t \in NativeTurns, PruneInterruption(t) \/ CancelNativeTurn(t)
      PROVE  (\A x \in Runs : AnswersIn(x)') /\ ReleasedGone'
    BY <1>a, <1>7 DEF PruneInterruption, CancelNativeTurn, ReleasedGone
<1>8. CASE CancelAll \/ UNCHANGED runnerVars
    BY <1>a, <1>8 DEF CancelAll, runnerVars, ReleasedGone
<1>9. ASSUME NEW o \in Owners, Released(o) PROVE (\A x \in Runs : AnswersIn(x)') /\ ReleasedGone'
  <2>1. /\ UNCHANGED <<keyOfRun, instructed, source, unavailable, preserve, lost>>
        /\ holding' \in SUBSET holding /\ retiring' \in SUBSET retiring
        /\ \A x \in holding : stage[x] # "cleanup" => x \in holding'
      BY <1>0, <1>9 DEF Released, runVars
  <2>2. \A x \in Runs : \/ stage'[x] = stage[x]
                        \/ stage'[x] = "thrown" /\ stage[x] \in {"sourcing", "closing", "cleanup"}
                        \/ stage'[x] = "ok" /\ stage[x] = "closing"
                        \/ stage'[x] = "fallback" /\ stage[x] = "cleanup" /\ x \in unavailable
      BY <1>0, <1>9 DEF Released
  <2>3. ReleasedGone'
      BY <2>1 DEF ReleasedGone
  <2>4. ASSUME NEW x \in Runs PROVE AnswersIn(x)'
    <3>1. AnswersIn(x)
        BY <1>1
    <3> QED
        BY <2>1, <2>2, <3>1 DEF AnswersIn, Begun, Kept, Owner
  <2> QED
      BY <2>3, <2>4
<1>10. ASSUME NEW o \in Owners, StartTurn(o) PROVE (\A x \in Runs : AnswersIn(x)') /\ ReleasedGone'
  <2>1. /\ UNCHANGED <<stage, keyOfRun, holding, preserve, unavailable, lost, instructed, retiring>>
        /\ \A x \in holding : Owner(x) # o /\ o \notin retiring
        /\ \A p \in Owners : p # o => source'[p] = source[p]
      BY <1>0, <1>10 DEF StartTurn
  <2>2. ReleasedGone'
      BY <1>0, <1>10, <2>1 DEF StartTurn, ReleasedGone
  <2>3. ASSUME NEW x \in Runs PROVE AnswersIn(x)'
    <3>1. AnswersIn(x)
        BY <1>1
    <3> QED
        BY <1>b, <2>1, <3>1 DEF AnswersIn, Begun, Kept, Owner
  <2> QED
      BY <2>2, <2>3
<1>11. ASSUME NEW o \in Owners, TurnSettles(o) PROVE (\A x \in Runs : AnswersIn(x)') /\ ReleasedGone'
  <2>1. /\ UNCHANGED <<stage, keyOfRun, holding, preserve, unavailable, lost, retiring>>
        /\ source[o] = "active" /\ instructed \in SUBSET instructed'
        /\ \A p \in Owners : p # o => source'[p] = source[p]
      BY <1>0, <1>11 DEF TurnSettles
  <2> QED
    <3>1. ReleasedGone'
        BY <1>0, <2>1 DEF ReleasedGone
    <3>2. ASSUME NEW x \in Runs PROVE AnswersIn(x)'
      <4>1. AnswersIn(x)
          BY <1>1
      <4>2. source[o] \notin {"none", "error"}
          BY <2>1
      <4> QED
          BY <1>b, <2>1, <4>1, <4>2 DEF AnswersIn, Begun, Kept, Owner
    <3> QED
        BY <3>1, <3>2
<1>12. ASSUME NEW o \in Owners, TurnReleased(o) PROVE (\A x \in Runs : AnswersIn(x)') /\ ReleasedGone'
    BY <1>a, <1>12 DEF TurnReleased, ReleasedGone
<1>13. ASSUME NEW o \in Owners, TurnDropped(o) PROVE (\A x \in Runs : AnswersIn(x)') /\ ReleasedGone'
  <2>1. /\ UNCHANGED <<stage, keyOfRun, holding, preserve, unavailable, lost>>
        /\ source'[o] = "none" /\ instructed' = instructed \ {o} /\ retiring' \in SUBSET (retiring \cup {o})
        /\ \A p \in Owners : p # o => source'[p] = source[p]
      BY <1>0, <1>13 DEF TurnDropped, runVars
  <2>2. ReleasedGone'
      BY <1>0, <2>1 DEF ReleasedGone
  <2>3. ASSUME NEW x \in Runs PROVE AnswersIn(x)'
    <3>1. AnswersIn(x)
        BY <1>1
    <3> QED
        BY <1>b, <2>1, <3>1 DEF AnswersIn, Begun, Kept, Owner
  <2> QED
      BY <2>2, <2>3
<1> QED
    BY <1>3, <1>4, <1>5, <1>6, <1>7, <1>8, <1>9, <1>10, <1>11, <1>12, <1>13 DEF RunnerNext

(* What every step keeps, together                                               *)

(* Nothing is going in the beginning.                                            *)
LEMMA GateSoundInit == RunnerInit => GateSound
<1> SUFFICES ASSUME RunnerInit PROVE GateSound
    OBVIOUS
<1> USE DEF RunnerInit
<1>1. RunnerTypeOK
    BY DEF RunnerTypeOK, Stages
<1>2. \A r \in Runs : stage[r] = "none" /\ fallback[r] = "none"
    OBVIOUS
<1>3. Chain
  <2>1. \A r \in Runs : ~Active(r)
      BY DEF Active
  <2> QED
      BY <2>1 DEF Chain, OneAhead, NoneShared, GatesOfThread, LastNamed, Rooted
<1>4. BusyAhead
    BY <1>2 DEF BusyAhead, Busy, Acting, Active
<1>5. Budgeted
    BY <1>2 DEF Budgeted, Begun, Active, Going
<1>6. InterruptedRunsStop /\ AnswersKept /\ ReleasedGone
    BY <1>2 DEF InterruptedRunsStop, AnswersKept, ReleasedGone
<1> QED
    BY <1>1, <1>3, <1>4, <1>5, <1>6 DEF GateSound

(* Every step keeps the invariant.                                               *)
LEMMA GateSoundStep == CompactionAssumption /\ GateSound /\ [RunnerNext]_runnerVars => GateSound'
<1> SUFFICES ASSUME CompactionAssumption, GateSound, [RunnerNext]_runnerVars PROVE GateSound'
    OBVIOUS
<1>1. RunnerTypeOK /\ Chain /\ BusyAhead /\ Budgeted /\ InterruptedRunsStop /\ AnswersKept /\ ReleasedGone
      /\ NoRun \notin Runs
    BY DEF GateSound, CompactionAssumption
<1>2. RunnerTypeOK'
    BY <1>1, TypeStep
<1>3. Chain'
    BY <1>1, ChainStep
<1>4. BusyAhead'
    BY <1>1, <1>2, BusyStep
<1>5. Budgeted' /\ InterruptedRunsStop'
    BY <1>1, BudgetedStep, InterruptedStep
<1>6. AnswersKept' /\ ReleasedGone'
    BY <1>1, <1>2, AnswersStep
<1> QED
    BY <1>2, <1>3, <1>4, <1>5, <1>6 DEF GateSound

(* The invariant says what the run checks.                                       *)
LEMMA GateSoundHolds == GateSound => GatesHold
<1> SUFFICES ASSUME GateSound PROVE GatesHold
    OBVIOUS
<1>1. OneRunActs
  <2> SUFFICES ASSUME NEW r \in Runs, NEW s \in Runs, Busy(r), Busy(s), Owner(r) = Owner(s)
               PROVE  r = s
      BY DEF OneRunActs, Busy
  <2>1. Active(r) /\ Ahead(r) /\ Active(s) /\ Ahead(s)
      BY DEF GateSound, BusyAhead
  <2> QED
      BY <2>1 DEF GateSound, Chain, OneAhead
<1>2. AtMostOneRetry
    BY BudgetedBounds DEF GateSound
<1>3. FinalResponseSurvives
    BY DEF GateSound, AnswersKept, FinalResponseSurvives
<1> QED
    BY <1>1, <1>2, <1>3 DEF GateSound, GatesHold

(* For any number of keys, threads and runs: one run of a thread acts at a time, *)
(* whichever were cancelled while they waited; a key is tried again once; a run  *)
(* of an interrupted turn is cancelled; and no compaction that succeeds has      *)
(* thrown away an ordinary final response (runStructuredCompactionOnce and the   *)
(* compaction branch of runTurn).                                                *)
THEOREM OneCompactionActs ==
    ASSUME CompactionAssumption
    PROVE  RunnerSpec => []GatesHold
<1>1. RunnerInit => GateSound
    BY GateSoundInit
<1>2. GateSound /\ [RunnerNext]_runnerVars => GateSound'
    BY GateSoundStep
<1>3. GateSound => GatesHold
    BY GateSoundHolds
<1> QED
    BY <1>1, <1>2, <1>3, PTL DEF RunnerSpec

--------------------------------------------------------------------------------
(* The store of compaction transactions *)

(* What is in the store: a stored summary is the accepted one, has no deadline  *)
(* and nobody waits for it; only a transaction in the store is untouched.       *)
StoreOK ==
    \A t \in Tokens :
        /\ t \in open => accepted[t] = stored[t]
        /\ t \in open /\ stored[t] # None => t \notin timer /\ waiter[t] = None
        /\ t \in open /\ stored[t] = None => t \in timer
        /\ t \notin begun => accepted[t] = None /\ stored[t] = None
        /\ t \notin open => waiter[t] = None

(* Waiters and pending waits are the same, and a wait that was answered was     *)
(* answered with what its transaction had accepted.                             *)
WaitsOK ==
    /\ \A t \in Tokens : waiter[t] # None => outcome[waiter[t]] = "waiting" /\ tokenOf[waiter[t]] = t
    /\ \A w \in Waits :
        /\ outcome[w] = "waiting" => tokenOf[w] \in Tokens /\ waiter[tokenOf[w]] = w
        /\ outcome[w] \in Submissions => tokenOf[w] \in begun \ open
        /\ outcome[w] = "unused" => tokenOf[w] = None

StoreInv == TypeOK /\ StoreOK /\ WaitsOK

LEMMA StoreInvInit == Init => StoreInv
BY NoneAssumption, StateAssumption
   DEF Init, StoreInv, TypeOK, StoreOK, WaitsOK, WaitStates

(* What finishError() does to the invariant, whichever transactions it ends. *)
LEMMA FinishErrorKeeps ==
    ASSUME StoreInv, NEW S \in SUBSET open, FinishError(S),
           UNCHANGED <<begun, stored, accepted, tokenOf>>,
           disowned' \in SUBSET begun
    PROVE  StoreInv'
<1> USE NoneAssumption, StateAssumption DEF WaitStates
<1>1. TypeOK'
    BY DEF StoreInv, TypeOK, FinishError, Rejecting
<1>2. StoreOK'
    BY DEF StoreInv, TypeOK, StoreOK, FinishError
<1>3. WaitsOK'
  <2>1. ASSUME NEW t \in Tokens, waiter'[t] # None
        PROVE  outcome'[waiter'[t]] = "waiting" /\ tokenOf'[waiter'[t]] = t
    <3>1. waiter'[t] = waiter[t] /\ t \notin S /\ waiter[t] \in Waits
        BY <2>1 DEF StoreInv, TypeOK, FinishError
    <3>2. outcome[waiter[t]] = "waiting" /\ tokenOf[waiter[t]] = t
        BY <2>1, <3>1 DEF StoreInv, WaitsOK
    <3>3. ~\E u \in S : waiter[u] = waiter[t]
        BY <3>1, <3>2 DEF StoreInv, TypeOK, WaitsOK
    <3> QED BY <3>1, <3>2, <3>3 DEF FinishError, Rejecting
  <2>2. ASSUME NEW w \in Waits, outcome'[w] = "waiting"
        PROVE  tokenOf'[w] \in Tokens /\ waiter'[tokenOf'[w]] = w
    BY <2>2 DEF StoreInv, TypeOK, WaitsOK, FinishError, Rejecting
  <2>3. ASSUME NEW w \in Waits, outcome'[w] \in Submissions
        PROVE  tokenOf'[w] \in begun' \ open'
    BY <2>3 DEF StoreInv, TypeOK, WaitsOK, FinishError, Rejecting
  <2>4. ASSUME NEW w \in Waits, outcome'[w] = "unused"
        PROVE  tokenOf'[w] = None
    BY <2>4 DEF StoreInv, TypeOK, WaitsOK, FinishError, Rejecting
  <2> QED BY <2>1, <2>2, <2>3, <2>4 DEF WaitsOK
<1> QED BY <1>1, <1>2, <1>3 DEF StoreInv

LEMMA StoreInvStep == StoreInv /\ [Next]_vars => StoreInv'
<1> SUFFICES ASSUME StoreInv, [Next]_vars PROVE StoreInv'
    OBVIOUS
<1> USE NoneAssumption, StateAssumption DEF WaitStates
<1>1. ASSUME NEW t \in Tokens, Begin(t) PROVE StoreInv'
    BY <1>1 DEF Begin, StoreInv, TypeOK, StoreOK, WaitsOK
<1>2. ASSUME NEW t \in Tokens, NEW s \in Submissions, Submit(s, t) PROVE StoreInv'
  <2>1. CASE waiter[t] = None
      BY <1>2, <2>1 DEF Submit, Untimed, StoreInv, TypeOK, StoreOK, WaitsOK
  <2>2. CASE waiter[t] # None
    <3>1. TypeOK'
        BY <1>2, <2>2 DEF Submit, Untimed, StoreInv, TypeOK, StoreOK
    <3>2. StoreOK'
        BY <1>2, <2>2 DEF Submit, Untimed, StoreInv, TypeOK, StoreOK
    <3>3. WaitsOK'
        BY <1>2, <2>2 DEF Submit, Untimed, StoreInv, TypeOK, WaitsOK
    <3> QED BY <3>1, <3>2, <3>3 DEF StoreInv
  <2> QED BY <2>1, <2>2
<1>3. ASSUME NEW t \in Tokens, NEW w \in Waits,
             WaitRefused(w, t) \/ WaitConsumes(w, t) \/ WaitAborted(w, t) \/ WaitBegins(w, t)
      PROVE  StoreInv'
  <2>0. \A u \in Tokens : waiter[u] # w
      BY <1>3 DEF WaitRefused, WaitConsumes, WaitAborted, WaitBegins, StoreInv, TypeOK, WaitsOK
  <2>1. CASE WaitRefused(w, t)
      BY <2>0, <2>1 DEF WaitRefused, StoreInv, TypeOK, StoreOK, WaitsOK
  <2>2. CASE WaitConsumes(w, t)
      BY <2>0, <2>2 DEF WaitConsumes, Unawaited, StoreInv, TypeOK, StoreOK, WaitsOK
  <2>3. CASE WaitAborted(w, t)
      BY <2>0, <2>3 DEF WaitAborted, Unawaited, StoreInv, TypeOK, StoreOK, WaitsOK
  <2>4. CASE WaitBegins(w, t)
      BY <2>0, <2>4 DEF WaitBegins, Unawaited, StoreInv, TypeOK, StoreOK, WaitsOK
  <2> QED BY <1>3, <2>1, <2>2, <2>3, <2>4
<1>4. ASSUME NEW t \in Tokens, SignalAborts(t) \/ TimerFires(t) \/ Abort(t) PROVE StoreInv'
    BY <1>4, FinishErrorKeeps DEF SignalAborts, TimerFires, Abort, StoreInv, TypeOK
<1>5. ASSUME NEW tr \in Traces, AbortTrace(tr) PROVE StoreInv'
    BY <1>5, FinishErrorKeeps DEF AbortTrace, Revocable, StoreInv, TypeOK
<1>6. CASE Close
    BY <1>6, FinishErrorKeeps DEF Close, StoreInv, TypeOK
<1>7. CASE UNCHANGED vars
    BY <1>7 DEF vars, StoreInv, TypeOK, StoreOK, WaitsOK
<1> QED BY <1>1, <1>2, <1>3, <1>4, <1>5, <1>6, <1>7 DEF Next

LEMMA StoreInvHolds == Spec => []StoreInv
<1> QED BY StoreInvInit, StoreInvStep, PTL DEF Spec

(* However a transaction ends, the wait for it is told. *)
THEOREM WaitsAreHeard == Spec => []NoWaitIsStranded
<1>1. StoreInv => NoWaitIsStranded
    BY NoneAssumption DEF StoreInv, TypeOK, StoreOK, WaitsOK, NoWaitIsStranded
<1> QED BY <1>1, StoreInvHolds, PTL

(* A timer is never armed for a transaction that has left the store. *)
THEOREM TransactionsAreTyped == Spec => []TypeOK
<1>1. StoreInv => TypeOK
    BY DEF StoreInv
<1> QED BY <1>1, StoreInvHolds, PTL

--------------------------------------------------------------------------------
(* The refinement *)

CellMap == [t \in Tokens |-> Cell(t)]
ReadMap == [w \in Waits |-> IF outcome[w] \in Submissions THEN outcome[w] ELSE None]

(* A transaction that ends untaken is gone, and the cells of the others stay.   *)
LEMMA FinishErrorRefines ==
    ASSUME StoreInv, NEW S \in SUBSET open, FinishError(S),
           UNCHANGED <<begun, stored, accepted, tokenOf>>
    PROVE  /\ CellMap' = [t \in Tokens |-> IF t \in S THEN "gone" ELSE CellMap[t]]
           /\ ReadMap' = ReadMap
<1> USE NoneAssumption, StateAssumption DEF WaitStates
<1>1. \A w \in Waits : outcome'[w] = outcome[w]
                        \/ (outcome[w] = "waiting" /\ outcome'[w] = "rejected")
    BY DEF StoreInv, TypeOK, WaitsOK, FinishError, Rejecting
<1>2. \A w \in Waits : (outcome'[w] \in Submissions <=> outcome[w] \in Submissions)
                        /\ (outcome[w] \in Submissions => outcome'[w] = outcome[w])
    BY <1>1
<1>3. ReadMap' = ReadMap
    BY <1>2 DEF ReadMap
<1>4. ASSUME NEW t \in Tokens PROVE Cell(t)' = IF t \in S THEN "gone" ELSE Cell(t)
  <2>1. CASE t \in S
    <3>1. t \in open /\ t \in begun /\ t \notin open'
        BY <2>1 DEF StoreInv, TypeOK, FinishError
    <3>2. ~\E w \in Waits : tokenOf'[w] = t /\ outcome'[w] \in Submissions
        BY <3>1, <1>2 DEF StoreInv, WaitsOK
    <3> QED BY <2>1, <3>1, <3>2 DEF Cell
  <2>2. CASE t \notin S
    <3>1. t \in open' <=> t \in open
        BY <2>2 DEF FinishError
    <3>2. (\E w \in Waits : tokenOf'[w] = t /\ outcome'[w] \in Submissions)
          <=> (\E w \in Waits : tokenOf[w] = t /\ outcome[w] \in Submissions)
        BY <1>2
    <3> QED BY <2>2, <3>1, <3>2 DEF Cell
  <2> QED BY <2>1, <2>2
<1> QED BY <1>3, <1>4 DEF CellMap

LEMMA StoreRefinesInit == Init => Abstract!Init
BY StateAssumption DEF Init, Abstract!Init, Cell, WaitStates

LEMMA StoreRefinesStep ==
    ASSUME StoreInv, StoreInv', [Next]_vars
    PROVE  [Abstract!Next]_<<CellMap, accepted, ReadMap, disowned>>
<1> USE NoneAssumption, StateAssumption DEF WaitStates
<1>0. \A t \in open : t \in Tokens /\ t \in begun /\ CellMap[t] = IF stored[t] = None THEN "empty" ELSE "full"
    BY DEF StoreInv, TypeOK, CellMap, Cell
<1>1. ASSUME NEW t \in Tokens, Begin(t) PROVE Abstract!Begin(t)
  <2>1. CellMap' = [CellMap EXCEPT ![t] = "empty"]
      BY <1>1 DEF Begin, CellMap, Cell, StoreInv, TypeOK, StoreOK
  <2>2. CellMap[t] = "new" /\ ReadMap' = ReadMap
      BY <1>1 DEF Begin, CellMap, Cell, ReadMap
  <2> QED BY <1>1, <2>1, <2>2 DEF Begin, Abstract!Begin, CellMap, ReadMap
<1>2. ASSUME NEW t \in Tokens, NEW s \in Submissions, Submit(s, t), waiter[t] = None
      PROVE  Abstract!Put(t, s)
  <2>1. CellMap' = [CellMap EXCEPT ![t] = "full"]
    <3>1. Cell(t)' = "full"
        BY <1>2 DEF Submit, Cell, StoreInv, TypeOK
    <3>2. ASSUME NEW u \in Tokens, u # t PROVE Cell(u)' = Cell(u)
        BY <1>2, <3>2 DEF Submit, Cell, StoreInv, TypeOK
    <3> QED BY <3>1, <3>2 DEF CellMap
  <2>2. CellMap[t] = "empty" /\ ReadMap' = ReadMap
      BY <1>2, <1>0 DEF Submit, ReadMap
  <2> QED BY <1>2, <2>1, <2>2 DEF Submit, Abstract!Put, CellMap, ReadMap
<1>3. ASSUME NEW t \in Tokens, NEW s \in Submissions, NEW w \in Waits,
             Submit(s, t), waiter[t] = w
      PROVE  Abstract!PutTo(t, s, w)
  <2>1. w # None /\ outcome[w] = "waiting" /\ tokenOf[w] = t
      BY <1>3 DEF StoreInv, WaitsOK
  <2>2. CellMap' = [CellMap EXCEPT ![t] = "taken"]
    <3>1. Cell(t)' = "taken"
        BY <1>3, <2>1 DEF Submit, Cell, StoreInv, TypeOK
    <3>2. ASSUME NEW u \in Tokens, u # t PROVE Cell(u)' = Cell(u)
        BY <1>3, <2>1, <3>2 DEF Submit, Cell, StoreInv, TypeOK
    <3> QED BY <3>1, <3>2 DEF CellMap
  <2>3. CellMap[t] = "empty" /\ ReadMap[w] = None
      BY <1>3, <1>0, <2>1 DEF Submit, ReadMap
  <2>4. ReadMap' = [ReadMap EXCEPT ![w] = s]
      BY <1>3, <2>1 DEF Submit, ReadMap, StoreInv, TypeOK
  <2> QED BY <1>3, <2>2, <2>3, <2>4 DEF Submit, Abstract!PutTo, CellMap, ReadMap
<1>4. ASSUME NEW t \in Tokens, NEW w \in Waits, WaitConsumes(w, t)
      PROVE  Abstract!Take(t, w)
  <2>1. CellMap' = [CellMap EXCEPT ![t] = "taken"]
    <3>1. Cell(t)' = "taken"
        BY <1>4 DEF WaitConsumes, Cell, StoreInv, TypeOK
    <3>2. ASSUME NEW u \in Tokens, u # t PROVE Cell(u)' = Cell(u)
        BY <1>4, <3>2 DEF WaitConsumes, Cell, StoreInv, TypeOK, WaitsOK
    <3> QED BY <3>1, <3>2 DEF CellMap
  <2>2. CellMap[t] = "full" /\ ReadMap[w] = None
      BY <1>4, <1>0 DEF WaitConsumes, ReadMap
  <2>3. ReadMap' = [ReadMap EXCEPT ![w] = accepted[t]]
      BY <1>4 DEF WaitConsumes, ReadMap, StoreInv, TypeOK, StoreOK
  <2> QED BY <1>4, <2>1, <2>2, <2>3 DEF WaitConsumes, Abstract!Take, CellMap, ReadMap
<1>5. ASSUME NEW t \in Tokens, NEW w \in Waits, WaitRefused(w, t) \/ WaitBegins(w, t)
      PROVE  UNCHANGED <<CellMap, accepted, ReadMap, disowned>>
    BY <1>5 DEF WaitRefused, WaitBegins, CellMap, Cell, ReadMap, StoreInv, TypeOK, WaitsOK
<1>6. ASSUME NEW t \in Tokens, NEW w \in Waits, WaitAborted(w, t)
      PROVE  Abstract!End({t}, {})
  <2>1. CellMap' = [u \in Tokens |-> IF u \in {t} THEN "gone" ELSE CellMap[u]]
      BY <1>6 DEF WaitAborted, CellMap, Cell, StoreInv, TypeOK, WaitsOK
  <2>2. CellMap[t] = "empty" /\ ReadMap' = ReadMap
      BY <1>6, <1>0 DEF WaitAborted, ReadMap, StoreInv, TypeOK
  <2> QED BY <1>6, <2>1, <2>2 DEF WaitAborted, Abstract!End, CellMap, ReadMap
<1>7. ASSUME NEW S \in SUBSET open, NEW D \in SUBSET S, FinishError(S),
             UNCHANGED <<begun, stored, accepted, tokenOf>>, disowned' = disowned \cup D,
             \A t \in S : stored[t] = None \/ t \in D
      PROVE  Abstract!End(S, D)
  <2>1. /\ CellMap' = [t \in Tokens |-> IF t \in S THEN "gone" ELSE CellMap[t]]
        /\ ReadMap' = ReadMap
      BY <1>7, FinishErrorRefines
  <2>2. \A t \in S : CellMap[t] = "empty" \/ (CellMap[t] = "full" /\ t \in D)
      BY <1>0, <1>7
  <2> QED BY <1>7, <2>1, <2>2 DEF Abstract!End, CellMap, ReadMap
<1>8. ASSUME NEW t \in Tokens, SignalAborts(t) \/ TimerFires(t)
      PROVE  Abstract!End({t}, {})
  <2>1. t \in open /\ stored[t] = None
      BY <1>8 DEF SignalAborts, TimerFires, StoreInv, StoreOK
  <2> QED BY <1>7, <1>8, <2>1 DEF SignalAborts, TimerFires
<1>9. ASSUME NEW t \in Tokens, Abort(t) PROVE Abstract!End({t}, {t})
    BY <1>7, <1>9 DEF Abort
<1>10. ASSUME NEW tr \in Traces, AbortTrace(tr) PROVE Abstract!End(Revocable(tr), {})
    BY <1>7, <1>10 DEF AbortTrace, Revocable
<1>11. CASE Close
  <2>1. Abstract!End(open, open)
      BY <1>7, <1>11 DEF Close
  <2> QED BY <2>1 DEF Abstract!Next, StoreInv, TypeOK
<1>12. CASE UNCHANGED vars
    BY <1>12 DEF vars, CellMap, Cell, ReadMap
<1>13. \A tr \in Traces : Revocable(tr) \in SUBSET Tokens
    BY DEF Revocable, StoreInv, TypeOK
<1>14. ASSUME NEW t \in Tokens,
              \/ Begin(t) \/ SignalAborts(t) \/ TimerFires(t) \/ Abort(t)
              \/ \E s \in Submissions : Submit(s, t)
              \/ \E w \in Waits : \/ WaitRefused(w, t) \/ WaitConsumes(w, t)
                                  \/ WaitAborted(w, t) \/ WaitBegins(w, t)
       PROVE  Abstract!Next \/ UNCHANGED <<CellMap, accepted, ReadMap, disowned>>
  <2>1. CASE Begin(t)
      BY <1>1, <2>1 DEF Abstract!Next
  <2>2. CASE SignalAborts(t) \/ TimerFires(t)
      BY <1>8, <2>2 DEF Abstract!Next
  <2>3. CASE Abort(t)
      BY <1>9, <2>3 DEF Abstract!Next
  <2>4. ASSUME NEW s \in Submissions, Submit(s, t) PROVE Abstract!Next
    <3>1. CASE waiter[t] = None
        BY <1>2, <2>4, <3>1 DEF Abstract!Next
    <3>2. CASE waiter[t] # None
      <4>1. PICK w \in Waits : waiter[t] = w
          BY <3>2 DEF StoreInv, TypeOK
      <4>2. Abstract!PutTo(t, s, w)
          BY <1>3, <2>4, <4>1
      <4> QED BY <4>2 DEF Abstract!Next
    <3> QED BY <3>1, <3>2
  <2>5. ASSUME NEW w \in Waits, WaitConsumes(w, t) PROVE Abstract!Next
      BY <1>4, <2>5 DEF Abstract!Next
  <2>6. ASSUME NEW w \in Waits, WaitAborted(w, t) PROVE Abstract!Next
      BY <1>6, <2>6 DEF Abstract!Next
  <2>7. ASSUME NEW w \in Waits, WaitRefused(w, t) \/ WaitBegins(w, t)
        PROVE  UNCHANGED <<CellMap, accepted, ReadMap, disowned>>
      BY <1>5, <2>7
  <2> QED BY <1>14, <2>1, <2>2, <2>3, <2>4, <2>5, <2>6, <2>7
<1>15. ASSUME NEW tr \in Traces, AbortTrace(tr) PROVE Abstract!Next
    BY <1>10, <1>13, <1>15 DEF Abstract!Next
<1> QED BY <1>11, <1>12, <1>14, <1>15 DEF Next

(* The store implements the one-shot promise, for any number of transactions:   *)
(* an accepted checkpoint is read once, by one wait, or disowned.               *)
THEOREM StoreIsOneShot == Spec => OneShotKept
<1>1. StoreInv /\ StoreInv' /\ [Next]_vars => [Abstract!Next]_<<CellMap, accepted, ReadMap, disowned>>
    BY StoreRefinesStep
<1>2. StoreInv /\ StoreInv' /\ [Next]_vars
      => [Abstract!Next]_<<[t \in Tokens |-> Cell(t)], accepted,
            [w \in Waits |-> IF outcome[w] \in Submissions THEN outcome[w] ELSE None], disowned>>
    BY <1>1 DEF CellMap, ReadMap
<1> QED BY <1>2, StoreRefinesInit, StoreInvHolds, PTL DEF Spec, OneShotKept, Abstract!Spec
--------------------------------------------------------------------------------
(* The environments of threads *)

(* What relates an entry of the store to its thread: it says what the thread's   *)
(* last resolved request ran with, unless a write of it failed; and only a turn   *)
(* has run, whose authority Codex knows.                                          *)
LastRun(t) == IF ran[t].inTurn THEN ran[t].now ELSE ran[t].before
SaysLastRun(s) ==
    \A i \in DOMAIN s : s[i].thread \notin torn => s[i].authority = LastRun(s[i].thread)
EntriesAgree == SaysLastRun(kept) /\ SaysLastRun(file)
OnlyInTurn   ==
    \A t \in Threads : /\ ran[t].inTurn => InTurn(t)
                       /\ InTurn(t) => codex[t].authority \in Authorities

(* A sequence of entries that has one of a thread, the oldest first.              *)
InOrder(s) ==
    \A i, j \in DOMAIN s : i < j =>
        /\ s[i].thread # s[j].thread
        /\ s[j].age = "month" => s[i].age = "month"
        /\ s[i].age = "minute" => s[j].age = "minute"
IsStore(s)  == s \in Seq(Entries) /\ Len(s) <= MaxKept /\ InOrder(s)
StoresSound == IsStore(kept) /\ IsStore(file)

(* The rest of the types.                                                         *)
TurnsTyped ==
    /\ codex \in [Threads -> [authority : KnownAuthorities, changed : BOOLEAN]]
    /\ ran \in [Threads -> [now : KnownAuthorities, before : KnownAuthorities, inTurn : BOOLEAN]]
BoundsTyped ==
    /\ loaded \in BOOLEAN /\ checkpoints \subseteq Threads /\ torn \subseteq Threads
    /\ changes \in 0..MaxChanges /\ pauses \in 0..MaxPauses /\ mishapsLeft \in 0..MaxMishaps

(* The inductive invariant.                                                       *)
EnvironmentSound ==
    TurnsTyped /\ BoundsTyped /\ StoresSound /\ EntriesAgree /\ OnlyInTurn /\ RunsAsAttested

LEMMA EnvironmentSoundHolds == EnvironmentSound => EnvironmentsHold
BY DEF EnvironmentSound, EnvironmentsHold, EnvironmentTypeOK, TurnsTyped, BoundsTyped, StoresSound,
       IsStore, OldestFirst, InOrder

--------------------------------------------------------------------------------
(* What a sequence of entries keeps when entries are taken out of it.             *)
Selects(r, s) ==
    /\ r \in Seq(Entries) /\ Len(r) <= Len(s)
    /\ \A i \in DOMAIN r : \E k \in DOMAIN s : r[i] = s[k]
    /\ InOrder(s) => InOrder(r)

LEMMA SelectsItself == ASSUME NEW s \in Seq(Entries) PROVE Selects(s, s)
BY DEF Selects

LEMMA SelectsSome ==
    ASSUME NEW s, NEW r, NEW q, Selects(r, s), Selects(q, r), s \in Seq(Entries)
    PROVE  Selects(q, s)
BY DEF Selects

LEMMA SelectsStore ==
    ASSUME NEW s, NEW r, Selects(r, s), IsStore(s), MaxKept \in Nat
    PROVE  IsStore(r)
BY DEF Selects, IsStore

(* An end of the sequence, and the sequence without one place.                    *)
LEMMA SelectsEnd ==
    ASSUME NEW s \in Seq(Entries), NEW n \in 0..Len(s)
    PROVE  Selects(SubSeq(s, n + 1, Len(s)), s)
<1> DEFINE r == SubSeq(s, n + 1, Len(s))
<1>1. r \in Seq(Entries) /\ Len(r) = Len(s) - n /\ \A i \in 1..Len(r) : r[i] = s[i + n]
    OBVIOUS
<1>2. n \in Nat /\ n <= Len(s) /\ Len(s) \in Nat /\ DOMAIN s = 1..Len(s)
    OBVIOUS
<1> HIDE DEF r
<1>3. DOMAIN r = 1..Len(r)
    BY <1>1
<1>4. \A i \in DOMAIN r : i \in Nat /\ i + n \in DOMAIN s /\ r[i] = s[i + n]
    BY <1>1, <1>2, <1>3
<1>5. ASSUME InOrder(s), NEW i \in DOMAIN r, NEW j \in DOMAIN r, i < j
      PROVE  /\ r[i].thread # r[j].thread
             /\ r[j].age = "month" => r[i].age = "month"
             /\ r[i].age = "minute" => r[j].age = "minute"
  <2>1. i + n < j + n /\ i + n \in DOMAIN s /\ j + n \in DOMAIN s
      BY <1>2, <1>4, <1>5
  <2> QED
      BY <1>4, <1>5, <2>1 DEF InOrder
<1>6. InOrder(s) => InOrder(r)
    BY <1>5 DEF InOrder
<1>7. Selects(r, s)
    BY <1>1, <1>2, <1>4, <1>6 DEF Selects
<1> QED
    BY <1>7 DEF r

LEMMA SelectsOthers ==
    ASSUME NEW s \in Seq(Entries), NEW p \in DOMAIN s
    PROVE  /\ Selects(RemoveAt(s, p), s)
           /\ \A i \in DOMAIN RemoveAt(s, p) : \E k \in DOMAIN s \ {p} : RemoveAt(s, p)[i] = s[k]
           /\ Len(RemoveAt(s, p)) = Len(s) - 1
<1> DEFINE a == SubSeq(s, 1, p - 1)
           b == SubSeq(s, p + 1, Len(s))
           r == RemoveAt(s, p)
           f(i) == IF i < p THEN i ELSE i + 1
<1>1. p \in Nat /\ 1 <= p /\ p <= Len(s) /\ Len(s) \in Nat /\ DOMAIN s = 1..Len(s)
    OBVIOUS
<1>2. a \in Seq(Entries) /\ Len(a) = p - 1 /\ \A i \in 1..(p - 1) : a[i] = s[i]
    BY <1>1
<1>3. b \in Seq(Entries) /\ Len(b) = Len(s) - p /\ \A i \in 1..(Len(s) - p) : b[i] = s[i + p]
    BY <1>1
<1>4. r = a \o b
    BY DEF RemoveAt
<1> HIDE DEF a, b, r
<1>5. r \in Seq(Entries) /\ Len(r) = Len(s) - 1 /\ DOMAIN r = 1..(Len(s) - 1)
  <2>0. a \in Seq(Entries) /\ b \in Seq(Entries)
      BY <1>2, <1>3
  <2>1. a \o b \in Seq(Entries) /\ Len(a \o b) = Len(a) + Len(b)
      BY <2>0
  <2>2. Len(r) = Len(s) - 1
    <3>1. Len(r) = Len(a) + Len(b)
        BY <2>1, <1>4
    <3>2. Len(a) = p - 1 /\ Len(b) = Len(s) - p /\ p \in Nat /\ Len(s) \in Nat
        BY <1>1, <1>2, <1>3
    <3> QED
        BY <3>1, <3>2
  <2>3. DOMAIN r = 1..Len(r)
      BY <2>1, <1>4
  <2> QED
      BY <2>1, <2>2, <2>3, <1>4
<1>6. \A i \in DOMAIN r : i \in Nat /\ f(i) \in DOMAIN s /\ f(i) # p /\ r[i] = s[f(i)]
  <2> SUFFICES ASSUME NEW i \in DOMAIN r
               PROVE  i \in Nat /\ f(i) \in DOMAIN s /\ f(i) # p /\ r[i] = s[f(i)]
      OBVIOUS
  <2>0. i \in 1..(Len(s) - 1)
      BY <1>5
  <2>1. CASE i < p
    <3>1. r[i] = a[i]
        BY <2>0, <2>1, <1>1, <1>2, <1>3, <1>4
    <3> QED
        BY <2>0, <2>1, <3>1, <1>1, <1>2
  <2>2. CASE ~(i < p)
    <3>1. r[i] = b[i - (p - 1)]
        BY <2>0, <2>2, <1>1, <1>2, <1>3, <1>4
    <3>2. i - (p - 1) \in 1..(Len(s) - p) /\ (i - (p - 1)) + p = i + 1
        BY <2>0, <2>2, <1>1
    <3>3. b[i - (p - 1)] = s[i + 1]
        BY <3>2, <1>3
    <3> QED
        BY <2>0, <2>2, <3>1, <3>3, <1>1
  <2> QED
      BY <2>1, <2>2
<1>7. \A i, j \in DOMAIN r : i < j => f(i) < f(j)
    BY <1>1, <1>6
<1> HIDE DEF f
<1>8. InOrder(s) => InOrder(r)
  <2> SUFFICES ASSUME InOrder(s), NEW i \in DOMAIN r, NEW j \in DOMAIN r, i < j
               PROVE  /\ r[i].thread # r[j].thread
                      /\ r[j].age = "month" => r[i].age = "month"
                      /\ r[i].age = "minute" => r[j].age = "minute"
      BY DEF InOrder
  <2>1. f(i) < f(j) /\ f(i) \in DOMAIN s /\ f(j) \in DOMAIN s
      BY <1>6, <1>7
  <2> QED
      BY <1>6, <2>1 DEF InOrder
<1>9. Selects(r, s)
    BY <1>1, <1>5, <1>6, <1>8 DEF Selects
<1> QED
    BY <1>5, <1>6, <1>9 DEF r

--------------------------------------------------------------------------------
(* The store's operators.                                                         *)
LEMMA NotExpiredSelects ==
    ASSUME NEW s \in Seq(Entries)
    PROVE  Selects(NotExpired(s), s)
<1>1. IsFiniteSet(1..Len(s)) /\ Cardinality(1..Len(s)) = Len(s)
    <2>1. Len(s) \in Nat
        OBVIOUS
    <2> QED
        BY <2>1, FS_Interval, SMT
<1>2. Expired(s) \subseteq 1..Len(s)
    BY DEF Expired
<1>3. Cardinality(Expired(s)) \in 0..Len(s)
    BY <1>1, <1>2, FS_Subset, FS_CardinalityType
<1> QED
    BY <1>3, SelectsEnd DEF NotExpired

LEMMA PlaceIsThere ==
    ASSUME NEW s, NEW t, HasEntry(s, t)
    PROVE  Place(s, t) \in DOMAIN s /\ s[Place(s, t)].thread = t
BY DEF HasEntry, Place

LEMMA WithoutSelects ==
    ASSUME NEW s \in Seq(Entries), NEW t
    PROVE  /\ Selects(Without(s, t), s)
           /\ InOrder(s) => \A i \in DOMAIN Without(s, t) : Without(s, t)[i].thread # t
<1>1. CASE HasEntry(s, t)
  <2> DEFINE p == Place(s, t)
  <2>1. p \in DOMAIN s /\ s[p].thread = t /\ Without(s, t) = RemoveAt(s, p)
      BY <1>1, PlaceIsThere DEF Without
  <2>2. ASSUME InOrder(s), NEW k \in DOMAIN s \ {p} PROVE s[k].thread # t
      BY <2>1, <2>2 DEF InOrder
  <2> QED
      BY <2>1, <2>2, SelectsOthers
<1>2. CASE ~HasEntry(s, t)
    BY <1>2, SelectsItself DEF Without, HasEntry
<1> QED
    BY <1>1, <1>2

LEMMA LookedSelects ==
    ASSUME NEW s \in Seq(Entries), NEW t
    PROVE  Selects(Looked(s, t), s)
BY WithoutSelects, SelectsItself DEF Looked

LEMMA LoadedSelects ==
    ASSUME StoresSound
    PROVE  Loaded \in Seq(Entries) /\ (Selects(Loaded, kept) \/ Selects(Loaded, file))
<1>1. kept \in Seq(Entries) /\ file \in Seq(Entries)
    BY DEF StoresSound, IsStore
<1> QED
    BY <1>1, NotExpiredSelects, SelectsItself DEF Loaded, Selects

LEMMA LoadedIsStore == ASSUME StoresSound, EntriesAgree PROVE IsStore(Loaded) /\ SaysLastRun(Loaded)
<1>1. MaxKept \in Nat
    BY EnvironmentAssumption
<1>2. IsStore(Loaded)
    BY <1>1, LoadedSelects, SelectsStore DEF StoresSound
<1>3. SaysLastRun(Loaded)
    BY LoadedSelects DEF Selects, EntriesAgree, SaysLastRun
<1> QED
    BY <1>2, <1>3

(* What is written has the newest entry last.                                     *)
LEMMA WithIsStore ==
    ASSUME StoresSound, EntriesAgree, NEW t \in Threads, NEW a \in Authorities
    PROVE  /\ IsStore(With(t, a))
           /\ \A i \in DOMAIN With(t, a) :
                \/ With(t, a)[i] = Entry(t, a)
                \/ With(t, a)[i].thread # t /\ \E k \in DOMAIN Loaded : With(t, a)[i] = Loaded[k]
<1> DEFINE w == Without(Loaded, t)
           all == Append(w, Entry(t, a))
<1>0. MaxKept \in Nat
    BY EnvironmentAssumption
<1>1. IsStore(Loaded) /\ Loaded \in Seq(Entries)
    BY LoadedIsStore DEF IsStore
<1>2. Selects(w, Loaded) /\ (\A i \in DOMAIN w : w[i].thread # t) /\ w \in Seq(Entries)
    BY <1>1, WithoutSelects DEF IsStore, Selects
<1>3. IsStore(w)
    BY <1>0, <1>1, <1>2, SelectsStore
<1>4. Entry(t, a) \in Entries /\ Entry(t, a).thread = t /\ Entry(t, a).age = "minute"
    BY DEF Entry, Entries, Ages
<1>5. /\ all \in Seq(Entries) /\ Len(all) = Len(w) + 1 /\ DOMAIN all = 1..(Len(w) + 1)
      /\ DOMAIN w = 1..Len(w)
      /\ all[Len(w) + 1] = Entry(t, a) /\ \A i \in DOMAIN w : all[i] = w[i]
    BY <1>2, <1>4
<1>6. InOrder(all)
    BY <1>2, <1>3, <1>4, <1>5 DEF InOrder, IsStore
<1>7. \A i \in DOMAIN all :
        \/ all[i] = Entry(t, a)
        \/ all[i].thread # t /\ \E k \in DOMAIN Loaded : all[i] = Loaded[k]
    BY <1>2, <1>5 DEF Selects
<1>8. CASE Len(all) > MaxKept
  <2>1. With(t, a) = Tail(all) /\ Tail(all) = SubSeq(all, 1 + 1, Len(all)) /\ 1 \in 0..Len(all)
      BY <1>5, <1>8 DEF With
  <2>2. Selects(With(t, a), all)
      BY <2>1, <1>5, SelectsEnd
  <2>3. Len(With(t, a)) <= MaxKept
      BY <2>1, <1>0, <1>3, <1>5, <1>2 DEF IsStore
  <2> QED
      BY <2>2, <2>3, <1>6, <1>7 DEF Selects, IsStore
<1>9. CASE ~(Len(all) > MaxKept)
    BY <1>9, <1>0, <1>5, <1>6, <1>7 DEF With, IsStore
<1> QED
    BY <1>8, <1>9

--------------------------------------------------------------------------------
(* Each kind of step keeps the invariant.  One that leaves the entries and what   *)
(* has run alone,                                                                 *)
LEMMA EntriesStay ==
    ASSUME StoresSound, EntriesAgree, UNCHANGED <<kept, file, torn, ran>>
    PROVE  StoresSound' /\ EntriesAgree'
BY DEF StoresSound, IsStore, InOrder, EntriesAgree, SaysLastRun, LastRun

LEMMA EntryTyped ==
    ASSUME NEW s \in Seq(Entries), NEW i \in DOMAIN s
    PROVE  /\ s[i] \in Entries /\ s[i].thread \in Threads /\ s[i].authority \in Authorities
           /\ s[i].age \in Ages
<1>1. s[i] \in Entries
    OBVIOUS
<1> QED
    BY <1>1 DEF Entries

LEMMA SpawnedSound ==
    ASSUME EnvironmentSound, NEW t \in Threads, NEW a \in Authorities, Spawned(t, a)
    PROVE  EnvironmentSound'
<1>1. StoresSound' /\ EntriesAgree' /\ BoundsTyped'
    BY EntriesStay DEF Spawned, EnvironmentSound, BoundsTyped
<1>2. codex' = [codex EXCEPT ![t] = [authority |-> a, changed |-> ~IsChild(t)]] /\ ran' = ran
    BY DEF Spawned
<1>3. TurnsTyped'
    BY <1>2 DEF EnvironmentSound, TurnsTyped, KnownAuthorities, IsChild
<1>4. ~ran[t].inTurn /\ \A u \in Threads \ {t} : codex'[u] = codex[u]
    BY <1>2 DEF Spawned, EnvironmentSound, OnlyInTurn, TurnsTyped
<1>5. OnlyInTurn' /\ RunsAsAttested'
  <2>1. ASSUME NEW u \in Threads, ran[u].inTurn PROVE u # t
      BY <1>4, <2>1
  <2>0. codex'[t].authority \in Authorities
      BY <1>2 DEF EnvironmentSound, TurnsTyped
  <2>2. OnlyInTurn'
      BY <1>2, <1>4, <2>0, <2>1 DEF EnvironmentSound, OnlyInTurn, InTurn
  <2>3. torn' = torn
      BY DEF Spawned
  <2>4. RunsAsAttested'
      BY <1>2, <1>4, <2>1, <2>3 DEF EnvironmentSound, RunsAsAttested
  <2> QED
      BY <2>2, <2>4
<1> QED
    BY <1>1, <1>3, <1>5 DEF EnvironmentSound

LEMMA TurnBeginsSound ==
    ASSUME EnvironmentSound, NEW t \in Threads, NEW a \in Authorities, TurnBegins(t, a)
    PROVE  EnvironmentSound'
<1>0. EnvironmentAssumption
    BY EnvironmentAssumption
<1>1. PICK changed \in BOOLEAN :
          /\ codex' = [codex EXCEPT ![t] = [authority |-> a, changed |-> changed]]
          /\ changed => changes < MaxChanges
          /\ changes' = changes + (IF changed THEN 1 ELSE 0)
    BY DEF TurnBegins
<1>2. /\ ran' \in [Threads -> [now : KnownAuthorities, before : KnownAuthorities, inTurn : BOOLEAN]]
      /\ \A u \in Threads \ {t} : ran'[u] = ran[u]
      /\ ~ran'[t].inTurn /\ ran'[t].before = IF ran[t].inTurn THEN ran[t].now ELSE ran[t].before
  <2> DEFINE Turn == [now : KnownAuthorities, before : KnownAuthorities, inTurn : BOOLEAN]
             b == IF ran[t].inTurn THEN ran[t].now ELSE ran[t].before
  <2>1. ran \in [Threads -> Turn] /\ ran[t] \in Turn
      BY DEF EnvironmentSound, TurnsTyped
  <2>2. PICK f : f = [[[ran[t] EXCEPT !.before = b] EXCEPT !.now = NoAuthority] EXCEPT !.inTurn = FALSE]
      OBVIOUS
  <2>3. f = [now |-> NoAuthority, before |-> b, inTurn |-> FALSE]
      BY <2>1, <2>2
  <2>4. b \in KnownAuthorities /\ NoAuthority \in KnownAuthorities
      BY <2>1 DEF KnownAuthorities
  <2>5. f \in Turn
      BY <2>3, <2>4
  <2>6. ran' = [ran EXCEPT ![t] = f]
      BY <2>1, <2>2 DEF TurnBegins
  <2> HIDE DEF Turn, b
  <2>7. ran' \in [Threads -> Turn] /\ ran'[t] = f /\ \A u \in Threads \ {t} : ran'[u] = ran[u]
      BY <2>1, <2>5, <2>6
  <2>8. f.inTurn = FALSE /\ f.before = b
      BY <2>3
  <2> QED
      BY <2>7, <2>8 DEF Turn, b
<1>3. checkpoints' = checkpoints \ {t} /\ UNCHANGED <<kept, loaded, file, torn, pauses, mishapsLeft>>
    BY DEF TurnBegins
<1>4. TurnsTyped'
    BY <1>1, <1>2 DEF EnvironmentSound, TurnsTyped, KnownAuthorities
<1>5. BoundsTyped'
    BY <1>0, <1>1, <1>3 DEF EnvironmentSound, BoundsTyped, EnvironmentAssumption
<1>6. \A u \in Threads : LastRun(u)' = LastRun(u)
    BY <1>2 DEF LastRun, EnvironmentSound, TurnsTyped
<1>7. StoresSound'
    BY <1>3 DEF EnvironmentSound, StoresSound, IsStore, InOrder
<1>8. EntriesAgree'
  <2>1. \A i \in DOMAIN kept : kept[i].thread \in Threads
      BY EntryTyped DEF EnvironmentSound, StoresSound, IsStore
  <2>2. \A i \in DOMAIN file : file[i].thread \in Threads
      BY EntryTyped DEF EnvironmentSound, StoresSound, IsStore
  <2> QED
      BY <1>3, <1>6, <2>1, <2>2 DEF EnvironmentSound, EntriesAgree, SaysLastRun
<1>9. ~ran'[t].inTurn /\ \A u \in Threads \ {t} : ran'[u] = ran[u] /\ codex'[u] = codex[u]
    BY <1>1, <1>2 DEF EnvironmentSound, TurnsTyped
<1>a. codex'[t].authority \in Authorities
    BY <1>1 DEF EnvironmentSound, TurnsTyped
<1>10. OnlyInTurn'
    BY <1>9, <1>a DEF EnvironmentSound, OnlyInTurn, InTurn
<1>11. RunsAsAttested'
    BY <1>3, <1>9 DEF EnvironmentSound, RunsAsAttested
<1> QED
    BY <1>4, <1>5, <1>7, <1>8, <1>10, <1>11 DEF EnvironmentSound

(* the passing of time,                                                           *)
LEMMA AgedIsStore ==
    ASSUME NEW s, IsStore(s), SaysLastRun(s), NEW lapse \in {"minute", "month"}
    PROVE  IsStore(After(lapse, s)) /\ SaysLastRun(After(lapse, s))
<1> DEFINE r == After(lapse, s)
<1>1. s \in Seq(Entries)
    BY DEF IsStore
<1>2. DOMAIN r = DOMAIN s
    BY DEF After
<1>3. \A i \in DOMAIN s :
        /\ r[i] \in Entries /\ r[i].thread = s[i].thread /\ r[i].authority = s[i].authority
        /\ r[i].age = IF lapse = "month" \/ s[i].age = "month" THEN "month" ELSE "older"
  <2> SUFFICES ASSUME NEW i \in DOMAIN s
               PROVE  /\ r[i] \in Entries /\ r[i].thread = s[i].thread /\ r[i].authority = s[i].authority
                      /\ r[i].age = IF lapse = "month" \/ s[i].age = "month" THEN "month" ELSE "older"
      OBVIOUS
  <2>1. s[i] \in Entries /\ s[i].age \in Ages
      BY <1>1, EntryTyped
  <2>2. PICK age : age = IF lapse = "month" \/ s[i].age = "month" THEN "month" ELSE "older"
      OBVIOUS
  <2>3. r[i] = [s[i] EXCEPT !.age = age]
      BY <2>2 DEF After
  <2>4. age \in Ages
      BY <2>2 DEF Ages
  <2> HIDE DEF r
  <2> QED
      BY <2>1, <2>2, <2>3, <2>4 DEF Entries
<1>4. r \in Seq(Entries) /\ Len(r) = Len(s)
  <2>1. Len(s) \in Nat /\ DOMAIN s = 1..Len(s)
      BY <1>1
  <2>2. r = [i \in 1..Len(s) |-> r[i]]
      BY <2>1, <1>2 DEF After
  <2>3. \A i \in 1..Len(s) : r[i] \in Entries
      BY <2>1, <1>3
  <2> QED
      BY <2>1, <2>2, <2>3
<1> HIDE DEF r
<1>5. InOrder(r)
    BY <1>2, <1>3 DEF IsStore, InOrder
<1>6. IsStore(r) /\ SaysLastRun(r)
    BY <1>2, <1>3, <1>4, <1>5 DEF IsStore, SaysLastRun
<1> QED
    BY <1>6 DEF r

LEMMA LapseSound ==
    ASSUME EnvironmentSound, NEW lapse \in {"minute", "month"}, Lapse(lapse)
    PROVE  EnvironmentSound'
<1>0. EnvironmentAssumption
    BY EnvironmentAssumption
<1>1. IsStore(After(lapse, kept)) /\ SaysLastRun(After(lapse, kept))
    BY AgedIsStore DEF EnvironmentSound, StoresSound, EntriesAgree
<1>2. IsStore(After(lapse, file)) /\ SaysLastRun(After(lapse, file))
    BY AgedIsStore DEF EnvironmentSound, StoresSound, EntriesAgree
<1>3. UNCHANGED <<codex, loaded, checkpoints, ran, torn, changes, mishapsLeft>>
      /\ kept' = After(lapse, kept) /\ file' = After(lapse, file)
    BY DEF Lapse
<1>4. StoresSound'
    BY <1>1, <1>2, <1>3 DEF StoresSound, IsStore, InOrder
<1>5. EntriesAgree'
    BY <1>1, <1>2, <1>3 DEF EntriesAgree, SaysLastRun, LastRun
<1>6. BoundsTyped'
    BY <1>0, <1>3 DEF EnvironmentSound, BoundsTyped, Lapse, EnvironmentAssumption
<1>7. TurnsTyped' /\ OnlyInTurn' /\ RunsAsAttested'
    BY <1>3 DEF EnvironmentSound, TurnsTyped, OnlyInTurn, InTurn, RunsAsAttested
<1> QED
    BY <1>4, <1>5, <1>6, <1>7 DEF EnvironmentSound

(* a restart, a compaction and a file that cannot be read,                        *)
LEMMA RestartSound ==
    ASSUME EnvironmentSound, Restart
    PROVE  EnvironmentSound'
<1>0. EnvironmentAssumption
    BY EnvironmentAssumption
<1>1. IsStore(<<>>) /\ <<>> \in Seq(Entries) /\ DOMAIN <<>> = {}
    BY <1>0 DEF IsStore, InOrder, EnvironmentAssumption
<1>2. UNCHANGED <<codex, file, ran, torn, changes, pauses>> /\ kept' = <<>>
    BY DEF Restart
<1>3. StoresSound'
    BY <1>1, <1>2 DEF EnvironmentSound, StoresSound, IsStore, InOrder
<1>4. EntriesAgree'
    BY <1>1, <1>2 DEF EnvironmentSound, EntriesAgree, SaysLastRun, LastRun
<1>5. BoundsTyped'
  <2>1. mishapsLeft \in 0..MaxMishaps /\ mishapsLeft > 0 /\ mishapsLeft' = mishapsLeft - 1 /\ MaxMishaps \in Nat
      BY <1>0 DEF EnvironmentSound, BoundsTyped, Restart, EnvironmentAssumption
  <2>2. mishapsLeft' \in 0..MaxMishaps
      BY <2>1
  <2> QED
      BY <1>2, <2>2 DEF EnvironmentSound, BoundsTyped, Restart
<1>6. TurnsTyped' /\ OnlyInTurn' /\ RunsAsAttested'
    BY <1>2 DEF EnvironmentSound, TurnsTyped, OnlyInTurn, InTurn, RunsAsAttested
<1> QED
    BY <1>3, <1>4, <1>5, <1>6 DEF EnvironmentSound

LEMMA StoreUntouchedSound ==
    ASSUME EnvironmentSound, CannotLoad \/ \E t \in Threads : Compacted(t)
    PROVE  EnvironmentSound'
<1>0. MaxMishaps \in Nat /\ mishapsLeft \in 0..MaxMishaps
    BY EnvironmentAssumption DEF EnvironmentSound, BoundsTyped
<1>1. UNCHANGED <<codex, kept, file, ran, torn, changes, pauses>> /\ loaded' \in BOOLEAN
      /\ checkpoints' \subseteq Threads
    BY DEF CannotLoad, Compacted, EnvironmentSound, BoundsTyped
<1>a. mishapsLeft' \in 0..MaxMishaps
    BY <1>0 DEF CannotLoad, Compacted
<1>2. StoresSound' /\ EntriesAgree'
    BY <1>1, EntriesStay DEF EnvironmentSound
<1>3. TurnsTyped' /\ BoundsTyped' /\ OnlyInTurn' /\ RunsAsAttested'
    BY <1>1, <1>a DEF EnvironmentSound, TurnsTyped, BoundsTyped, OnlyInTurn, InTurn, RunsAsAttested
<1> QED
    BY <1>2, <1>3 DEF EnvironmentSound

(* and the outcomes of a request: it writes an authority it may run with,         *)
MayRun(t, a) ==
    \/ a = codex[t].authority
    \/ /\ ~codex[t].changed
       /\ (t \notin torn /\ a = LastRun(t)) \/ (IsChild(t) /\ a.sandbox = codex[t].authority.sandbox)

LEMMA RunSound ==
    ASSUME EnvironmentSound, NEW t \in Threads, InTurn(t), NEW a \in Authorities, Same, RunsWith(t, a),
           torn' \subseteq torn, t \in torn' \/ MayRun(t, a), \A u \in Threads \ {t} : u \in torn => u \in torn'
    PROVE  TurnsTyped' /\ OnlyInTurn' /\ RunsAsAttested' /\ LastRun(t)' = a
           /\ \A u \in Threads \ {t} : LastRun(u)' = LastRun(u)
<1>0. PICK f : f = [[ran[t] EXCEPT !.now = a] EXCEPT !.inTurn = TRUE]
    OBVIOUS
<1>1. ran' = [ran EXCEPT ![t] = [now |-> a, before |-> ran[t].before, inTurn |-> TRUE]]
  <2>1. ran' = [ran EXCEPT ![t] = f]
      BY <1>0 DEF RunsWith, EnvironmentSound, TurnsTyped
  <2>2. ran[t] \in [now : KnownAuthorities, before : KnownAuthorities, inTurn : BOOLEAN]
      BY DEF EnvironmentSound, TurnsTyped
  <2>3. f = [now |-> a, before |-> ran[t].before, inTurn |-> TRUE]
      BY <1>0, <2>2
  <2> QED
      BY <2>1, <2>3
<1>2. codex' = codex
    BY DEF Same
<1>3. /\ ran'[t] = [now |-> a, before |-> ran[t].before, inTurn |-> TRUE]
      /\ \A u \in Threads \ {t} : ran'[u] = ran[u]
    BY <1>1 DEF EnvironmentSound, TurnsTyped
<1>4. TurnsTyped'
    BY <1>1, <1>2 DEF EnvironmentSound, TurnsTyped, KnownAuthorities
<1>5. OnlyInTurn'
    BY <1>2, <1>3 DEF EnvironmentSound, OnlyInTurn, InTurn
<1>6. RunsAsAttested'
  <2> SUFFICES ASSUME NEW u \in Threads, ran'[u].inTurn, u \notin torn'
               PROVE  \/ ran'[u].now = codex[u].authority
                      \/ ~codex[u].changed /\ (\/ ran'[u].now = ran'[u].before
                                               \/ IsChild(u) /\ ran'[u].now.sandbox = codex[u].authority.sandbox)
      BY <1>2 DEF RunsAsAttested
  <2>1. CASE u # t
      BY <2>1, <1>3 DEF EnvironmentSound, RunsAsAttested
  <2>2. CASE u = t
      BY <2>2, <1>3 DEF EnvironmentSound, RunsAsAttested, MayRun, LastRun
  <2> QED
      BY <2>1, <2>2
<1> QED
    BY <1>3, <1>4, <1>5, <1>6 DEF LastRun

LEMMA BoundsKept ==
    ASSUME EnvironmentSound, Same, loaded' = TRUE, torn' \subseteq Threads,
           mishapsLeft' = mishapsLeft \/ (mishapsLeft > 0 /\ mishapsLeft' = mishapsLeft - 1)
    PROVE  BoundsTyped'
<1>1. MaxMishaps \in Nat /\ mishapsLeft \in 0..MaxMishaps
    BY EnvironmentAssumption DEF EnvironmentSound, BoundsTyped
<1>2. mishapsLeft' \in 0..MaxMishaps
    BY <1>1
<1> QED
    BY <1>2 DEF EnvironmentSound, BoundsTyped, Same

LEMMA SetsSound ==
    ASSUME EnvironmentSound, NEW t \in Threads, InTurn(t), NEW a \in Authorities, Same, Sets(t, a),
           MayRun(t, a)
    PROVE  EnvironmentSound'
<1>1. torn' \subseteq torn /\ (\A u \in Threads \ {t} : u \in torn => u \in torn') /\ torn \subseteq Threads
      /\ loaded' = TRUE /\ mishapsLeft' = mishapsLeft /\ RunsWith(t, a)
    BY DEF Sets, EnvironmentSound, BoundsTyped
<1>2. /\ TurnsTyped' /\ OnlyInTurn' /\ RunsAsAttested' /\ LastRun(t)' = a
      /\ \A u \in Threads \ {t} : LastRun(u)' = LastRun(u)
    BY <1>1, RunSound
<1>3. BoundsTyped'
    BY <1>1, BoundsKept
<1>4. IsStore(Loaded) /\ SaysLastRun(Loaded) /\ Loaded \in Seq(Entries)
    BY LoadedIsStore DEF EnvironmentSound, IsStore
<1>5. CASE Unchanged(t, a) /\ kept' = Loaded /\ UNCHANGED <<file, torn>>
  <2>1. t \notin torn => LastRun(t) = a
      BY <1>4, <1>5, PlaceIsThere DEF Unchanged, SaysLastRun, Of
  <2>2. \A u \in Threads : u \notin torn => LastRun(u)' = LastRun(u)
      BY <1>2, <2>1
  <2>3. \A i \in DOMAIN Loaded : Loaded[i].thread \in Threads
      BY <1>4, EntryTyped
  <2>4. \A i \in DOMAIN file : file[i].thread \in Threads
      BY EntryTyped DEF EnvironmentSound, StoresSound, IsStore
  <2>5. SaysLastRun(kept)'
      BY <1>4, <1>5, <2>2, <2>3 DEF SaysLastRun
  <2>6. SaysLastRun(file)'
      BY <1>5, <2>2, <2>4 DEF EnvironmentSound, EntriesAgree, SaysLastRun
  <2>7. StoresSound'
      BY <1>4, <1>5 DEF EnvironmentSound, StoresSound, IsStore, InOrder
  <2> QED
      BY <1>2, <1>3, <2>5, <2>6, <2>7 DEF EnvironmentSound, EntriesAgree
<1>6. CASE kept' = With(t, a) /\ file' = kept' /\ torn' = torn \ {t}
  <2>1. /\ IsStore(With(t, a))
        /\ \A i \in DOMAIN With(t, a) :
             \/ With(t, a)[i] = Entry(t, a)
             \/ With(t, a)[i].thread # t /\ \E k \in DOMAIN Loaded : With(t, a)[i] = Loaded[k]
      BY WithIsStore DEF EnvironmentSound
  <2>2. Entry(t, a).thread = t /\ Entry(t, a).authority = a
      BY DEF Entry
  <2>3. \A k \in DOMAIN Loaded : Loaded[k].thread \in Threads
      BY <1>4, EntryTyped
  <2>a. PICK w : w = With(t, a)
      OBVIOUS
  <2>b. PICK last : last = [u \in Threads |-> LastRun(u)']
      OBVIOUS
  <2>4. \A i \in DOMAIN w : w[i].thread \notin torn \ {t}
          => w[i].thread \in Threads /\ w[i].authority = last[w[i].thread]
    <3> SUFFICES ASSUME NEW i \in DOMAIN w, w[i].thread \notin torn \ {t}
                 PROVE  w[i].thread \in Threads /\ w[i].authority = last[w[i].thread]
        OBVIOUS
    <3>1. CASE w[i] = Entry(t, a)
        BY <3>1, <2>2, <2>b, <1>2
    <3>2. ASSUME NEW k \in DOMAIN Loaded, w[i] = Loaded[k], w[i].thread # t
          PROVE  w[i].thread \in Threads /\ w[i].authority = last[w[i].thread]
      <4>1. Loaded[k].thread \in Threads \ {t} /\ Loaded[k].thread \notin torn
          BY <2>3, <3>2
      <4>2. Loaded[k].authority = LastRun(Loaded[k].thread)
          BY <1>4, <4>1 DEF SaysLastRun
      <4>3. \A u \in Threads \ {t} : last[u] = LastRun(u)
          BY <1>2, <2>b
      <4> QED
          BY <3>2, <4>1, <4>2, <4>3
    <3> QED
        BY <2>1, <2>a, <3>1, <3>2
  <2>c. \A u \in Threads : last[u] = LastRun(u)'
      BY <2>b
  <2>d. SaysLastRun(kept)'
      BY <1>6, <2>4, <2>a, <2>c DEF SaysLastRun
  <2>5. SaysLastRun(file)'
      BY <1>6, <2>d DEF SaysLastRun
  <2>6. StoresSound'
      BY <1>6, <2>1 DEF StoresSound, IsStore, InOrder
  <2> QED
      BY <1>2, <1>3, <2>d, <2>5, <2>6 DEF EnvironmentSound, EntriesAgree
<1> QED
    BY <1>5, <1>6 DEF Sets

(* or fails to,                                                                   *)
LEMMA CannotSetSound ==
    ASSUME EnvironmentSound, NEW t \in Threads, NEW a \in Authorities, Same, CannotSet(t, a)
    PROVE  EnvironmentSound'
<1>1. /\ kept' = With(t, a) /\ loaded' = TRUE /\ torn' = torn \union {t} /\ UNCHANGED <<file, ran, codex>>
      /\ mishapsLeft > 0 /\ mishapsLeft' = mishapsLeft - 1
    BY DEF CannotSet, Same
<1>2. BoundsTyped'
  <2>1. torn' \subseteq Threads
      BY <1>1 DEF EnvironmentSound, BoundsTyped
  <2> QED
      BY <1>1, <2>1, BoundsKept
<1>3. TurnsTyped' /\ OnlyInTurn' /\ RunsAsAttested'
    BY <1>1 DEF EnvironmentSound, TurnsTyped, OnlyInTurn, InTurn, RunsAsAttested
<1>4. IsStore(Loaded) /\ SaysLastRun(Loaded)
    BY LoadedIsStore DEF EnvironmentSound
<1>5. /\ IsStore(With(t, a))
      /\ \A i \in DOMAIN With(t, a) :
           \/ With(t, a)[i] = Entry(t, a)
           \/ With(t, a)[i].thread # t /\ \E k \in DOMAIN Loaded : With(t, a)[i] = Loaded[k]
    BY WithIsStore DEF EnvironmentSound
<1>6. StoresSound'
    BY <1>1, <1>5 DEF EnvironmentSound, StoresSound, IsStore, InOrder
<1>7. Entry(t, a).thread = t
    BY DEF Entry
<1>8. \A i \in DOMAIN With(t, a) : With(t, a)[i].thread \notin torn \union {t}
        => With(t, a)[i].authority = LastRun(With(t, a)[i].thread)
    BY <1>4, <1>5, <1>7 DEF SaysLastRun
<1>9. EntriesAgree'
    BY <1>1, <1>8 DEF EnvironmentSound, EntriesAgree, SaysLastRun, LastRun
<1> QED
    BY <1>2, <1>3, <1>6, <1>9 DEF EnvironmentSound

(* is answered with what was kept,                                                *)
LEMMA KeptForThreadSound ==
    ASSUME EnvironmentSound, NEW t \in Threads, InTurn(t), NEW context, NEW proof,
           Shows(t, context), KeptForThread(t, context, proof)
    PROVE  EnvironmentSound'
<1> DEFINE a == Of(Loaded, t).authority
<1>1. IsStore(Loaded) /\ SaysLastRun(Loaded) /\ Loaded \in Seq(Entries)
    BY LoadedIsStore DEF EnvironmentSound, IsStore
<1>2. HasEntry(Loaded, t) /\ context = "none"
    BY DEF KeptForThread, Gets, Unproven
<1>3. Place(Loaded, t) \in DOMAIN Loaded /\ Loaded[Place(Loaded, t)].thread = t
    BY <1>2, PlaceIsThere
<1>4. a \in Authorities /\ (t \notin torn => a = LastRun(t))
    BY <1>1, <1>3, EntryTyped DEF Of, SaysLastRun
<1>5. ~codex[t].changed
    BY <1>2 DEF Shows
<1>6. kept' = Loaded /\ loaded' = TRUE /\ RunsWith(t, a) /\ Same /\ UNCHANGED <<file, torn, mishapsLeft>>
    BY DEF KeptForThread
<1> HIDE DEF a
<1>7. /\ TurnsTyped' /\ OnlyInTurn' /\ RunsAsAttested' /\ LastRun(t)' = a
      /\ \A u \in Threads \ {t} : LastRun(u)' = LastRun(u)
    BY <1>4, <1>5, <1>6, RunSound DEF MayRun
<1>8. \A u \in Threads : u \notin torn => LastRun(u)' = LastRun(u)
    BY <1>4, <1>7
<1>9. \A i \in DOMAIN Loaded : Loaded[i].thread \in Threads
    BY <1>1, EntryTyped
<1>10. \A i \in DOMAIN file : file[i].thread \in Threads
    BY EntryTyped DEF EnvironmentSound, StoresSound, IsStore
<1>11. SaysLastRun(kept)'
    BY <1>1, <1>6, <1>8, <1>9 DEF SaysLastRun
<1>12. SaysLastRun(file)'
    BY <1>6, <1>8, <1>10 DEF EnvironmentSound, EntriesAgree, SaysLastRun
<1>13. StoresSound'
    BY <1>1, <1>6 DEF EnvironmentSound, StoresSound, IsStore, InOrder
<1>14. BoundsTyped'
    BY <1>6, BoundsKept DEF EnvironmentSound, BoundsTyped
<1> QED
    BY <1>7, <1>11, <1>12, <1>13, <1>14 DEF EnvironmentSound, EntriesAgree

(* or deletes an entry that is looked up too late.                                *)
LEMMA ForgetsSound ==
    ASSUME EnvironmentSound, NEW t \in Threads, NEW context, NEW proof, Forgets(t, context, proof)
    PROVE  EnvironmentSound'
<1> DEFINE first == Looked(Loaded, t)
           both  == IF Child(t, proof) THEN Looked(first, Parent[t]) ELSE first
<1>1. IsStore(Loaded) /\ SaysLastRun(Loaded) /\ Loaded \in Seq(Entries)
    BY LoadedIsStore DEF EnvironmentSound, IsStore
<1>2. Selects(first, Loaded)
    BY <1>1, LookedSelects
<1>3. first \in Seq(Entries)
    BY <1>2 DEF Selects
<1>4. Selects(both, Loaded)
  <2>1. Selects(Looked(first, Parent[t]), first)
      BY <1>3, LookedSelects
  <2>2. Selects(Looked(first, Parent[t]), Loaded)
      BY <1>1, <1>2, <2>1, SelectsSome
  <2> QED
      BY <1>2, <2>2
<1>5. /\ loaded' = TRUE /\ Same /\ UNCHANGED <<ran, torn>>
      /\ kept' \in {first, both} /\ file' \in {file, first, both}
      /\ mishapsLeft' = mishapsLeft \/ (mishapsLeft > 0 /\ mishapsLeft' = mishapsLeft - 1)
    BY DEF Forgets
<1> HIDE DEF first, both
<1>6. MaxKept \in Nat
    BY EnvironmentAssumption
<1>7. IsStore(first) /\ IsStore(both) /\ IsStore(file)
    BY <1>1, <1>2, <1>4, <1>6, SelectsStore DEF EnvironmentSound, StoresSound
<1>8. SaysLastRun(first) /\ SaysLastRun(both) /\ SaysLastRun(file)
    BY <1>1, <1>2, <1>4 DEF Selects, SaysLastRun, EnvironmentSound, EntriesAgree
<1>9. StoresSound'
    BY <1>5, <1>7 DEF StoresSound, IsStore, InOrder
<1>10. EntriesAgree'
    BY <1>5, <1>8 DEF EntriesAgree, SaysLastRun, LastRun
<1>11. TurnsTyped' /\ OnlyInTurn' /\ RunsAsAttested'
    BY <1>5 DEF Same, EnvironmentSound, TurnsTyped, OnlyInTurn, InTurn, RunsAsAttested
<1>12. BoundsTyped'
    BY <1>5, BoundsKept DEF EnvironmentSound, BoundsTyped
<1> QED
    BY <1>9, <1>10, <1>11, <1>12 DEF EnvironmentSound

LEMMA RequestSound ==
    ASSUME EnvironmentSound, NEW t \in Threads, Request(t)
    PROVE  EnvironmentSound'
<1>1. PICK context \in Contexts, proof \in Proofs :
          /\ Shows(t, context)
          /\ \/ Attested(t, context, proof)
             \/ KeptForThread(t, context, proof)
             \/ \E roots \in BOOLEAN : InheritedFromParent(t, context, proof, roots)
             \/ Forgets(t, context, proof)
    BY DEF Request
<1>2. InTurn(t)
    BY DEF Request
<1>3. CASE Attested(t, context, proof)
  <2>0. codex[t].authority \in Authorities
      BY <1>2 DEF EnvironmentSound, OnlyInTurn
  <2>1. Same /\ (Sets(t, codex[t].authority) \/ CannotSet(t, codex[t].authority))
      BY <1>3 DEF Attested
  <2> QED
      BY <1>2, <2>0, <2>1, SetsSound, CannotSetSound DEF MayRun
<1>4. CASE KeptForThread(t, context, proof)
    BY <1>1, <1>2, <1>4, KeptForThreadSound
<1>5. ASSUME NEW roots \in BOOLEAN, InheritedFromParent(t, context, proof, roots)
      PROVE  EnvironmentSound'
  <2> DEFINE a == Of(Loaded, Parent[t]).authority
  <2>1. Loaded \in Seq(Entries)
      BY LoadedIsStore DEF EnvironmentSound, IsStore
  <2>2. HasEntry(Loaded, Parent[t]) /\ context = "none" /\ IsChild(t)
      BY <1>5 DEF InheritedFromParent, Gets, Unproven, Child
  <2>3. a \in Authorities
      BY <2>1, <2>2, PlaceIsThere, EntryTyped DEF Of
  <2>4. Same /\ (Sets(t, a) \/ CannotSet(t, a)) /\ a.sandbox = codex[t].authority.sandbox
      BY <1>5 DEF InheritedFromParent, Agrees
  <2>5. MayRun(t, a)
      BY <1>1, <2>2, <2>4 DEF Shows, MayRun
  <2> QED
      BY <1>2, <2>3, <2>4, <2>5, SetsSound, CannotSetSound
<1>6. CASE Forgets(t, context, proof)
    BY <1>6, ForgetsSound
<1> QED
    BY <1>1, <1>3, <1>4, <1>5, <1>6

LEMMA EnvironmentInitSound == EnvironmentInit => EnvironmentSound
<1> SUFFICES ASSUME EnvironmentInit PROVE EnvironmentSound
    OBVIOUS
<1>1. MaxKept \in Nat /\ MaxChanges \in Nat /\ MaxPauses \in Nat /\ MaxMishaps \in Nat
    BY EnvironmentAssumption DEF EnvironmentAssumption
<1>2. TurnsTyped
    BY DEF EnvironmentInit, TurnsTyped, NoThread, NotRun, KnownAuthorities
<1>3. BoundsTyped
  <2>1. 0 \in 0..MaxChanges /\ 0 \in 0..MaxPauses /\ MaxMishaps \in 0..MaxMishaps
      BY <1>1
  <2> QED
      BY <2>1 DEF EnvironmentInit, BoundsTyped
<1>4. StoresSound /\ EntriesAgree
    BY <1>1 DEF EnvironmentInit, StoresSound, IsStore, InOrder, EntriesAgree, SaysLastRun
<1>5. OnlyInTurn /\ RunsAsAttested
    BY DEF EnvironmentInit, OnlyInTurn, InTurn, RunsAsAttested, NotRun
<1> QED
    BY <1>2, <1>3, <1>4, <1>5 DEF EnvironmentSound

LEMMA EnvironmentSoundStep == EnvironmentSound /\ [EnvironmentNext]_environmentVars => EnvironmentSound'
<1> SUFFICES ASSUME EnvironmentSound, [EnvironmentNext]_environmentVars PROVE EnvironmentSound'
    OBVIOUS
<1>1. CASE UNCHANGED environmentVars
  <2>1. StoresSound' /\ EntriesAgree'
      BY <1>1, EntriesStay DEF environmentVars, EnvironmentSound
  <2>2. TurnsTyped' /\ BoundsTyped' /\ OnlyInTurn' /\ RunsAsAttested'
      BY <1>1 DEF environmentVars, EnvironmentSound, TurnsTyped, BoundsTyped, OnlyInTurn, InTurn, RunsAsAttested
  <2> QED
      BY <2>1, <2>2 DEF EnvironmentSound
<1>2. CASE EnvironmentNext
    BY <1>2, SpawnedSound, TurnBeginsSound, StoreUntouchedSound, RequestSound, LapseSound, RestartSound
       DEF EnvironmentNext
<1> QED
    BY <1>1, <1>2

(* Every turn runs with the authority Codex has for it, or with one it may still  *)
(* run with, whatever is evicted, expires, cannot be read or is lost by a restart *)
(* (thread-environment.ts).                                                       *)
THEOREM TurnsRunAsAttested == EnvironmentSpec => []EnvironmentsHold
<1>1. EnvironmentSpec => []EnvironmentSound
    BY EnvironmentInitSound, EnvironmentSoundStep, PTL DEF EnvironmentSpec
<1> QED
    BY <1>1, EnvironmentSoundHolds, PTL
================================================================================
