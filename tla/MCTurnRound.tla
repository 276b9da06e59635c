------------------------------ MODULE MCTurnRound ------------------------------
(* Small instances of what the adapter does for a native turn.  Its rounds,    *)
(* its attempts and the environment it runs with are independent of each       *)
(* other but for the failure that ends a round, so an instance has one of the  *)
(* three: the rounds of one turn, the attempts of the turns of one thread, or  *)
(* the environments of a thread and its subagent.                              *)
EXTENDS TurnRound, TurnAttempts, ThreadEnvironments

ParentOf == [t \in Threads |-> IF t = "child" THEN "root" ELSE t]
Sandboxes == [sandbox : {"readOnly", "workspaceWrite"}, root : {"work"}]

VARIABLE part        \* what the instance has: "rounds", "attempts" or "environments"

\* What the theorems about the attempts assume of their limits.
ASSUME AttemptsAssumption == AttemptAssumption

allVars == <<roundVars, attemptVars, environmentVars, part>>

InRounds(A)   == part = "rounds" /\ A /\ UNCHANGED <<attemptVars, environmentVars, part>>
InAttempts(A) == part = "attempts" /\ A /\ UNCHANGED <<roundVars, environmentVars, part>>
InEnvironments(A) ==
    part = "environments" /\ A /\ UNCHANGED <<roundVars, attemptVars, part>>

\* The other parts start in one state, so that they count once.
ServedInit ==
    /\ RoundInit /\ AttemptInit /\ EnvironmentInit
    /\ part \in {"rounds", "attempts", "environments"}
    /\ part # "attempts" => ~nativeTurn.goal /\ ~nativeTurn.compaction

ServedNext ==
    \/ InRounds(CodexStep) \/ InRounds(AdapterStep) \/ InRounds(TimerFires)
    \/ InRounds(CaptureBoundary) \/ InRounds(FinishBrowser) \/ InRounds(FailBrowser)
    \/ InRounds(RetirementObserved) \/ InRounds(Elsewhere)
    \/ \E goal, compaction \in BOOLEAN : InAttempts(NextTurn(goal, compaction))
    \/ InAttempts(Asks) \/ InAttempts(Disconnects) \/ InAttempts(GivesUp)
    \/ InAttempts(HalfAnHour) \/ InAttempts(PruneSession)
    \/ InAttempts(StoppedForStall) \/ InAttempts(StoppedForBudget)
    \/ InAttempts(EnvironmentMissing)
    \/ InAttempts(Starts) \/ InAttempts(Joins) \/ InAttempts(ReplaysAnswer)
    \/ InAttempts(AnswersLate) \/ InAttempts(FailsLate)
    \/ InAttempts(SendActivated) \/ InAttempts(Submitted)
    \/ \E tools \in BOOLEAN : InAttempts(Works(tools))
    \/ \E answer \in {"final", "unavailable"} : InAttempts(Finishes(answer))
    \/ \E error \in Errors : InAttempts(BrowserFails(error))
    \/ InAttempts(Completes) \/ InAttempts(RetriesSafely)
    \/ InAttempts(Wakes) \/ InAttempts(MayBeRetried)
    \/ InAttempts(Exhausts) \/ InAttempts(EndsTurn) \/ InAttempts(Throws)
    \/ \E t \in Threads :
        \/ \E authority \in Sandboxes :
            \/ InEnvironments(Spawned(t, authority))
            \/ InEnvironments(TurnBegins(t, authority))
        \/ InEnvironments(Compacted(t)) \/ InEnvironments(Request(t))
    \/ \E lapse \in {"minute", "month"} : InEnvironments(Lapse(lapse))
    \/ InEnvironments(Restart) \/ InEnvironments(CannotLoad)

\* What RoundSpec assumes of the event loop.
ServedFairness ==
    /\ WF_allVars(InRounds(AdapterStep)) /\ WF_allVars(InRounds(TimerFires))
    /\ WF_allVars(InRounds(CaptureBoundary)) /\ WF_allVars(InRounds(RetirementObserved))

ServedSpec == ServedInit /\ [][ServedNext]_allVars /\ ServedFairness
===============================================================================
