----------------------------- MODULE MCCompactions -----------------------------
(* Small instances of compaction for TLC.  The runs of a thread and the store  *)
(* that their checkpoints pass through meet only in the token that a run       *)
(* begins and waits for, so an instance has one of the two: a thread that      *)
(* compacts in two of its turns, or two transactions of one trace.             *)
EXTENDS CompactionTransaction, StructuredCompaction

CONSTANTS trace, k2, r3

TraceOf == [t \in Tokens |-> trace]
OwnerOf == [k \in Keys |-> "thread"]
TurnOf  == [k \in Keys |-> IF k = k2 THEN "t2" ELSE "t1"]
RunsOf  == [byHand \in BOOLEAN |-> IF byHand THEN Runs ELSE Runs \ {r3}]

VARIABLE part        \* what the instance has, "store" or "runs"

(* What the theorems about the runs assume of their names. *)
ASSUME RunnerAssumption == CompactionAssumption

InStore(A) == part = "store" /\ A /\ UNCHANGED <<runnerVars, part>>
InRuns(A)  == part = "runs" /\ A /\ UNCHANGED <<vars, part>>

PartInit == Init /\ RunnerInit /\ part \in {"store", "runs"} /\ (part = "store" => ~manual)

PartNext ==
    \/ \E t \in Tokens :
        \/ InStore(Begin(t)) \/ InStore(SignalAborts(t)) \/ InStore(TimerFires(t))
        \/ InStore(Abort(t))
        \/ \E s \in Submissions : InStore(Submit(s, t))
        \/ \E w \in Waits :
            \/ InStore(WaitRefused(w, t)) \/ InStore(WaitConsumes(w, t))
            \/ InStore(WaitAborted(w, t)) \/ InStore(WaitBegins(w, t))
    \/ \E tr \in Traces : InStore(AbortTrace(tr))
    \/ InStore(Close)
    \/ \E r \in Runs :
        \/ InRuns(PassGate(r)) \/ InRuns(OwnerSettles(r))
        \/ InRuns(FindSource(r)) \/ InRuns(SourceSettled(r))
        \/ InRuns(SourceFails(r)) \/ InRuns(SubmitHandoff(r))
        \/ InRuns(HandoffDone(r)) \/ InRuns(HandoffFails(r))
        \/ InRuns(HandoffEnds(r)) \/ InRuns(FallbackDone(r))
        \/ InRuns(FallbackFails(r)) \/ InRuns(FallbackEnds(r))
        \/ InRuns(Stop(r)) \/ InRuns(NothingToClose(r))
        \/ InRuns(Expire(r)) \/ InRuns(CancelTrace(r))
        \/ \E k \in Keys : InRuns(Start(k, r))
    \/ \E k \in Keys : InRuns(PruneRun(k)) \/ InRuns(PruneFailures(k))
    \/ \E t \in NativeTurns :
        InRuns(PruneInterruption(t)) \/ InRuns(CancelNativeTurn(t))
    \/ InRuns(CancelAll)
    \/ \E o \in Owners :
        \/ InRuns(Released(o)) \/ InRuns(StartTurn(o))
        \/ InRuns(TurnSettles(o)) \/ InRuns(TurnReleased(o))
        \/ InRuns(TurnDropped(o))

\* What the two modules assume: timers, promises and deadlines, browsers that were told to stop.
allVars == <<vars, runnerVars, part>>
PartFairness ==
    /\ \A t \in Tokens : WF_allVars(InStore(TimerFires(t)))
    /\ \A r \in Runs : WF_allVars(InRuns(RunContinues(r)))
    /\ \A o \in Owners :
        WF_allVars(InRuns(Released(o) \/ TurnReleased(o)))

PartSpec == PartInit /\ [][PartNext]_allVars /\ PartFairness
================================================================================
