-------------------------- MODULE StructuredCompaction --------------------------
(***************************************************************************)
(* Structured compaction: when Codex runs out of context it asks for a      *)
(* checkpoint.  Its request names an execution key; runStructuredCompaction-*)
(* Once (src/adapters/chatgpt-web/compaction-handoff.ts) shares one run      *)
(* among the requests of a key and lets one run of a native thread act at a  *)
(* time.  The run (index.ts) ends the thread's current response, asks the    *)
(* same ChatGPT conversation for the checkpoint, the "handoff", and if that  *)
(* conversation is gone a fresh one, the "fallback".                         *)
(*                                                                          *)
(* A thread's retained conversation has at most one session here (its head,  *)
(* see TurnSessions).  An ordinary turn of the thread starts when the last    *)
(* one is released and no run holds the conversation.                        *)
(*                                                                          *)
(* A definition under the comment "mutant" is a broken version of the one    *)
(* that follows it; no specification uses it.                                *)
(***************************************************************************)
EXTENDS Naturals, FiniteSets

CONSTANTS
    Keys,         \* execution keys of compaction requests
    ownerOf,      \* the native thread of a key
    turnOf,       \* its native turn
    Runs,         \* runs that may be started
    runsOf,       \* a bound of the model: those of them by hand, and otherwise
    NoRun         \* no run, no key

\* A run is not what stands for none: the module of the run assumes it.
CompactionAssumption == NoRun \notin Runs

Owners      == {ownerOf[k] : k \in Keys}
NativeTurns == {turnOf[k] : k \in Keys}

VARIABLES
    manual,         \* Zero Risk, chosen with the configuration: the browser is operated by hand
    runs,           \* structuredCompactionRuns
    failures,       \* structuredCompactionFailures: how often a key failed
    owners,         \* structuredCompactionOwners: the last run of a thread
    interruptions,  \* structuredCompactionInterruptions: turns interrupted
    keyOfRun,       \* the key of a run
    gate,           \* the run whose settlement a run waits for
    stage,          \* where it stands
    aborted,        \* runs that an operator cancelled
    expired,        \* runs whose handoff deadline has passed
    unavailable,    \* those told "the conversation is no longer available"
    holding,        \* those that have a source still in its conversation
    preserve,       \* those that keep their source's final response
    handoff,        \* a run's handoff browser: "none", "live", "ended"
    fallback,       \* its fallback browser
    source,         \* a thread's head session: "none", "active", "final", "error"
    sourceLive,     \* threads whose session has its browser
    instructed,     \* those whose response was told to stop for compaction
    retiring,       \* those whose conversation is being released
    attempts,       \* history: runs of a key since its failures were forgotten
    lost            \* history: runs that dropped an ordinary final response

tableVars  == <<runs, failures, owners, interruptions, attempts>>
runVars    == <<keyOfRun, gate, manual>>
signalVars == <<aborted, expired>>
workVars   == <<unavailable, holding, preserve, lost>>
browserVars == <<handoff, fallback>>
sourceVars == <<source, sourceLive, instructed, retiring>>
runnerVars == <<tableVars, runVars, stage, signalVars, workVars, browserVars, sourceVars>>

Stages == {"none", "gated", "sourcing", "settling", "handoff", "accepted", "fallback",
           "closing", "cleanup", "ok", "thrown", "settled"}

RunnerInit ==
    /\ manual \in BOOLEAN
    /\ runs = [k \in Keys |-> NoRun] /\ failures = [k \in Keys |-> 0]
    /\ owners = [o \in Owners |-> NoRun] /\ interruptions = {}
    /\ attempts = [k \in Keys |-> 0]
    /\ keyOfRun = [r \in Runs |-> NoRun] /\ gate = [r \in Runs |-> NoRun]
    /\ stage = [r \in Runs |-> "none"]
    /\ aborted = {} /\ expired = {}
    /\ unavailable = {} /\ holding = {} /\ preserve = {} /\ lost = {}
    /\ handoff = [r \in Runs |-> "none"] /\ fallback = [r \in Runs |-> "none"]
    /\ source = [o \in Owners |-> "none"] /\ sourceLive = {} /\ instructed = {} /\ retiring = {}

Owner(r)    == ownerOf[keyOfRun[r]]
Active(r)   == stage[r] \notin {"none", "settled"}         \* run.active
Returned(r) == stage[r] \in {"ok", "thrown"}               \* its promise has settled
Acting(r)   == Active(r) /\ stage[r] # "gated" /\ ~Returned(r)
Stopped(r)  == r \in aborted \cup expired                  \* operationSignal.aborted

(* physicalSettlements: what the owner's gate waits for. *)
\* mutant
OwnBrowserEnded(r) == fallback[r] # "live"
GateOpens(r) == fallback[r] # "live" /\ (gate[r] # NoRun => stage[gate[r]] = "settled")

(* Continuations of promises and of abort signals run before the event loop  *)
(* takes anything else.                                                      *)
\* mutant
HandoffUnbounded == {"gated", "sourcing", "settling", "accepted", "fallback", "closing"}
Stoppable == {"gated", "sourcing", "settling", "handoff", "accepted", "fallback", "closing"}
Due(r) ==
    \/ Returned(r) /\ GateOpens(r)
    \/ stage[r] = "gated" /\ stage[gate[r]] = "settled"
    \/ stage[r] \in Stoppable /\ Stopped(r)
Drained == \A r \in Runs : ~Due(r)

Goto(r, s) == stage' = [stage EXCEPT ![r] = s]

--------------------------------------------------------------------------------
(* The shared runs                                                           *)

FailedTwice(k) == failures[k] >= 2

(* runStructuredCompactionOnce(), where it starts a run.  A request that     *)
(* finds one is given its promise; one whose key failed twice or whose turn  *)
(* was interrupted is refused.  Neither changes anything.                    *)
Interrupted(k) == turnOf[k] \in interruptions

(* A new run: which of the unused ones it is makes no difference. *)
NewRun == CHOOSE r \in runsOf[manual] : stage[r] = "none"

Start(k, r) ==
    LET o == ownerOf[k] IN
    /\ Drained
    /\ r \in runsOf[manual] /\ stage[r] = "none" /\ r = NewRun
    /\ runs[k] = NoRun
    /\ ~FailedTwice(k)
    /\ ~Interrupted(k)
    /\ keyOfRun' = [keyOfRun EXCEPT ![r] = k]
    /\ gate' = [gate EXCEPT ![r] = owners[o]]
    /\ Goto(r, IF owners[o] = NoRun THEN "sourcing" ELSE "gated")
    /\ runs' = [runs EXCEPT ![k] = r]
    /\ owners' = [owners EXCEPT ![o] = r]
    /\ attempts' = [attempts EXCEPT ![k] = @ + 1]
    /\ UNCHANGED <<failures, interruptions, manual, signalVars, workVars, browserVars, sourceVars>>

(* The predecessor has settled. *)
PassGate(r) ==
    /\ stage[r] = "gated" /\ ~Stopped(r)
    /\ stage[gate[r]] = "settled"
    /\ Goto(r, "sourcing")
    /\ UNCHANGED <<tableVars, runVars, signalVars, workVars, browserVars, sourceVars>>

(* ownerSettlement: the run's promise has settled and so has everything it   *)
(* retained.  A first failure may be tried again, a second is remembered.    *)
CountFailure(k) == failures[k] + 1

(* Nothing reads the rest of a run that has settled. *)
Forget(r) ==
    /\ aborted' = aborted \ {r} /\ expired' = expired \ {r}
    /\ unavailable' = unavailable \ {r} /\ holding' = holding \ {r}
    /\ preserve' = preserve \ {r} /\ lost' = lost \ {r}

OwnerSettles(r) ==
    LET k == keyOfRun[r]
        o == Owner(r)
        failed == stage[r] = "thrown"
        count == IF failed THEN CountFailure(k) ELSE 0 IN
    /\ Returned(r) /\ GateOpens(r)
    /\ Goto(r, "settled")
    /\ failures' = [failures EXCEPT ![k] = count]
    /\ owners' = [owners EXCEPT ![o] = IF @ = r THEN NoRun ELSE @]
    /\ runs' = [runs EXCEPT ![k] = IF failed /\ count < 2 THEN NoRun ELSE @]
    /\ attempts' = [attempts EXCEPT ![k] = IF failed THEN @ ELSE 0]
    /\ gate' = [gate EXCEPT ![r] = NoRun]
    /\ Forget(r)
    /\ UNCHANGED <<interruptions, keyOfRun, manual, browserVars, sourceVars>>

(* pruneStructuredCompactionRuns(), thirty minutes later: a settled run,     *)
(* then its key's failures (which are younger), and interruptions.           *)
PruneRun(k) ==
    /\ Drained
    /\ runs[k] # NoRun /\ ~Active(runs[k])
    /\ runs' = [runs EXCEPT ![k] = NoRun]
    /\ UNCHANGED <<failures, owners, interruptions, attempts, runVars, stage, signalVars,
                   workVars, browserVars, sourceVars>>

PruneFailures(k) ==
    /\ Drained
    /\ failures[k] > 0
    /\ runs[k] # NoRun => Active(runs[k])
    /\ failures' = [failures EXCEPT ![k] = 0]
    /\ attempts' = [attempts EXCEPT ![k] = IF runs[k] = NoRun THEN 0 ELSE 1]
    /\ UNCHANGED <<runs, owners, interruptions, runVars, stage, signalVars, workVars,
                   browserVars, sourceVars>>

PruneInterruption(t) ==
    /\ Drained
    /\ t \in interruptions
    /\ interruptions' = interruptions \ {t}
    /\ UNCHANGED <<runs, failures, owners, attempts, runVars, stage, signalVars, workVars,
                   browserVars, sourceVars>>

(* cancelStructuredCompactionTrace() and cancelAllStructuredCompactions():   *)
(* the caller goes on when the runs have settled.                            *)
AbortRuns(S) == aborted' = aborted \cup {r \in S : Active(r)}

CancelTrace(r) ==
    /\ Drained
    /\ Active(r) /\ r \notin aborted
    /\ AbortRuns({r})
    /\ UNCHANGED <<tableVars, runVars, stage, expired, workVars, browserVars, sourceVars>>

CancelAll ==
    /\ Drained
    /\ AbortRuns(Runs)
    /\ aborted' # aborted
    /\ UNCHANGED <<tableVars, runVars, stage, expired, workVars, browserVars, sourceVars>>

(* cancelStructuredCompactionNativeTurn(): Codex interrupted the turn. *)
RunsOfTurn(t)    == {r \in Runs : Active(r) /\ turnOf[keyOfRun[r]] = t}

CancelNativeTurn(t) ==
    /\ Drained
    /\ interruptions' = interruptions \cup {t}
    /\ AbortRuns(RunsOfTurn(t))
    /\ UNCHANGED <<runs, failures, owners, attempts, runVars, stage, expired, workVars,
                   browserVars, sourceVars>>

(* The handoff deadline, armed when the run passes its gate. *)
Expire(r) ==
    /\ Drained
    /\ Acting(r) /\ r \notin expired
    /\ expired' = expired \cup {r}
    /\ UNCHANGED <<tableVars, runVars, stage, aborted, workVars, browserVars, sourceVars>>

--------------------------------------------------------------------------------
(* One run                                                                   *)

(* retireConversationAndWait() or ...PreservingFinalResponse(), up to its    *)
(* wait: the conversation's session leaves it and is released.               *)
CloseSource(r) ==
    LET o == Owner(r) IN
    IF o \in retiring \/ source[o] = "none"
    THEN UNCHANGED <<source, retiring, instructed, holding, lost>>
    ELSE /\ source' = [source EXCEPT ![o] = "none"]
         /\ retiring' = retiring \cup {o}
         /\ instructed' = instructed \ {o}
         /\ holding' = holding \ {r}
         /\ lost' = IF source[o] = "final" /\ o \notin instructed /\ r \notin preserve
                    THEN lost \cup {r} ELSE lost

(* The catch block: a run whose source has left its conversation ends; any   *)
(* other closes the conversation, and waits for that whatever was cancelled. *)
Catch(r) ==
    /\ IF r \in holding THEN Goto(r, "cleanup") /\ CloseSource(r)
       ELSE Goto(r, "thrown") /\ UNCHANGED <<source, retiring, instructed, holding, lost>>
    /\ UNCHANGED <<tableVars, runVars, signalVars, preserve, sourceLive>>

OpenHandoff(r)  == Goto(r, "handoff") /\ handoff' = [handoff EXCEPT ![r] = "live"]
OpenFallback(r) == Goto(r, "fallback") /\ fallback' = [fallback EXCEPT ![r] = "live"]

(* waitForConversationRetirement() has ended: what source is there? *)
FindSource(r) ==
    LET o == Owner(r) IN
    /\ Drained
    /\ stage[r] = "sourcing" /\ o \notin retiring /\ ~Stopped(r)
    /\ \/ /\ source[o] = "none"
          /\ OpenFallback(r)
          /\ UNCHANGED <<handoff, holding, preserve>>
       \/ /\ source[o] = "active"
          /\ Goto(r, "settling")
          /\ holding' = holding \cup {r}
          /\ UNCHANGED <<browserVars, preserve>>
       \/ /\ source[o] \in {"final", "error"}
          /\ holding' = holding \cup {r}
          /\ preserve' = IF source[o] = "final" THEN preserve \cup {r} ELSE preserve
          /\ IF manual THEN OpenFallback(r) /\ UNCHANGED handoff
                       ELSE OpenHandoff(r) /\ UNCHANGED fallback
    /\ UNCHANGED <<tableVars, runVars, signalVars, unavailable, lost, sourceVars>>

(* settleActiveCompactionSource() and its Zero Risk form: the response ended *)
(* and its browser is released.  One that was told to stop has no ordinary   *)
(* answer; by hand it has already returned the checkpoint.                   *)
PreserveOrdinary(r) == IF Owner(r) \in instructed THEN preserve ELSE preserve \cup {r}

SourceSettled(r) ==
    LET o == Owner(r) IN
    /\ Drained
    /\ stage[r] = "settling" /\ ~Stopped(r)
    /\ source[o] = "final" /\ o \notin sourceLive
    /\ preserve' = PreserveOrdinary(r)
    /\ \/ /\ ~manual /\ OpenHandoff(r) /\ UNCHANGED <<fallback, source, retiring, instructed, holding, lost>>
       \/ /\ manual /\ o \notin instructed
          /\ OpenFallback(r) /\ UNCHANGED <<handoff, source, retiring, instructed, holding, lost>>
       \/ /\ manual /\ o \in instructed
          /\ Goto(r, "closing") /\ CloseSource(r) /\ UNCHANGED browserVars
    /\ UNCHANGED <<tableVars, runVars, signalVars, unavailable, sourceLive>>

(* Its response failed, or Codex did not bring all results. *)
SourceFails(r) ==
    /\ Drained
    /\ stage[r] = "settling" /\ ~Stopped(r)
    /\ Catch(r)
    /\ UNCHANGED <<browserVars, unavailable>>

(* requestRetainedCompactionHandoff(): ChatGPT submits the checkpoint, the   *)
(* run stops the handoff browser and waits for it ...                        *)
SubmitHandoff(r) ==
    /\ Drained
    /\ stage[r] = "handoff" /\ ~Stopped(r)
    /\ Goto(r, "accepted")
    /\ UNCHANGED <<tableVars, runVars, signalVars, workVars, browserVars, sourceVars>>

(* ... and then closes the conversation. *)
HandoffDone(r) ==
    /\ Drained
    /\ stage[r] = "accepted" /\ ~Stopped(r)
    /\ handoff[r] = "ended"
    /\ Goto(r, "closing")
    /\ CloseSource(r)
    /\ UNCHANGED <<tableVars, runVars, signalVars, unavailable, preserve, browserVars,
                   sourceLive>>

(* The handoff browser fails: the conversation is gone, or something else. *)
HandoffFails(r) ==
    /\ Drained
    /\ stage[r] = "handoff" /\ handoff[r] = "live" /\ ~Stopped(r)
    /\ handoff' = [handoff EXCEPT ![r] = "ended"]
    /\ \E gone \in BOOLEAN :
         unavailable' = IF gone THEN unavailable \cup {r} ELSE unavailable
    /\ Catch(r)
    /\ UNCHANGED fallback

(* It ends: when told to, or by itself without having submitted. *)
HandoffEnds(r) ==
    /\ Drained
    /\ handoff[r] = "live"
    /\ handoff' = [handoff EXCEPT ![r] = "ended"]
    /\ UNCHANGED <<tableVars, runVars, stage, signalVars, workVars, fallback, sourceVars>>

(* runFreshCompactionFallback(): its answer counts when its browser is       *)
(* released.  A run with a source then closes the conversation.              *)
FallbackDone(r) ==
    /\ Drained
    /\ stage[r] = "fallback" /\ ~Stopped(r)
    /\ fallback[r] = "ended"
    /\ IF r \in holding THEN Goto(r, "closing") /\ CloseSource(r)
       ELSE Goto(r, "ok") /\ UNCHANGED <<source, retiring, instructed, holding, lost>>
    /\ UNCHANGED <<tableVars, runVars, signalVars, unavailable, preserve, browserVars,
                   sourceLive>>

FallbackFails(r) ==
    /\ Drained
    /\ stage[r] = "fallback" /\ ~Stopped(r)
    /\ Catch(r)
    /\ UNCHANGED <<browserVars, unavailable>>

FallbackEnds(r) ==
    /\ Drained
    /\ fallback[r] = "live"
    /\ fallback' = [fallback EXCEPT ![r] = "ended"]
    /\ UNCHANGED <<tableVars, runVars, stage, signalVars, workVars, handoff, sourceVars>>

(* A cancelled run, or one out of time, stops wherever it waits (but in its  *)
(* catch block); the browsers it opened are told to stop.                    *)
Stop(r) ==
    /\ Stopped(r)
    /\ stage[r] \in Stoppable
    /\ Catch(r)
    /\ UNCHANGED <<browserVars, unavailable>>

(* The conversation is released, or the launcher refuses.  What the catch    *)
(* block then starts or throws is not caught again.                          *)
Released(o) ==
    LET Waiting(at) == {r \in Runs : stage[r] = at /\ Owner(r) = o} IN
    /\ Drained
    /\ o \in retiring /\ o \notin sourceLive
    /\ retiring' = retiring \ {o}
    /\ holding' = holding \ Waiting("cleanup")
    /\ \/ /\ stage' = [r \in Runs |->
                 IF r \in Waiting("closing") /\ ~Stopped(r) THEN "ok"
                 ELSE IF r \in Waiting("cleanup")
                 THEN IF r \in unavailable THEN "fallback" ELSE "thrown"
                 ELSE stage[r]]
          /\ fallback' = [r \in Runs |->
                 IF r \in Waiting("cleanup") \cap unavailable THEN "live" ELSE fallback[r]]
       \/ /\ stage' = [r \in Runs |->
                 IF r \in UNION {Waiting(at) : at \in {"sourcing", "closing", "cleanup"}}
                 THEN "thrown" ELSE stage[r]]
          /\ UNCHANGED fallback
    /\ UNCHANGED <<tableVars, runVars, signalVars, unavailable, preserve, lost, handoff,
                   source, sourceLive, instructed>>

(* A catch block whose conversation was closed by somebody else, or had lost *)
(* its session.                                                              *)
NothingToClose(r) ==
    /\ Drained
    /\ stage[r] \in {"closing", "cleanup"} /\ Owner(r) \notin retiring
    /\ \/ stage[r] = "closing" /\ ~Stopped(r) /\ Goto(r, "ok") /\ UNCHANGED fallback
       \/ stage[r] = "cleanup" /\ r \in unavailable /\ OpenFallback(r)
       \/ stage[r] = "cleanup" /\ r \notin unavailable /\ Goto(r, "thrown") /\ UNCHANGED fallback
    /\ holding' = holding \ {r}
    /\ UNCHANGED <<tableVars, runVars, signalVars, unavailable, preserve, lost, handoff, sourceVars>>

--------------------------------------------------------------------------------
(* The thread's ordinary session                                             *)

StartTurn(o) ==
    /\ Drained
    /\ source[o] = "none" /\ o \notin sourceLive \cup retiring
    /\ \A r \in holding : Owner(r) # o
    /\ source' = [source EXCEPT ![o] = "active"]
    /\ sourceLive' = sourceLive \cup {o}
    /\ UNCHANGED <<tableVars, runVars, stage, signalVars, workVars, browserVars, instructed, retiring>>

(* The response ends.  A compaction has requested its tool calls to be       *)
(* answered with an instruction to stop, which it may have met or not.       *)
TurnSettles(o) ==
    /\ Drained
    /\ source[o] = "active"
    /\ \E how \in {"final", "error"} : source' = [source EXCEPT ![o] = how]
    /\ \/ UNCHANGED instructed
       \/ /\ \E r \in Runs : stage[r] = "settling" /\ Owner(r) = o
          /\ instructed' = instructed \cup {o}
    /\ UNCHANGED <<tableVars, runVars, stage, signalVars, workVars, browserVars, sourceLive, retiring>>

TurnReleased(o) ==
    /\ Drained
    /\ o \in sourceLive /\ source[o] # "active"
    /\ sourceLive' = sourceLive \ {o}
    /\ UNCHANGED <<tableVars, runVars, stage, signalVars, workVars, browserVars, source,
                   instructed, retiring>>

(* The registry drops the session: retired, cancelled or pruned. *)
TurnDropped(o) ==
    /\ Drained
    /\ source[o] # "none"
    /\ source' = [source EXCEPT ![o] = "none"]
    /\ retiring' = IF o \in sourceLive THEN retiring \cup {o} ELSE retiring
    /\ instructed' = instructed \ {o}
    /\ UNCHANGED <<tableVars, runVars, stage, signalVars, workVars, browserVars, sourceLive>>

--------------------------------------------------------------------------------
RunStep(r) ==
    \/ PassGate(r) \/ OwnerSettles(r)
    \/ FindSource(r) \/ SourceSettled(r) \/ SourceFails(r)
    \/ SubmitHandoff(r) \/ HandoffDone(r) \/ HandoffFails(r) \/ HandoffEnds(r)
    \/ FallbackDone(r) \/ FallbackFails(r) \/ FallbackEnds(r)
    \/ Stop(r) \/ NothingToClose(r) \/ Expire(r) \/ CancelTrace(r)

RunnerNext ==
    \/ \E r \in Runs : RunStep(r) \/ \E k \in Keys : Start(k, r)
    \/ \E k \in Keys : PruneRun(k) \/ PruneFailures(k)
    \/ \E t \in NativeTurns : PruneInterruption(t) \/ CancelNativeTurn(t)
    \/ CancelAll
    \/ \E o \in Owners : \/ Released(o) \/ StartTurn(o) \/ TurnSettles(o)
                         \/ TurnReleased(o) \/ TurnDropped(o)

(* Promises continue, the deadline fires, and a browser that was told to     *)
(* stop is released; neither ChatGPT nor the operator owes anything.         *)
RunContinues(r) ==
    \/ PassGate(r) \/ OwnerSettles(r) \/ Expire(r) \/ Stop(r) \/ NothingToClose(r)
    \/ fallback[r] = "live" /\ Returned(r) /\ FallbackEnds(r)

RunnerFairness ==
    /\ \A r \in Runs : WF_runnerVars(RunContinues(r))
    /\ \A o \in Owners : WF_runnerVars(Released(o) \/ TurnReleased(o))

RunnerSpec == RunnerInit /\ [][RunnerNext]_runnerVars /\ RunnerFairness

--------------------------------------------------------------------------------
(* Properties *)

(* The types; a key never fails a third time. *)
RunnerTypeOK ==
    /\ manual \in BOOLEAN
    /\ runs \in [Keys -> Runs \cup {NoRun}] /\ failures \in [Keys -> 0..2]
    /\ owners \in [Owners -> Runs \cup {NoRun}] /\ interruptions \in SUBSET NativeTurns
    /\ keyOfRun \in [Runs -> Keys \cup {NoRun}] /\ gate \in [Runs -> Runs \cup {NoRun}]
    /\ stage \in [Runs -> Stages]
    /\ aborted \in SUBSET Runs /\ expired \in SUBSET Runs
    /\ unavailable \in SUBSET Runs /\ holding \in SUBSET Runs
    /\ preserve \in SUBSET Runs /\ lost \in SUBSET Runs
    /\ handoff \in [Runs -> {"none", "live", "ended"}]
    /\ fallback \in [Runs -> {"none", "live", "ended"}]
    /\ source \in [Owners -> {"none", "active", "final", "error"}]
    /\ sourceLive \in SUBSET Owners /\ instructed \in SUBSET Owners
    /\ retiring \in SUBSET Owners /\ attempts \in [Keys -> Nat]

(* "A cancelled queued run must also retain its predecessor's gate": of a    *)
(* thread's runs at most one acts or has a fallback browser that is live,    *)
(* whichever of them were cancelled while they waited for one another.       *)
OneRunActs ==
    LET Busy == {r \in Runs : Acting(r) \/ fallback[r] = "live"} IN
    \A r, s \in Busy : Owner(r) = Owner(s) => r = s

(* "Allow one transient retry": a key has at most two runs until one of them *)
(* succeeds or its failures are thirty minutes old.                          *)
AtMostOneRetry == \A k \in Keys : attempts[k] <= 2

(* "Either registration wins and is aborted, or interruption wins and the    *)
(* later registration rejects": no run of an interrupted turn goes on.       *)
InterruptedRunsStop ==
    \A r \in Runs : Active(r) /\ turnOf[keyOfRun[r]] \in interruptions => r \in aborted

(* A compaction that succeeds has not thrown away a "terminal response that  *)
(* won the compaction race before any compaction instruction reached it".    *)
FinalResponseSurvives == \A r \in lost : stage[r] # "ok"

(* The gate of a thread, the budget of a key, the interruption of a turn and *)
(* the answer of its source hold at once, whichever run is cancelled, fails  *)
(* or is retried.                                                            *)
GatesHold ==
    RunnerTypeOK /\ OneRunActs /\ AtMostOneRetry /\ InterruptedRunsStop /\ FinalResponseSurvives

(* A run ends: its promise settles and its thread's gate opens, even when     *)
(* ChatGPT never answers.  (Each of Runs is started once at most, so that all *)
(* of them end if in the end none is active.)                                 *)
CompactionsEnd == <>[](\A r \in Runs : ~Active(r))
===============================================================================
