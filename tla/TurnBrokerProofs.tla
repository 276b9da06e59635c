--------------------------- MODULE TurnBrokerProofs ---------------------------
(***************************************************************************)
(* Theorems about TurnBroker, for any number of turns, requests, calls and *)
(* polls.                                                                  *)
(***************************************************************************)
EXTENDS TurnBroker, FiniteSetTheorems, TLAPS

(* A revocation, of whatever turns, leaves the state well typed. *)
LEMMA RevokedType ==
    ASSUME NEW T \in SUBSET Turns, TypeOK, Revoked(T)
    PROVE  TypeOK'
BY DEF TypeOK, Revoked, RejectHeld, RejectPolls, Emptied, activityVars, fenceVars,
       compactVars, Outcomes, SafeStates

LEMMA TypeInit == Init => TypeOK
BY DEF Init, TypeOK, Outcomes, SafeStates

LEMMA TypeStep == TypeOK /\ [Next]_vars => TypeOK'
<1> SUFFICES ASSUME TypeOK, [Next]_vars PROVE TypeOK'
    OBVIOUS
<1> USE DEF TypeOK, Outcomes, SafeStates, lifeVars, activityVars, fenceVars, callVars,
            compactVars, pollVars, safeVars, heldVars
<1>1. ASSUME NEW t \in Turns, NEW a \in Activities, Claim(t, a) PROVE TypeOK'
    BY <1>1 DEF Claim, Admit
<1>2. ASSUME NEW t \in Turns, NEW a \in Activities, HoldClaim(t, a) PROVE TypeOK'
    BY <1>2 DEF HoldClaim
<1>3. ASSUME NEW t \in Turns, NEW a \in Activities, AbandonClaim(t, a) PROVE TypeOK'
    BY <1>3 DEF AbandonClaim
<1>4. ASSUME NEW t \in Turns, NEW a \in Activities, ResumeClaim(t, a) PROVE TypeOK'
    BY <1>4 DEF ResumeClaim, Admit
<1>5. ASSUME NEW t \in Turns, NEW a \in Activities, RefuseClaim(t, a) PROVE TypeOK'
    BY <1>5 DEF RefuseClaim
<1>6. ASSUME NEW t \in Turns, NEW a \in Activities, CompleteActivity(t, a) PROVE TypeOK'
    BY <1>6 DEF CompleteActivity, CountEnd, Tombstone
<1>7. ASSUME NEW t \in Turns, NEW c \in Calls, Invoke(t, c) PROVE TypeOK'
    BY <1>7 DEF Invoke, Enqueue, ScheduleToolWaiters
<1>8. ASSUME NEW t \in Turns, NEW c \in Calls, InterceptInvoke(t, c) PROVE TypeOK'
    BY <1>8 DEF InterceptInvoke, CountInterrupted
<1>9. ASSUME NEW t \in Turns, NEW answer \in Answers, CompleteSafeTurn(t, answer) PROVE TypeOK'
    BY <1>9 DEF CompleteSafeTurn, AcceptAnswer
<1>10. ASSUME NEW t \in Turns, NEW answer \in Answers, HoldAnswer(t, answer) PROVE TypeOK'
    BY <1>10 DEF HoldAnswer
<1>11. ASSUME NEW t \in Turns, NEW answer \in Answers, ResumeAnswer(t, answer) PROVE TypeOK'
    BY <1>11 DEF ResumeAnswer, AcceptAnswer
<1>12. ASSUME NEW t \in Turns, StartSafeTurn(t) PROVE TypeOK'
    BY <1>12 DEF StartSafeTurn, Activate
<1>13. ASSUME NEW t \in Turns, NEW limit \in {"none", "ahead"}, Register(t, limit) PROVE TypeOK'
    BY <1>13 DEF Register
<1>14. ASSUME NEW t \in Turns, InstallSafeControl(t) PROVE TypeOK'
    BY <1>14 DEF InstallSafeControl, NewSafeControl
<1>15. ASSUME NEW t \in Turns, NEW w \in Polls, NextToolBatch(t, w) PROVE TypeOK'
    BY <1>15 DEF NextToolBatch, TakeOrWait, TakeQueued
<1>16. ASSUME NEW t \in Turns, NEW w \in Polls, WaitForSafeStart(t, w) PROVE TypeOK'
    BY <1>16 DEF WaitForSafeStart
<1>17. ASSUME NEW t \in Turns, NEW w \in Polls, ResumePoll(t, w) PROVE TypeOK'
    BY <1>17 DEF ResumePoll, TakeOrWait, TakeQueued
<1>18. ASSUME NEW t \in Turns, NEW w \in Polls, AbortPoll(t, w) PROVE TypeOK'
    BY <1>18 DEF AbortPoll
<1>19. ASSUME NEW t \in Turns, NEW c \in Calls, CompleteTool(t, c) PROVE TypeOK'
    BY <1>19 DEF CompleteTool, Settle
<1>20. ASSUME NEW t \in Turns, RequestCompaction(t) PROVE TypeOK'
  <2> DEFINE interrupted == queuedCallIds[t] \cap invocations[t]
  <2>1. interrupted \subseteq Calls /\ Cardinality(interrupted) \in Nat
    BY CallsAssumption, FS_Subset, FS_CardinalityType
  <2> QED
    BY <1>20, <2>1 DEF RequestCompaction, Settle, CountInterrupted
<1>21. ASSUME NEW t \in Turns, NEW revision \in 0..activityRevision[t], CommitCompletionFence(t, revision) PROVE TypeOK'
    BY <1>21 DEF CommitCompletionFence
<1>22. ASSUME NEW t \in Turns, ConfirmSafeTurnSent(t) PROVE TypeOK'
    BY <1>22 DEF ConfirmSafeTurnSent, ResolveSentWaiters, Activate
<1>23. ASSUME NEW t \in Turns, PassDeadline(t) PROVE TypeOK'
    BY <1>23 DEF PassDeadline
<1>24. ASSUME NEW t \in Turns, BatchTimerFires(t) PROVE TypeOK'
    BY <1>24 DEF BatchTimerFires, TakeQueued
<1>25. ASSUME NEW t \in Turns, Revoke(t) PROVE TypeOK'
    BY <1>25, RevokedType DEF Revoke
<1>26. CASE Prune
    BY <1>26, RevokedType DEF Prune, Overdue
<1>27. CASE Close
    BY <1>27, RevokedType DEF Close
<1>28. CASE UNCHANGED vars
    BY <1>28 DEF vars
<1> QED
    BY <1>1, <1>2, <1>3, <1>4, <1>5, <1>6, <1>7, <1>8, <1>9, <1>10, <1>11, <1>12, <1>13, <1>14, <1>15, <1>16, <1>17, <1>18, <1>19, <1>20, <1>21, <1>22, <1>23, <1>24, <1>25, <1>26, <1>27, <1>28
    DEF Next, McpStep, OwnerStep, BrokerStep

(* The broker's state is always well typed: a counter never goes below      *)
(* zero, and the sets of a channel hold what they are for.                  *)
THEOREM TypeCorrect == Spec => []TypeOK
<1>1. Init => TypeOK
    BY TypeInit
<1>2. TypeOK /\ [Next]_vars => TypeOK'
    BY TypeStep
<1> QED
    BY <1>1, <1>2, PTL DEF Spec

-------------------------------------------------------------------------------
(* The books of the tool calls *)

(* A step that leaves the calls alone and retires no turn. *)
CallsKept ==
    /\ UNCHANGED <<queuedCallIds, deliveredCallIds, invocations, outcome>>
    /\ \A t \in Turns : Open(t) => Open(t)'

(* A step that hands out the queue of t. *)
BatchTaken(t) == TakeQueued(t) /\ UNCHANGED <<phase, invocations, outcome>>

(* What a step may do to the calls. *)
CallCases ==
    \/ CallsKept
    \/ \E t \in Turns : BatchTaken(t) \/ RequestCompaction(t)
    \/ \E t \in Turns, c \in Calls : Invoke(t, c) \/ InterceptInvoke(t, c) \/ CompleteTool(t, c)
    \/ \E T \in SUBSET Turns : Revoked(T)

LEMMA CallStepCases == TypeOK /\ [Next]_vars => CallCases
<1> SUFFICES ASSUME TypeOK, [Next]_vars PROVE CallCases
    OBVIOUS
<1> USE DEF CallsKept, BatchTaken, Open, lifeVars, callVars
<1>1. ASSUME NEW t \in Turns, NEW a \in Activities, Claim(t, a) PROVE CallsKept
    BY <1>1 DEF Claim, Admit, lifeVars
<1>2. ASSUME NEW t \in Turns, NEW a \in Activities, HoldClaim(t, a) PROVE CallsKept
    BY <1>2 DEF HoldClaim
<1>3. ASSUME NEW t \in Turns, NEW a \in Activities, AbandonClaim(t, a) PROVE CallsKept
    BY <1>3 DEF AbandonClaim
<1>4. ASSUME NEW t \in Turns, NEW a \in Activities, ResumeClaim(t, a) PROVE CallsKept
    BY <1>4 DEF ResumeClaim, Admit
<1>5. ASSUME NEW t \in Turns, NEW a \in Activities, RefuseClaim(t, a) PROVE CallsKept
    BY <1>5 DEF RefuseClaim
<1>6. ASSUME NEW t \in Turns, NEW a \in Activities, CompleteActivity(t, a) PROVE CallsKept
    BY <1>6 DEF CompleteActivity
<1>7. ASSUME NEW t \in Turns, NEW answer \in Answers, CompleteSafeTurn(t, answer) PROVE CallsKept
    BY <1>7 DEF CompleteSafeTurn, AcceptAnswer
<1>8. ASSUME NEW t \in Turns, NEW answer \in Answers, HoldAnswer(t, answer) PROVE CallsKept
    BY <1>8 DEF HoldAnswer
<1>9. ASSUME NEW t \in Turns, NEW answer \in Answers, ResumeAnswer(t, answer) PROVE CallsKept
    BY <1>9 DEF ResumeAnswer, AcceptAnswer
<1>10. ASSUME NEW t \in Turns, StartSafeTurn(t) PROVE CallsKept
    BY <1>10 DEF StartSafeTurn
<1>11. ASSUME NEW t \in Turns, NEW limit \in {"none", "ahead"}, Register(t, limit) PROVE CallsKept
    BY <1>11 DEF Register
<1>12. ASSUME NEW t \in Turns, InstallSafeControl(t) PROVE CallsKept
    BY <1>12 DEF InstallSafeControl, NewSafeControl
<1>13. ASSUME NEW t \in Turns, NEW w \in Polls, WaitForSafeStart(t, w) PROVE CallsKept
    BY <1>13 DEF WaitForSafeStart
<1>14. ASSUME NEW t \in Turns, NEW w \in Polls, AbortPoll(t, w) PROVE CallsKept
    BY <1>14 DEF AbortPoll
<1>15. ASSUME NEW t \in Turns, NEW revision \in 0..activityRevision[t], CommitCompletionFence(t, revision) PROVE CallsKept
    BY <1>15 DEF CommitCompletionFence
<1>16. ASSUME NEW t \in Turns, ConfirmSafeTurnSent(t) PROVE CallsKept
    BY <1>16 DEF ConfirmSafeTurnSent
<1>17. ASSUME NEW t \in Turns, PassDeadline(t) PROVE CallsKept
    BY <1>17 DEF PassDeadline
<1>18. ASSUME NEW t \in Turns, NEW w \in Polls, NextToolBatch(t, w) PROVE CallsKept \/ BatchTaken(t)
    BY <1>18 DEF NextToolBatch, TakeOrWait
<1>19. ASSUME NEW t \in Turns, NEW w \in Polls, ResumePoll(t, w) PROVE CallsKept \/ BatchTaken(t)
    BY <1>19 DEF ResumePoll, TakeOrWait
<1>20. ASSUME NEW t \in Turns, BatchTimerFires(t) PROVE CallsKept \/ BatchTaken(t)
    BY <1>20 DEF BatchTimerFires
<1>21. ASSUME NEW t \in Turns, Revoke(t) PROVE CallCases
    BY <1>21 DEF Revoke, CallCases
<1>22. CASE Prune
    BY <1>22 DEF Prune, Overdue, CallCases
<1>23. CASE Close
    BY <1>23 DEF Close, CallCases
<1>24. CASE UNCHANGED vars
    BY <1>24 DEF vars, CallCases
<1> HIDE DEF CallsKept, BatchTaken, Open, lifeVars, callVars
<1> QED
    BY <1>1, <1>2, <1>3, <1>4, <1>5, <1>6, <1>7, <1>8, <1>9, <1>10, <1>11, <1>12, <1>13, <1>14, <1>15, <1>16, <1>17, <1>18, <1>19, <1>20, <1>21, <1>22, <1>23, <1>24
    DEF CallCases, Next, McpStep, OwnerStep, BrokerStep

LEMMA CallsInit == Init => CallsAccounted
BY DEF Init, CallsAccounted

LEMMA CallsStep == TypeOK /\ CallsAccounted /\ [Next]_vars => CallsAccounted'
<1> SUFFICES ASSUME TypeOK, CallsAccounted, [Next]_vars PROVE CallsAccounted'
    OBVIOUS
<1> USE DEF CallsAccounted, TypeOK, Open
<1>1. CASE CallsKept
    BY <1>1 DEF CallsKept
<1>2. ASSUME NEW t \in Turns, BatchTaken(t) PROVE CallsAccounted'
    BY <1>2 DEF BatchTaken, TakeQueued
<1>3. ASSUME NEW t \in Turns, RequestCompaction(t) PROVE CallsAccounted'
    BY <1>3 DEF RequestCompaction, Settle, lifeVars
<1>4. ASSUME NEW t \in Turns, NEW c \in Calls, Invoke(t, c) PROVE CallsAccounted'
    BY <1>4 DEF Invoke, Callable, Serving, Known, UnusedCalls, Enqueue, lifeVars
<1>5. ASSUME NEW t \in Turns, NEW c \in Calls, InterceptInvoke(t, c) PROVE CallsAccounted'
    BY <1>5 DEF InterceptInvoke, Callable, UnusedCalls, lifeVars
<1>6. ASSUME NEW t \in Turns, NEW c \in Calls, CompleteTool(t, c) PROVE CallsAccounted'
    BY <1>6 DEF CompleteTool, Settle, lifeVars
<1>7. ASSUME NEW T \in SUBSET Turns, Revoked(T) PROVE CallsAccounted'
    BY <1>7 DEF Revoked, Emptied
<1> QED
    BY <1>1, <1>2, <1>3, <1>4, <1>5, <1>6, <1>7, CallStepCases DEF CallCases

(* No order of invoke, delivery, completion, compaction and revocation      *)
(* loses a tool call's promise or answers it from two channels.             *)
THEOREM CallsAreAccounted == Spec => []CallsAccounted
<1>1. Init => TypeOK /\ CallsAccounted
    BY TypeInit, CallsInit
<1>2. TypeOK /\ CallsAccounted /\ [Next]_vars => (TypeOK /\ CallsAccounted)'
    BY TypeStep, CallsStep
<1> QED
    BY <1>1, <1>2, PTL DEF Spec

(* A tool call is answered once: what has been answered is in no channel's  *)
(* books, and only calls in the books, or unused ones, are answered.        *)
THEOREM CallsSettleOnce == Spec => SettledOnce
<1> DEFINE Answered(c) == outcome[c] \notin {"unused", "pending"}
           Once == \A c \in Calls : Answered(c) => outcome'[c] = outcome[c]
<1>1. ASSUME TypeOK, CallsAccounted, [Next]_vars PROVE Once
  <2> USE <1>1 DEF CallsAccounted, TypeOK
  <2>1. CASE CallsKept
    BY <2>1 DEF CallsKept
  <2>2. ASSUME NEW t \in Turns, BatchTaken(t) PROVE Once
    BY <2>2 DEF BatchTaken
  <2>3. ASSUME NEW t \in Turns, RequestCompaction(t) PROVE Once
    BY <2>3 DEF RequestCompaction, Settle
  <2>4. ASSUME NEW t \in Turns, NEW c \in Calls, Invoke(t, c) PROVE Once
    BY <2>4 DEF Invoke, Callable, UnusedCalls, Enqueue
  <2>5. ASSUME NEW t \in Turns, NEW c \in Calls, InterceptInvoke(t, c) PROVE Once
    BY <2>5 DEF InterceptInvoke, Callable, UnusedCalls
  <2>6. ASSUME NEW t \in Turns, NEW c \in Calls, CompleteTool(t, c) PROVE Once
    BY <2>6 DEF CompleteTool, Settle
  <2>7. ASSUME NEW T \in SUBSET Turns, Revoked(T) PROVE Once
    BY <2>7 DEF Revoked
  <2> QED
    BY <2>1, <2>2, <2>3, <2>4, <2>5, <2>6, <2>7, CallStepCases DEF CallCases
<1>2. TypeOK /\ CallsAccounted /\ [Next]_vars => [Once]_vars
    BY <1>1
<1> QED
    BY <1>2, TypeCorrect, CallsAreAccounted, PTL DEF Spec, SettledOnce

-------------------------------------------------------------------------------
(* Settled requests and the completion of a turn *)

(* The three facts about the activities of a turn are proved together: each *)
(* is inductive, and the same few actions disturb them.                     *)
ActivitiesSound == TombstonesHold /\ CommittedIsQuiet /\ SafeCompletedIsQuiet

LEMMA ActivitiesInit == Init => ActivitiesSound
BY DEF Init, ActivitiesSound, TombstonesHold, CommittedIsQuiet, SafeCompletedIsQuiet

LEMMA RevokedActivities ==
    ASSUME NEW T \in SUBSET Turns, TypeOK, ActivitiesSound, Revoked(T)
    PROVE  ActivitiesSound'
BY DEF TypeOK, ActivitiesSound, TombstonesHold, CommittedIsQuiet, SafeCompletedIsQuiet,
       Revoked, Emptied, activityVars, fenceVars

(* The end of a claim: the request is not settled, and the turn is neither  *)
(* committed nor completed.                                                 *)
LEMMA AdmitActivities ==
    ASSUME NEW t \in Turns, NEW a \in Activities, TypeOK, ActivitiesSound,
           Admit(t, a), TakesClaims(t), HarnessRunning(t)
    PROVE  ActivitiesSound'
BY DEF TypeOK, ActivitiesSound, TombstonesHold, CommittedIsQuiet, SafeCompletedIsQuiet,
       Admit, Tombstoned, TakesClaims, HarnessRunning, fenceVars, callVars, safeVars

LEMMA ActivitiesStep == TypeOK /\ ActivitiesSound /\ [Next]_vars => ActivitiesSound'
<1> SUFFICES ASSUME TypeOK, ActivitiesSound, [Next]_vars PROVE ActivitiesSound'
    OBVIOUS
<1>1. ASSUME NEW t \in Turns, NEW a \in Activities, Claim(t, a) PROVE ActivitiesSound'
    BY <1>1, AdmitActivities DEF Claim, HarnessUncompacted
<1>2. ASSUME NEW t \in Turns, NEW a \in Activities, ResumeClaim(t, a) PROVE ActivitiesSound'
    BY <1>2, AdmitActivities DEF ResumeClaim, HarnessUncompacted
<1> USE DEF TypeOK, ActivitiesSound, TombstonesHold, CommittedIsQuiet, SafeCompletedIsQuiet,
            lifeVars, activityVars, fenceVars, callVars, compactVars, pollVars, safeVars, heldVars
<1>3. ASSUME NEW t \in Turns, NEW a \in Activities, HoldClaim(t, a) PROVE ActivitiesSound'
    BY <1>3 DEF HoldClaim
<1>4. ASSUME NEW t \in Turns, NEW a \in Activities, AbandonClaim(t, a) PROVE ActivitiesSound'
    BY <1>4 DEF AbandonClaim
<1>5. ASSUME NEW t \in Turns, NEW a \in Activities, RefuseClaim(t, a) PROVE ActivitiesSound'
    BY <1>5 DEF RefuseClaim
<1>6. ASSUME NEW t \in Turns, NEW a \in Activities, CompleteActivity(t, a) PROVE ActivitiesSound'
    BY <1>6 DEF CompleteActivity, Tombstone
<1>7. ASSUME NEW t \in Turns, NEW c \in Calls, Invoke(t, c) PROVE ActivitiesSound'
    BY <1>7 DEF Invoke, Callable, HarnessUncompacted, HarnessRunning, Enqueue
<1>8. ASSUME NEW t \in Turns, NEW c \in Calls, InterceptInvoke(t, c) PROVE ActivitiesSound'
    BY <1>8 DEF InterceptInvoke
<1>9. ASSUME NEW t \in Turns, NEW answer \in Answers, CompleteSafeTurn(t, answer) PROVE ActivitiesSound'
    BY <1>9 DEF CompleteSafeTurn, AcceptAnswer, MayAnswer, Quiet
<1>10. ASSUME NEW t \in Turns, NEW answer \in Answers, HoldAnswer(t, answer) PROVE ActivitiesSound'
    BY <1>10 DEF HoldAnswer
<1>11. ASSUME NEW t \in Turns, NEW answer \in Answers, ResumeAnswer(t, answer) PROVE ActivitiesSound'
    BY <1>11 DEF ResumeAnswer, AcceptAnswer, MayAnswer, Quiet
<1>12. ASSUME NEW t \in Turns, StartSafeTurn(t) PROVE ActivitiesSound'
    BY <1>12 DEF StartSafeTurn, Activate
<1>13. ASSUME NEW t \in Turns, NEW limit \in {"none", "ahead"}, Register(t, limit) PROVE ActivitiesSound'
    BY <1>13 DEF Register
<1>14. ASSUME NEW t \in Turns, InstallSafeControl(t) PROVE ActivitiesSound'
    BY <1>14 DEF InstallSafeControl, NewSafeControl
<1>15. ASSUME NEW t \in Turns, NEW w \in Polls, NextToolBatch(t, w) PROVE ActivitiesSound'
    BY <1>15 DEF NextToolBatch, TakeOrWait, TakeQueued
<1>16. ASSUME NEW t \in Turns, NEW w \in Polls, WaitForSafeStart(t, w) PROVE ActivitiesSound'
    BY <1>16 DEF WaitForSafeStart
<1>17. ASSUME NEW t \in Turns, NEW w \in Polls, ResumePoll(t, w) PROVE ActivitiesSound'
    BY <1>17 DEF ResumePoll, TakeOrWait, TakeQueued
<1>18. ASSUME NEW t \in Turns, NEW w \in Polls, AbortPoll(t, w) PROVE ActivitiesSound'
    BY <1>18 DEF AbortPoll
<1>19. ASSUME NEW t \in Turns, NEW c \in Calls, CompleteTool(t, c) PROVE ActivitiesSound'
    BY <1>19 DEF CompleteTool, Settle
<1>20. ASSUME NEW t \in Turns, RequestCompaction(t) PROVE ActivitiesSound'
    BY <1>20 DEF RequestCompaction, Settle
<1>21. ASSUME NEW t \in Turns, NEW revision \in 0..activityRevision[t], CommitCompletionFence(t, revision) PROVE ActivitiesSound'
    BY <1>21 DEF CommitCompletionFence, Quiet
<1>22. ASSUME NEW t \in Turns, ConfirmSafeTurnSent(t) PROVE ActivitiesSound'
    BY <1>22 DEF ConfirmSafeTurnSent, Activate
<1>23. ASSUME NEW t \in Turns, PassDeadline(t) PROVE ActivitiesSound'
    BY <1>23 DEF PassDeadline
<1>24. ASSUME NEW t \in Turns, BatchTimerFires(t) PROVE ActivitiesSound'
    BY <1>24 DEF BatchTimerFires
<1>25. ASSUME NEW t \in Turns, Revoke(t) PROVE ActivitiesSound'
    BY <1>25, RevokedActivities DEF Revoke
<1>26. CASE Prune
    BY <1>26, RevokedActivities DEF Prune, Overdue
<1>27. CASE Close
    BY <1>27, RevokedActivities DEF Close
<1>28. CASE UNCHANGED vars
    BY <1>28 DEF vars
<1> QED
    BY <1>1, <1>2, <1>3, <1>4, <1>5, <1>6, <1>7, <1>8, <1>9, <1>10, <1>11, <1>12, <1>13, <1>14, <1>15, <1>16, <1>17, <1>18, <1>19, <1>20, <1>21, <1>22, <1>23, <1>24, <1>25, <1>26, <1>27, <1>28
    DEF Next, McpStep, OwnerStep, BrokerStep

LEMMA ActivitiesAreSound == Spec => []ActivitiesSound
BY TypeCorrect, ActivitiesInit, ActivitiesStep, PTL DEF Spec

(* A settled MCP request is never active again, in whatever order its       *)
(* claim, its settling and the user's Sent arrive.                          *)
THEOREM TombstonesAreKept == Spec => []TombstonesHold
BY ActivitiesAreSound, PTL DEF ActivitiesSound

(* A turn that its fence has committed has no active request, and a Zero    *)
(* Risk turn that its answer has completed has neither an active request    *)
(* nor a pending call, and has that answer.                                 *)
THEOREM ClosedStaysQuiet == Spec => []ClosedIsQuiet
BY ActivitiesAreSound, PTL DEF ActivitiesSound, ClosedIsQuiet

-------------------------------------------------------------------------------
(* A turn that has ended *)

(* What makes the end of a turn final: a retired turn has no poll and a     *)
(* Zero Risk control that is revoked, and an answer is only there when the  *)
(* control no longer accepts one.                                           *)
EndsSound ==
    \A t \in Turns :
        /\ phase[t] = "retired" => waiters[t] = {} /\ safeState[t] \in {"none", "revoked"}
        /\ finalAnswer[t] # NoAnswer => safeState[t] \in {"completed", "revoked"}

(* What EndedIsFinal says of one step. *)
EndsKept ==
    \A t \in Turns :
        /\ finalAnswer[t] # NoAnswer => finalAnswer'[t] = finalAnswer[t]
        /\ phase[t] = "retired" =>
              /\ phase'[t] = "retired" /\ bound'[t] = bound[t]
              /\ activities'[t] = activities[t] /\ invocations'[t] = invocations[t]
              /\ waiters'[t] = waiters[t] /\ finalAnswer'[t] = finalAnswer[t]
              /\ safeState'[t] = safeState[t]

LEMMA EndsInit == Init => EndsSound
BY DEF Init, EndsSound

LEMMA RevokedEnds ==
    ASSUME NEW T \in SUBSET Turns, \A t \in T : Open(t), TypeOK, EndsSound, Revoked(T)
    PROVE  EndsSound' /\ EndsKept
BY DEF TypeOK, EndsSound, EndsKept, Open, Revoked, Emptied, RejectPolls, RejectHeld, activityVars

LEMMA EndsStep == TypeOK /\ EndsSound /\ [Next]_vars => EndsSound' /\ EndsKept
<1> SUFFICES ASSUME TypeOK, EndsSound, [Next]_vars PROVE EndsSound' /\ EndsKept
    OBVIOUS
<1> USE DEF TypeOK, EndsSound, EndsKept, Open, lifeVars, activityVars, fenceVars, callVars,
            compactVars, pollVars, safeVars, heldVars
<1>1. ASSUME NEW t \in Turns, NEW a \in Activities, Claim(t, a) PROVE EndsSound' /\ EndsKept
    BY <1>1 DEF Claim, Admit, TakesClaims
<1>2. ASSUME NEW t \in Turns, NEW a \in Activities, ResumeClaim(t, a) PROVE EndsSound' /\ EndsKept
    BY <1>2 DEF ResumeClaim, Admit, TakesClaims
<1>3. ASSUME NEW t \in Turns, NEW a \in Activities, HoldClaim(t, a) PROVE EndsSound' /\ EndsKept
    BY <1>3 DEF HoldClaim
<1>4. ASSUME NEW t \in Turns, NEW a \in Activities, AbandonClaim(t, a) PROVE EndsSound' /\ EndsKept
    BY <1>4 DEF AbandonClaim
<1>5. ASSUME NEW t \in Turns, NEW a \in Activities, RefuseClaim(t, a) PROVE EndsSound' /\ EndsKept
    BY <1>5 DEF RefuseClaim
<1>6. ASSUME NEW t \in Turns, NEW a \in Activities, CompleteActivity(t, a) PROVE EndsSound' /\ EndsKept
    BY <1>6 DEF CompleteActivity, Serving, Known
<1>7. ASSUME NEW t \in Turns, NEW c \in Calls, Invoke(t, c) PROVE EndsSound' /\ EndsKept
    BY <1>7 DEF Invoke, Callable, Serving, Known, Enqueue
<1>8. ASSUME NEW t \in Turns, NEW c \in Calls, InterceptInvoke(t, c) PROVE EndsSound' /\ EndsKept
    BY <1>8 DEF InterceptInvoke
<1>9. ASSUME NEW t \in Turns, NEW answer \in Answers, CompleteSafeTurn(t, answer) PROVE EndsSound' /\ EndsKept
    BY <1>9 DEF CompleteSafeTurn, AcceptAnswer, MayAnswer
<1>10. ASSUME NEW t \in Turns, NEW answer \in Answers, HoldAnswer(t, answer) PROVE EndsSound' /\ EndsKept
    BY <1>10 DEF HoldAnswer
<1>11. ASSUME NEW t \in Turns, NEW answer \in Answers, ResumeAnswer(t, answer) PROVE EndsSound' /\ EndsKept
    BY <1>11 DEF ResumeAnswer, AcceptAnswer, MayAnswer
<1>12. ASSUME NEW t \in Turns, StartSafeTurn(t) PROVE EndsSound' /\ EndsKept
    BY <1>12 DEF StartSafeTurn, Activate, Serving, Known
<1>13. ASSUME NEW t \in Turns, NEW limit \in {"none", "ahead"}, Register(t, limit) PROVE EndsSound' /\ EndsKept
    BY <1>13 DEF Register
<1>14. ASSUME NEW t \in Turns, InstallSafeControl(t) PROVE EndsSound' /\ EndsKept
    BY <1>14 DEF InstallSafeControl, NewSafeControl
<1>15. ASSUME NEW t \in Turns, NEW w \in Polls, NextToolBatch(t, w) PROVE EndsSound' /\ EndsKept
    BY <1>15 DEF NextToolBatch, TakeOrWait, Serving, Known
<1>16. ASSUME NEW t \in Turns, NEW w \in Polls, WaitForSafeStart(t, w) PROVE EndsSound' /\ EndsKept
    BY <1>16 DEF WaitForSafeStart
<1>17. ASSUME NEW t \in Turns, NEW w \in Polls, ResumePoll(t, w) PROVE EndsSound' /\ EndsKept
    BY <1>17 DEF ResumePoll, TakeOrWait
<1>18. ASSUME NEW t \in Turns, NEW w \in Polls, AbortPoll(t, w) PROVE EndsSound' /\ EndsKept
    BY <1>18 DEF AbortPoll
<1>19. ASSUME NEW t \in Turns, NEW c \in Calls, CompleteTool(t, c) PROVE EndsSound' /\ EndsKept
    BY <1>19 DEF CompleteTool, Settle, Serving, Known
<1>20. ASSUME NEW t \in Turns, RequestCompaction(t) PROVE EndsSound' /\ EndsKept
    BY <1>20 DEF RequestCompaction, Settle, Serving, Known
<1>21. ASSUME NEW t \in Turns, NEW revision \in 0..activityRevision[t], CommitCompletionFence(t, revision) PROVE EndsSound' /\ EndsKept
    BY <1>21 DEF CommitCompletionFence
<1>22. ASSUME NEW t \in Turns, ConfirmSafeTurnSent(t) PROVE EndsSound' /\ EndsKept
    BY <1>22 DEF ConfirmSafeTurnSent, Activate, Serving, Known
<1>23. ASSUME NEW t \in Turns, PassDeadline(t) PROVE EndsSound' /\ EndsKept
    BY <1>23 DEF PassDeadline
<1>24. ASSUME NEW t \in Turns, BatchTimerFires(t) PROVE EndsSound' /\ EndsKept
    BY <1>24 DEF BatchTimerFires
<1>25. ASSUME NEW t \in Turns, Revoke(t) PROVE EndsSound' /\ EndsKept
    BY <1>25, RevokedEnds DEF Revoke
<1>26. CASE Prune
    BY <1>26, RevokedEnds DEF Prune, Overdue
<1>27. CASE Close
    BY <1>27, RevokedEnds DEF Close
<1>28. CASE UNCHANGED vars
    BY <1>28 DEF vars
<1> HIDE DEF EndsSound, EndsKept
<1> QED
    BY <1>1, <1>2, <1>3, <1>4, <1>5, <1>6, <1>7, <1>8, <1>9, <1>10, <1>11, <1>12, <1>13, <1>14, <1>15, <1>16, <1>17, <1>18, <1>19, <1>20, <1>21, <1>22, <1>23, <1>24, <1>25, <1>26, <1>27, <1>28
    DEF Next, McpStep, OwnerStep, BrokerStep

(* No step changes a turn after revoke(), and an accepted answer stays.     *)
THEOREM EndsAreFinal == Spec => EndedIsFinal
<1>1. Init => TypeOK /\ EndsSound
    BY TypeInit, EndsInit
<1>2. TypeOK /\ EndsSound /\ [Next]_vars => (TypeOK /\ EndsSound)'
    BY TypeStep, EndsStep
<1>3. TypeOK /\ EndsSound /\ [Next]_vars => [EndsKept]_vars
    BY EndsStep
<1> QED
    BY <1>1, <1>2, <1>3, PTL DEF Spec, EndedIsFinal, EndsKept
-------------------------------------------------------------------------------
(* The two ends of a Zero Risk turn, and what waits for them *)

(* A turn has a control only if it is a Zero Risk turn that was registered; *)
(* nothing has been said to, or waits for, a control that is not there, and *)
(* a turn starts with the second of its two ends.                           *)
ControlsSound ==
    \A t \in Turns :
        /\ safeState[t] # "none" => t \in SafeTurns /\ phase[t] # "unregistered"
        /\ safeState[t] = "none" =>
             /\ ~launcherSent[t] /\ ~connectorStarted[t]
             /\ heldClaims[t] = {} /\ resumedClaims[t] = {}
        /\ safeState[t] = "awaiting_start" => ~(launcherSent[t] /\ connectorStarted[t])

(* Who waits for Sent or start depends on who has spoken, and the other way *)
(* round, so the two are proved together.                                   *)
SafeSound == ControlsSound /\ SafeAuthorised /\ WaitersHaveAFuture

LEMMA SafeInit == Init => SafeSound
BY SafeTurnsAssumption DEF Init, SafeSound, ControlsSound, SafeAuthorised, WaitersHaveAFuture, Open

LEMMA RevokedSafe ==
    ASSUME NEW T \in SUBSET Turns, \A t \in T : Open(t), TypeOK, SafeSound, Revoked(T)
    PROVE  SafeSound'
<1> USE DEF TypeOK, Open, Revoked, Emptied, RejectPolls, RejectHeld, activityVars, compactVars
<1>1. ControlsSound'
    BY DEF SafeSound, ControlsSound
<1>2. SafeAuthorised'
    BY SafeTurnsAssumption DEF SafeSound, ControlsSound, SafeAuthorised
<1>3. WaitersHaveAFuture'
    BY DEF SafeSound, WaitersHaveAFuture
<1> QED
    BY <1>1, <1>2, <1>3 DEF SafeSound

LEMMA SafeStep == TypeOK /\ SafeSound /\ [Next]_vars => SafeSound'
<1> SUFFICES ASSUME TypeOK, SafeSound, [Next]_vars PROVE SafeSound'
    OBVIOUS
<1> USE DEF TypeOK, SafeSound, ControlsSound, SafeAuthorised, WaitersHaveAFuture, Open, lifeVars,
            activityVars, fenceVars, callVars, compactVars, pollVars, safeVars, heldVars
<1>1. ASSUME NEW t \in Turns, NEW a \in Activities, Claim(t, a) PROVE SafeSound'
    BY <1>1 DEF Claim, Admit, TakesClaims, HarnessUncompacted, HarnessRunning, Serving, Known
<1>2. ASSUME NEW t \in Turns, NEW a \in Activities, ResumeClaim(t, a) PROVE SafeSound'
    BY <1>2 DEF ResumeClaim, Admit, TakesClaims, HarnessUncompacted, HarnessRunning
<1>3. ASSUME NEW t \in Turns, NEW a \in Activities, HoldClaim(t, a) PROVE SafeSound'
    BY <1>3 DEF HoldClaim, Serving, Known
<1>4. ASSUME NEW t \in Turns, NEW a \in Activities, AbandonClaim(t, a) PROVE SafeSound'
    BY <1>4 DEF AbandonClaim
<1>5. ASSUME NEW t \in Turns, NEW a \in Activities, RefuseClaim(t, a) PROVE SafeSound'
    BY <1>5 DEF RefuseClaim
<1>6. ASSUME NEW t \in Turns, NEW a \in Activities, CompleteActivity(t, a) PROVE SafeSound'
    BY <1>6 DEF CompleteActivity, Serving, Known
<1>7. ASSUME NEW t \in Turns, NEW c \in Calls, Invoke(t, c) PROVE SafeSound'
    BY <1>7 DEF Invoke, Callable, Serving, Known, Enqueue, ScheduleToolWaiters
<1>8. ASSUME NEW t \in Turns, NEW c \in Calls, InterceptInvoke(t, c) PROVE SafeSound'
    BY <1>8 DEF InterceptInvoke, Callable
<1>9. ASSUME NEW t \in Turns, NEW answer \in Answers, CompleteSafeTurn(t, answer) PROVE SafeSound'
    BY <1>9 DEF CompleteSafeTurn, AcceptAnswer, MayAnswer
<1>10. ASSUME NEW t \in Turns, NEW answer \in Answers, HoldAnswer(t, answer) PROVE SafeSound'
    BY <1>10 DEF HoldAnswer, Serving, Known
<1>11. ASSUME NEW t \in Turns, NEW answer \in Answers, ResumeAnswer(t, answer) PROVE SafeSound'
  <2> USE <1>11 DEF ResumeAnswer, AcceptAnswer, MayAnswer
  <2>1. ControlsSound'
    OBVIOUS
  <2>2. SafeAuthorised'
    BY SafeTurnsAssumption
  <2>3. WaitersHaveAFuture'
    BY SafeTurnsAssumption
  <2> QED
    BY <2>1, <2>2, <2>3
<1>12. ASSUME NEW t \in Turns, StartSafeTurn(t) PROVE SafeSound'
  <2> USE <1>12 DEF StartSafeTurn, Activate, BothEndsSpoke, Serving, Known
  <2>1. ControlsSound'
    OBVIOUS
  <2>2. SafeAuthorised'
    BY SafeTurnsAssumption
  <2>3. WaitersHaveAFuture'
    BY SafeTurnsAssumption
  <2> QED
    BY <2>1, <2>2, <2>3
<1>13. ASSUME NEW t \in Turns, NEW limit \in {"none", "ahead"}, Register(t, limit) PROVE SafeSound'
    BY <1>13 DEF Register
<1>14. ASSUME NEW t \in Turns, InstallSafeControl(t) PROVE SafeSound'
    BY <1>14 DEF InstallSafeControl, NewSafeControl
<1>15. ASSUME NEW t \in Turns, NEW w \in Polls, NextToolBatch(t, w) PROVE SafeSound'
    BY <1>15 DEF NextToolBatch, TakeOrWait, TakeQueued, Serving, Known
<1>16. ASSUME NEW t \in Turns, NEW w \in Polls, WaitForSafeStart(t, w) PROVE SafeSound'
  <2> USE <1>16 DEF WaitForSafeStart, Serving, Known
  <2>1. ControlsSound'
    OBVIOUS
  <2>2. SafeAuthorised'
    BY SafeTurnsAssumption
  <2>3. WaitersHaveAFuture'
    OBVIOUS
  <2> QED
    BY <2>1, <2>2, <2>3
<1>17. ASSUME NEW t \in Turns, NEW w \in Polls, ResumePoll(t, w) PROVE SafeSound'
  <2> USE <1>17 DEF ResumePoll, TakeOrWait, TakeQueued
  <2>1. ControlsSound'
    OBVIOUS
  <2>2. SafeAuthorised'
    BY SafeTurnsAssumption
  <2>3. WaitersHaveAFuture'
    OBVIOUS
  <2> QED
    BY <2>1, <2>2, <2>3
<1>18. ASSUME NEW t \in Turns, NEW w \in Polls, AbortPoll(t, w) PROVE SafeSound'
    BY <1>18 DEF AbortPoll
<1>19. ASSUME NEW t \in Turns, NEW c \in Calls, CompleteTool(t, c) PROVE SafeSound'
    BY <1>19 DEF CompleteTool, Settle, Serving, Known
<1>20. ASSUME NEW t \in Turns, RequestCompaction(t) PROVE SafeSound'
    BY <1>20 DEF RequestCompaction, Settle, Serving, Known
<1>21. ASSUME NEW t \in Turns, NEW revision \in 0..activityRevision[t], CommitCompletionFence(t, revision) PROVE SafeSound'
    BY <1>21 DEF CommitCompletionFence
<1>22. ASSUME NEW t \in Turns, ConfirmSafeTurnSent(t) PROVE SafeSound'
  <2> USE <1>22 DEF ConfirmSafeTurnSent, Activate, BothEndsSpoke, ResolveSentWaiters, Serving, Known
  <2>1. ControlsSound'
    OBVIOUS
  <2>2. SafeAuthorised'
    BY SafeTurnsAssumption
  <2>3. WaitersHaveAFuture'
    BY SafeTurnsAssumption
  <2> QED
    BY <2>1, <2>2, <2>3
<1>23. ASSUME NEW t \in Turns, PassDeadline(t) PROVE SafeSound'
    BY <1>23 DEF PassDeadline
<1>24. ASSUME NEW t \in Turns, BatchTimerFires(t) PROVE SafeSound'
    BY <1>24 DEF BatchTimerFires, TakeQueued
<1>25. ASSUME NEW t \in Turns, Revoke(t) PROVE SafeSound'
    BY <1>25, RevokedSafe DEF Revoke
<1>26. CASE Prune
    BY <1>26, RevokedSafe DEF Prune, Overdue
<1>27. CASE Close
    BY <1>27, RevokedSafe DEF Close
<1>28. CASE UNCHANGED vars
    BY <1>28 DEF vars
<1> HIDE DEF SafeSound
<1> QED
    BY <1>1, <1>2, <1>3, <1>4, <1>5, <1>6, <1>7, <1>8, <1>9, <1>10, <1>11, <1>12, <1>13, <1>14, <1>15, <1>16, <1>17, <1>18, <1>19, <1>20, <1>21, <1>22, <1>23, <1>24, <1>25, <1>26, <1>27, <1>28
    DEF Next, McpStep, OwnerStep, BrokerStep

LEMMA SafeIsSound == Spec => []SafeSound
BY TypeCorrect, SafeInit, SafeStep, PTL DEF Spec

(* A Zero Risk turn gives no access before both of its ends have spoken,    *)
(* and one that runs has no deadline left to expire.                        *)
THEOREM AccessIsAuthorised == Spec => []SafeAuthorised
BY SafeIsSound, PTL DEF SafeSound

(* No poll, claim or answer is left waiting on a turn that cannot wake it.  *)
THEOREM NobodyIsLeftWaiting == Spec => []WaitersHaveAFuture
BY SafeIsSound, PTL DEF SafeSound
===============================================================================
