------------------------------ MODULE TurnProofs ------------------------------
(***************************************************************************)
(* A native turn above the broker, for any number of turns, MCP requests,    *)
(* observers, rounds, tool calls and polls.  First the leases and the fence: *)
(* what TurnCompletion claims of them.  Then the rounds of TurnRound: what   *)
(* Codex works on stays owed by the broker, by the progress of the turn and  *)
(* by the browser, and it is handed out in order.  Both rest on what         *)
(* TurnBrokerProofs proves of the broker.                                    *)
(***************************************************************************)
EXTENDS MCTurnCompletion, TurnRound, TurnBrokerProofs

Registered(t) == phase[t] # "unregistered"
Answered(c)   == outcome[c] \notin {"unused", "pending"}

-------------------------------------------------------------------------------
(* The inductive invariant *)

(* A request has attempts to settle left whenever it goes on to settle.      *)
AttemptsSound ==
    \A a \in Activities :
        /\ mcp[a] \in {"idle", "claiming", "acting"} => attempts[a] = 0
        /\ mcp[a] = "settling" => attempts[a] < Attempts

(* The observer commits only what it began and read: an uncommitted turn's   *)
(* fence revision is never ahead, and if it is still the turn's revision and *)
(* nothing is active, no tool event came after the page was read.            *)
FenceSound ==
    \A t \in Turns :
        /\ completionCommitted[t] => observer[t] = "finished"
        /\ fenceRevision[t] # NoRevision => fenceRevision[t] <= activityRevision[t]
        /\ observer[t] = "read" /\ fenceRevision[t] = activityRevision[t] /\ activities[t] = {}
             => domFresh[t]

(* A handler and its lease: what is on the wire was sent before the handler  *)
(* came to where it stands, and what it has been told holds at the broker.   *)
HandlersSound ==
    \A a \in Activities :
        /\ mcp[a] # "idle" => Registered(turnOf[a])
        /\ a \in claimNet => mcp[a] \notin {"idle", "acting"}
        /\ settleNet[a] # {} => mcp[a] \notin {"idle", "claiming", "acting"}
        /\ mcp[a] = "done" => ~Open(turnOf[a]) \/ a \in completedActivities[turnOf[a]]
        /\ a \in activities[turnOf[a]] => mcp[a] \notin {"idle", "claiming"}
        /\ mcp[a] = "acting" /\ Open(turnOf[a]) =>
              a \in activities[turnOf[a]] /\ bound[turnOf[a]]

(* A tool call and its request: the request acts until the call has ended,   *)
(* and a call that has ended is answered, or its binding is gone.            *)
InvocationsSound ==
    \A c \in Calls :
        /\ invocation[c] = "idle" => c \notin invokeNet
        /\ invocation[c] \in {"sent", "releasing"} => mcp[requestOf[c]] = "acting"
        /\ invocation[c] # "idle" => Registered(TurnOfCall(c))
        /\ invocation[c] = "released" => ~Open(TurnOfCall(c))
        /\ invocation[c] = "answered" => Answered(c)
        /\ \A t \in Turns : c \in invocations[t] => t = TurnOfCall(c) /\ invocation[c] # "idle"

BrokerSound == TypeOK /\ CallsAccounted /\ ActivitiesSound

TurnSound ==
    /\ BrokerSound
    /\ TurnTypeOK
    /\ AttemptsSound
    /\ FenceSound
    /\ HandlersSound
    /\ InvocationsSound

(* Nothing has been sent or read when the server starts.                     *)
LEMMA TurnSoundInit == TurnInit => TurnSound
<1> SUFFICES ASSUME TurnInit PROVE TurnSound
    OBVIOUS
<1>1. BrokerSound
    BY TypeInit, CallsInit, ActivitiesInit DEF TurnInit, BrokerSound
<1>2. TurnTypeOK /\ AttemptsSound
    BY <1>1 DEF TurnInit, TurnTypeOK, AttemptsSound, McpStates, CallStates, BrokerSound, Attempts
<1>3. FenceSound
    BY DEF TurnInit, Init, FenceSound
<1>4. HandlersSound /\ InvocationsSound
    BY TurnOfAssumption, RequestOfAssumption DEF TurnInit, Init, HandlersSound, InvocationsSound
<1> QED
    BY <1>1, <1>2, <1>3, <1>4 DEF TurnSound

-------------------------------------------------------------------------------
(* The steps of the broker under those of its clients *)

(* Every step is one of the broker's, or leaves the broker alone.            *)
LEMMA BrokerSteps == TypeOK /\ [TurnNext]_turnVars => [Next]_vars
<1> SUFFICES ASSUME TypeOK, [TurnNext]_turnVars PROVE [Next]_vars
    OBVIOUS
<1> USE TurnOfAssumption, RequestOfAssumption
<1>1. ASSUME NEW a \in Activities, RequestStep(a) PROVE [Next]_vars
  <2>1. CASE DeliverClaim(a)
      BY <2>1 DEF DeliverClaim, Next, McpStep
  <2>2. ASSUME NEW k \in 1..Attempts, DeliverSettle(a, k) PROVE [Next]_vars
      BY <2>2 DEF DeliverSettle, Next, McpStep
  <2>3. ASSUME ~DeliverClaim(a), \A k \in 1..Attempts : ~DeliverSettle(a, k) PROVE UNCHANGED vars
      BY <1>1, <2>3 DEF RequestStep, ClaimReplies, SettleReplies, ReceiveRequest, RefuseRequest, LoseClaim,
         GiveUpClaim, ActionEnds, SendSettle, GiveUpSettle, DeliverIdleSettle, LoseSettle
  <2> QED
      BY <2>1, <2>2, <2>3
<1>2. ASSUME NEW c \in Calls, CallStep(c) PROVE [Next]_vars
  <2>1. TurnOfCall(c) \in Turns
      BY DEF TurnOfCall
  <2>2. CASE DeliverInvoke(c)
      BY <2>1, <2>2 DEF DeliverInvoke, Next, McpStep
  <2>3. CASE DeliverRelease(c)
      BY <2>1, <2>3 DEF DeliverRelease, Next, OwnerStep
  <2>4. ASSUME ~DeliverInvoke(c), ~DeliverRelease(c) PROVE UNCHANGED vars
      BY <1>2, <2>4 DEF CallStep, ReleaseReplies, SendInvoke, FailInvoke, ReceiveResult, AbandonInvoke,
         DeliverIdleRelease, LoseRelease, GiveUpRelease
  <2> QED
      BY <2>2, <2>3, <2>4
<1>3. ASSUME NEW t \in Turns, ObserverStep(t) PROVE [Next]_vars
  <2>1. CASE CommitFence(t)
    <3>1. CommitCompletionFence(t, activityRevision[t])
        BY <2>1 DEF CommitFence, CommitCompletionFence
    <3>2. activityRevision[t] \in 0..activityRevision[t]
        BY DEF TypeOK
    <3> QED
        BY <3>1, <3>2 DEF Next, OwnerStep
  <2>2. CASE ~CommitFence(t)
      BY <1>3, <2>2 DEF ObserverStep, ReadDom, LooksUnfinished, BeginFence, CommitFails
  <2> QED
      BY <2>1, <2>2
<1>4. ASSUME NEW t \in Turns, OwnerActs(t) PROVE [Next]_vars
    BY <1>4 DEF OwnerActs, Next, OwnerStep, BrokerStep
<1>5. CASE UNCHANGED turnVars
    BY <1>5 DEF turnVars
<1> QED
    BY <1>1, <1>2, <1>3, <1>4, <1>5 DEF TurnNext

(* So what TurnBrokerProofs shows of the broker's steps holds of these.      *)
LEMMA BrokerStays == BrokerSound /\ [TurnNext]_turnVars => BrokerSound'
BY BrokerSteps, TypeStep, CallsStep, ActivitiesStep DEF BrokerSound

(* What the owner, and the release of a binding, do not do: they start or    *)
(* end no request, bind or open no registered turn, and start no call.       *)
OwnerKeeps ==
    /\ UNCHANGED <<activityVars, completionCommitted>>
    /\ \A t \in Turns :
         /\ Registered(t) => Registered(t)'
         /\ Registered(t) /\ Open(t)' => Open(t) /\ bound'[t] = bound[t]
         /\ invocations'[t] \subseteq invocations[t]
    /\ \A c \in Calls : Answered(c) => Answered(c)'

(* A revocation only takes away.                                             *)
LEMMA RevokeKeeps ==
    ASSUME NEW t \in Turns, BrokerSound, Revoke(t)
    PROVE  OwnerKeeps
BY DEF BrokerSound, TypeOK, CallsAccounted, Revoke, Revoked, Emptied, OwnerKeeps, Registered, Open, Answered,
       activityVars, fenceVars

(* So does each of the other calls of the owner.                             *)
LEMMA OwnerActsKeeps ==
    ASSUME NEW t \in Turns, BrokerSound, OwnerActs(t)
    PROVE  OwnerKeeps
<1> USE DEF BrokerSound, TypeOK, OwnerKeeps, Registered, Open, Answered, lifeVars, activityVars, fenceVars,
            callVars
<1>1. CASE Register(t, "none")
    BY <1>1 DEF Register
<1>2. ASSUME NEW w \in Polls, NextToolBatch(t, w) PROVE OwnerKeeps
    BY <1>2 DEF NextToolBatch, TakeOrWait
<1>3. ASSUME NEW w \in Polls, AbortPoll(t, w) PROVE OwnerKeeps
    BY <1>3 DEF AbortPoll
<1>4. ASSUME NEW c \in Calls, CompleteTool(t, c) PROVE OwnerKeeps
    BY <1>4 DEF CompleteTool, Settle
<1>5. CASE RequestCompaction(t)
    BY <1>5 DEF RequestCompaction, Settle
<1>6. CASE Revoke(t)
    BY <1>6, RevokeKeeps
<1>7. CASE BatchTimerFires(t)
    BY <1>7 DEF BatchTimerFires
<1> QED
    BY <1>1, <1>2, <1>3, <1>4, <1>5, <1>6, <1>7 DEF OwnerActs

-------------------------------------------------------------------------------
(* Types and attempts *)

(* The type of what the clients keep.                                       *)
ClientTyped ==
    /\ mcp \in [Activities -> McpStates]
    /\ attempts \in [Activities -> 0..Attempts]
    /\ claimNet \in SUBSET Activities
    /\ settleNet \in [Activities -> SUBSET (1..Attempts)]
    /\ invocation \in [Calls -> CallStates]
    /\ invokeNet \in SUBSET Calls
    /\ releaseNet \in SUBSET Calls
    /\ observer \in [Turns -> {"waiting", "read", "finished"}]
    /\ fenceRevision \in [Turns -> Nat \cup {NoRevision}]
    /\ domFresh \in [Turns -> BOOLEAN]

(* No request is settled more than Attempts times.                           *)
LEMMA ClientTypeStep ==
    ASSUME TypeOK, ClientTyped, AttemptsSound, [TurnNext]_turnVars
    PROVE  ClientTyped' /\ AttemptsSound'
<1> USE TurnOfAssumption, RequestOfAssumption, NoRevisionAssumption
    DEF ClientTyped, AttemptsSound, Attempts, McpStates, CallStates, mcpVars, invokeVars, observerVars
<1>1. ASSUME NEW a \in Activities, RequestStep(a) PROVE ClientTyped' /\ AttemptsSound'
  <2>1. CASE ReceiveRequest(a)
      BY <2>1 DEF ReceiveRequest
  <2>2. CASE DeliverClaim(a)
      BY <2>2 DEF DeliverClaim, ClaimHandled, ToolEvent
  <2>3. CASE RefuseRequest(a)
      BY <2>3 DEF RefuseRequest, ClaimHandled
  <2>4. CASE LoseClaim(a)
      BY <2>4 DEF LoseClaim, ClaimHandled
  <2>5. CASE GiveUpClaim(a)
      BY <2>5 DEF GiveUpClaim
  <2>6. CASE ActionEnds(a)
      BY <2>6 DEF ActionEnds
  <2>7. CASE SendSettle(a)
    <3>1. attempts[a] + 1 \in 1..2
        BY <2>7 DEF SendSettle
    <3> QED
        BY <2>7, <3>1 DEF SendSettle
  <2>8. CASE GiveUpSettle(a)
      BY <2>8 DEF GiveUpSettle, AfterFailedSettle
  <2>9. ASSUME NEW k \in 1..Attempts, DeliverSettle(a, k) PROVE ClientTyped' /\ AttemptsSound'
      BY <2>9 DEF DeliverSettle, SettleHandled, ToolEvent
  <2>10. ASSUME NEW k \in 1..Attempts, DeliverIdleSettle(a, k) PROVE ClientTyped' /\ AttemptsSound'
      BY <2>10 DEF DeliverIdleSettle, SettleHandled
  <2>11. ASSUME NEW k \in 1..Attempts, LoseSettle(a, k) PROVE ClientTyped' /\ AttemptsSound'
      BY <2>11 DEF LoseSettle, SettleHandled, AfterFailedSettle
  <2> QED
      BY <1>1, <2>1, <2>2, <2>3, <2>4, <2>5, <2>6, <2>7, <2>8, <2>9, <2>10, <2>11
      DEF RequestStep, ClaimReplies, SettleReplies
<1>2. ASSUME NEW c \in Calls, CallStep(c) PROVE ClientTyped' /\ AttemptsSound'
    BY <1>2 DEF CallStep, SendInvoke, DeliverInvoke, FailInvoke, ReceiveResult, AbandonInvoke, Release,
       ReleaseReplies, ReleaseHandled, DeliverRelease, DeliverIdleRelease, LoseRelease, GiveUpRelease
<1>3. ASSUME NEW t \in Turns, ObserverStep(t) PROVE ClientTyped' /\ AttemptsSound'
  <2> USE DEF Observe
  <2>1. CASE ReadDom(t)
      BY <2>1 DEF ReadDom
  <2>2. CASE LooksUnfinished(t)
      BY <2>2 DEF LooksUnfinished
  <2>3. CASE BeginFence(t)
      BY <2>3 DEF BeginFence, FenceRevision, TypeOK
  <2>4. CASE CommitFence(t)
      BY <2>4 DEF CommitFence
  <2>5. CASE CommitFails(t)
      BY <2>5 DEF CommitFails
  <2> QED
      BY <1>3, <2>1, <2>2, <2>3, <2>4, <2>5 DEF ObserverStep
<1>4. ASSUME NEW t \in Turns, OwnerActs(t) PROVE ClientTyped' /\ AttemptsSound'
    BY <1>4 DEF OwnerActs
<1>5. CASE UNCHANGED turnVars
    BY <1>5 DEF turnVars
<1> QED
    BY <1>1, <1>2, <1>3, <1>4, <1>5 DEF TurnNext

(* The types of the broker and of its clients, together.                     *)
LEMMA TurnTypeStep ==
    TurnTypeOK /\ AttemptsSound /\ [TurnNext]_turnVars => TurnTypeOK' /\ AttemptsSound'
<1> SUFFICES ASSUME TurnTypeOK, AttemptsSound, [TurnNext]_turnVars
             PROVE  TurnTypeOK' /\ AttemptsSound'
    OBVIOUS
<1>1. TypeOK /\ ClientTyped
    BY DEF TurnTypeOK, ClientTyped
<1>2. TypeOK'
    BY <1>1, BrokerSteps, TypeStep
<1>3. ClientTyped' /\ AttemptsSound'
    BY <1>1, ClientTypeStep
<1> QED
    BY <1>2, <1>3 DEF TurnTypeOK, ClientTyped

-------------------------------------------------------------------------------
(* The fence *)

(* A tool event moves the revision on, or leaves a request active.           *)
LEMMA FenceStep ==
    ASSUME TurnSound, [TurnNext]_turnVars
    PROVE  FenceSound'
<1> USE TurnOfAssumption, RequestOfAssumption, NoRevisionAssumption
    DEF TurnSound, TurnTypeOK, TypeOK, FenceSound, mcpVars, invokeVars, observerVars,
        activityVars, fenceVars
<1>1. ASSUME UNCHANGED <<activityVars, completionCommitted, observerVars, domFresh>> PROVE FenceSound'
    BY <1>1
<1>2. ASSUME NEW a \in Activities, RequestStep(a) PROVE FenceSound'
  <2>1. CASE DeliverClaim(a)
      BY <2>1 DEF DeliverClaim, ClaimHandled, ToolEvent, Claim, Admit
  <2>2. ASSUME NEW k \in 1..Attempts, DeliverSettle(a, k) PROVE FenceSound'
      BY <2>2 DEF DeliverSettle, SettleHandled, ToolEvent, CompleteActivity, CountEnd
  <2>3. ASSUME ~DeliverClaim(a), \A k \in 1..Attempts : ~DeliverSettle(a, k)
        PROVE  UNCHANGED <<vars, observerVars, domFresh>>
      BY <1>2, <2>3 DEF RequestStep, ClaimReplies, SettleReplies, ReceiveRequest, RefuseRequest, LoseClaim,
         GiveUpClaim, ActionEnds, SendSettle, GiveUpSettle, DeliverIdleSettle, LoseSettle,
         ClaimHandled, SettleHandled
  <2> QED
      BY <1>1, <2>1, <2>2, <2>3 DEF vars
<1>3. ASSUME NEW c \in Calls, CallStep(c) PROVE FenceSound'
  <2>1. CASE DeliverRelease(c)
      BY <1>1, <2>1 DEF DeliverRelease, ReleaseHandled, Revoke, Revoked
  <2>2. CASE DeliverInvoke(c)
      BY <1>1, <2>2 DEF DeliverInvoke, Invoke, Enqueue, InterceptInvoke
  <2>3. ASSUME ~DeliverInvoke(c), ~DeliverRelease(c) PROVE UNCHANGED <<vars, observerVars, domFresh>>
      BY <1>3, <2>3 DEF CallStep, ReleaseReplies, ReleaseHandled, SendInvoke, FailInvoke, ReceiveResult,
         AbandonInvoke, DeliverIdleRelease, LoseRelease, GiveUpRelease
  <2> QED
      BY <1>1, <2>1, <2>2, <2>3 DEF vars
<1>4. ASSUME NEW t \in Turns, ObserverStep(t) PROVE FenceSound'
  <2>1. CASE ReadDom(t)
      BY <2>1 DEF ReadDom, Observe, vars
  <2>2. CASE LooksUnfinished(t)
      BY <2>2 DEF LooksUnfinished, Observe, vars
  <2>3. CASE BeginFence(t)
      BY <2>3 DEF BeginFence, Observe, FenceRevision, vars
  <2>4. CASE CommitFence(t)
      BY <2>4 DEF CommitFence, Observe, CommitCompletionFence
  <2>5. CASE CommitFails(t)
      BY <2>5 DEF CommitFails, Observe, vars
  <2> QED
      BY <1>4, <2>1, <2>2, <2>3, <2>4, <2>5 DEF ObserverStep
<1>5. ASSUME NEW t \in Turns, OwnerActs(t) PROVE FenceSound'
    BY <1>1, <1>5, OwnerActsKeeps DEF OwnerActs, OwnerKeeps
<1>6. CASE UNCHANGED turnVars
    BY <1>1, <1>6 DEF turnVars, vars
<1> QED
    BY <1>2, <1>3, <1>4, <1>5, <1>6 DEF TurnNext

-------------------------------------------------------------------------------
(* Handlers and their leases *)

(* A handler is never ahead of its lease, nor the lease of its handler.       *)
LEMMA HandlersStep ==
    ASSUME TurnSound, [TurnNext]_turnVars
    PROVE  HandlersSound'
<1> USE TurnOfAssumption, RequestOfAssumption
    DEF TurnSound, TurnTypeOK, TypeOK, HandlersSound, Registered, Open, mcpVars, invokeVars, observerVars,
        activityVars, lifeVars, McpStates
<1>1. ASSUME UNCHANGED mcpVars, OwnerKeeps PROVE HandlersSound'
    BY <1>1 DEF OwnerKeeps
<1>2. ASSUME UNCHANGED <<mcpVars, activityVars, lifeVars>> PROVE HandlersSound'
    BY <1>2
<1>3. ASSUME NEW a \in Activities, RequestStep(a) PROVE HandlersSound'
  <2>1. CASE ReceiveRequest(a)
      BY <2>1 DEF ReceiveRequest, vars
  <2>2. CASE DeliverClaim(a)
      BY <2>2 DEF DeliverClaim, ClaimHandled, Claim, Admit
  <2>3. CASE RefuseRequest(a)
      BY <2>3 DEF RefuseRequest, ClaimHandled, vars
  <2>4. CASE LoseClaim(a)
      BY <2>4 DEF LoseClaim, ClaimHandled, vars
  <2>5. CASE GiveUpClaim(a)
      BY <2>5 DEF GiveUpClaim, vars
  <2>6. CASE ActionEnds(a)
      BY <2>6 DEF ActionEnds, vars
  <2>7. CASE SendSettle(a)
      BY <2>7 DEF SendSettle, vars
  <2>8. CASE GiveUpSettle(a)
      BY <2>8 DEF GiveUpSettle, AfterFailedSettle, vars
  <2>9. ASSUME NEW k \in 1..Attempts, DeliverSettle(a, k) PROVE HandlersSound'
      BY <2>9 DEF DeliverSettle, SettleHandled, CompleteActivity, Tombstone
  <2>10. ASSUME NEW k \in 1..Attempts, DeliverIdleSettle(a, k) PROVE HandlersSound'
      BY <2>10 DEF DeliverIdleSettle, SettleHandled, Tombstoned, vars
  <2>11. ASSUME NEW k \in 1..Attempts, LoseSettle(a, k) PROVE HandlersSound'
      BY <2>11 DEF LoseSettle, SettleHandled, AfterFailedSettle, vars
  <2> QED
      BY <1>3, <2>1, <2>2, <2>3, <2>4, <2>5, <2>6, <2>7, <2>8, <2>9, <2>10, <2>11
      DEF RequestStep, ClaimReplies, SettleReplies
<1>4. ASSUME NEW c \in Calls, CallStep(c) PROVE HandlersSound'
  <2>1. CASE DeliverRelease(c)
      BY <1>1, <2>1, RevokeKeeps DEF DeliverRelease, ReleaseHandled, TurnOfCall
  <2>2. CASE DeliverInvoke(c)
      BY <1>2, <2>2 DEF DeliverInvoke, Invoke, Enqueue, InterceptInvoke
  <2>3. ASSUME ~DeliverInvoke(c), ~DeliverRelease(c) PROVE UNCHANGED <<vars, mcpVars>>
      BY <1>4, <2>3 DEF CallStep, ReleaseReplies, ReleaseHandled, SendInvoke, FailInvoke, ReceiveResult,
         AbandonInvoke, DeliverIdleRelease, LoseRelease, GiveUpRelease
  <2> QED
      BY <1>2, <2>1, <2>2, <2>3 DEF vars
<1>5. ASSUME NEW t \in Turns, ObserverStep(t) PROVE HandlersSound'
    BY <1>2, <1>5 DEF ObserverStep, ReadDom, LooksUnfinished, BeginFence, CommitFence, CommitFails,
       CommitCompletionFence, vars
<1>6. ASSUME NEW t \in Turns, OwnerActs(t) PROVE HandlersSound'
    BY <1>1, <1>6, OwnerActsKeeps DEF OwnerActs
<1>7. CASE UNCHANGED turnVars
    BY <1>2, <1>7 DEF turnVars, vars
<1> QED
    BY <1>3, <1>4, <1>5, <1>6, <1>7 DEF TurnNext

-------------------------------------------------------------------------------
(* Tool calls and their requests *)

(* A step that leaves the calls and what they were told alone.               *)
LEMMA InvocationsKept ==
    ASSUME InvocationsSound, UNCHANGED <<invokeVars, phase, invocations, outcome>>,
           \A a \in Activities : mcp[a] = "acting" => mcp'[a] = "acting"
    PROVE  InvocationsSound'
BY RequestOfAssumption DEF InvocationsSound, invokeVars, Registered, Answered, Open, TurnOfCall

(* A call never outlives its request, unless nobody could release it.        *)
LEMMA InvocationsStep ==
    ASSUME TurnSound, [TurnNext]_turnVars
    PROVE  InvocationsSound'
<1> USE TurnOfAssumption, RequestOfAssumption
    DEF TurnSound, TurnTypeOK, TypeOK, InvocationsSound, Registered, Open, Answered, TurnOfCall,
        mcpVars, invokeVars, observerVars, lifeVars, callVars, CallStates
<1>1. ASSUME UNCHANGED <<mcpVars, invokeVars>>, OwnerKeeps PROVE InvocationsSound'
    BY <1>1 DEF OwnerKeeps
<1>2. ASSUME NEW a \in Activities, RequestStep(a) PROVE InvocationsSound'
  <2>1. CASE ActionEnds(a)
      BY <2>1 DEF ActionEnds, CallsOf, vars
  <2>2. CASE ~ActionEnds(a)
    <3>1. UNCHANGED <<invokeVars, phase, invocations, outcome>>
        BY <1>2, <2>2 DEF RequestStep, ClaimReplies, SettleReplies, ReceiveRequest, DeliverClaim, Claim, Admit,
           RefuseRequest, LoseClaim, ClaimHandled, GiveUpClaim, SendSettle, GiveUpSettle, DeliverSettle,
           CompleteActivity, DeliverIdleSettle, LoseSettle, SettleHandled, vars
    <3>2. \A b \in Activities : mcp[b] = "acting" => mcp'[b] = "acting"
        BY <1>2, <2>2 DEF RequestStep, ClaimReplies, SettleReplies, ReceiveRequest, DeliverClaim,
           RefuseRequest, LoseClaim, ClaimHandled, GiveUpClaim, SendSettle, GiveUpSettle, DeliverSettle,
           DeliverIdleSettle, LoseSettle, SettleHandled
    <3> QED
        BY <3>1, <3>2, InvocationsKept
  <2> QED
      BY <2>1, <2>2
<1>3. ASSUME NEW c \in Calls, CallStep(c) PROVE InvocationsSound'
  <2>1. CASE SendInvoke(c)
      BY <2>1 DEF SendInvoke, HandlersSound, vars
  <2>2. CASE DeliverInvoke(c)
      BY <2>2 DEF DeliverInvoke, Invoke, Enqueue, InterceptInvoke, Callable, UnusedCalls
  <2>3. CASE FailInvoke(c)
      BY <2>3 DEF FailInvoke, Release, vars
  <2>4. CASE ReceiveResult(c)
      BY <2>4 DEF ReceiveResult, vars
  <2>5. CASE AbandonInvoke(c)
      BY <2>5 DEF AbandonInvoke, Release, vars
  <2>6. CASE DeliverRelease(c)
    <3>1. OwnerKeeps /\ ~Open(TurnOfCall(c))'
        BY <2>6, RevokeKeeps DEF DeliverRelease, Revoke, Revoked
    <3> QED
        BY <2>6, <3>1 DEF DeliverRelease, ReleaseHandled, OwnerKeeps
  <2>7. CASE DeliverIdleRelease(c)
      BY <2>7 DEF DeliverIdleRelease, ReleaseHandled, HandlersSound, vars
  <2>8. CASE LoseRelease(c)
      BY <2>8 DEF LoseRelease, ReleaseHandled, vars
  <2>9. CASE GiveUpRelease(c)
      BY <2>9 DEF GiveUpRelease, vars
  <2> QED
      BY <1>3, <2>1, <2>2, <2>3, <2>4, <2>5, <2>6, <2>7, <2>8, <2>9 DEF CallStep, ReleaseReplies
<1>4. ASSUME NEW t \in Turns, ObserverStep(t) PROVE InvocationsSound'
  <2>1. UNCHANGED <<mcpVars, invokeVars, phase, invocations, outcome>>
      BY <1>4 DEF ObserverStep, ReadDom, LooksUnfinished, BeginFence, CommitFence, CommitFails,
         CommitCompletionFence, vars
  <2> QED
      BY <2>1, InvocationsKept
<1>5. ASSUME NEW t \in Turns, OwnerActs(t) PROVE InvocationsSound'
    BY <1>1, <1>5, OwnerActsKeeps DEF OwnerActs
<1>6. CASE UNCHANGED turnVars
    BY <1>6, InvocationsKept DEF turnVars, vars
<1> QED
    BY <1>2, <1>3, <1>4, <1>5, <1>6 DEF TurnNext

-------------------------------------------------------------------------------
(* Theorems *)

(* The parts of the invariant are kept together: each needs the others.      *)
LEMMA TurnSoundStep == TurnSound /\ [TurnNext]_turnVars => TurnSound'
BY BrokerStays, TurnTypeStep, FenceStep, HandlersStep, InvocationsStep DEF TurnSound

(* The invariant holds throughout.                                           *)
LEMMA TurnsAreSound == TurnSpec => []TurnSound
BY TurnSoundInit, TurnSoundStep, PTL DEF TurnSpec

(* The invariant gives the three parts of LeaseHolds.                        *)
LEMMA SoundLeases == TurnSound => LeaseHolds
<1> SUFFICES ASSUME TurnSound PROVE LeaseHolds
    OBVIOUS
<1> USE TurnOfAssumption, RequestOfAssumption DEF TurnSound, TurnTypeOK, TypeOK
<1>1. ActiveHasHandler
    BY DEF ActiveHasHandler, HandlersSound, BrokerSound, ActivitiesSound, TombstonesHold, McpStates
<1>2. ActingIsLeased
    BY DEF ActingIsLeased, HandlersSound
<1>3. NoCallAfterCommit
  <2> SUFFICES ASSUME NEW t \in Turns, completionCommitted[t], NEW c \in invocations[t]
               PROVE  invocation[c] = "unreleased"
      BY DEF NoCallAfterCommit
  <2>1. c \in Calls /\ t = TurnOfCall(c) /\ invocation[c] # "idle"
      BY DEF InvocationsSound
  <2>2. Open(t) /\ outcome[c] = "pending"
      BY DEF BrokerSound, CallsAccounted
  <2>3. activities[t] = {}
      BY DEF BrokerSound, ActivitiesSound, CommittedIsQuiet
  <2>4. mcp[requestOf[c]] # "acting"
      BY <2>1, <2>2, <2>3 DEF HandlersSound, TurnOfCall
  <2> QED
      BY <2>1, <2>2, <2>4 DEF InvocationsSound, CallStates, Answered
<1> QED
    BY <1>1, <1>2, <1>3 DEF LeaseHolds

(* A claim is a lease, however claims, settlings and their answers are        *)
(* delayed, lost or reordered on their way.                                   *)
THEOREM LeasesHold == TurnSpec => []LeaseHolds
BY TurnsAreSound, SoundLeases, PTL

(* The steps of the fence of t1 under those of the clients.                   *)
LEMMA PromiseStep ==
    ASSUME t1 \in Turns, TurnSound, [TurnNext]_turnVars
    PROVE  [Fence!PromiseNext]_(Fence!promiseVars)
<1> DEFINE Kept == UNCHANGED <<activities[t1], domFresh[t1], completionCommitted[t1]>>
<1> SUFFICES Kept \/ Fence!PromiseNext
    BY DEF Fence!promiseVars
<1> USE TurnOfAssumption, RequestOfAssumption
    DEF TurnSound, TurnTypeOK, TypeOK, mcpVars, invokeVars, observerVars, activityVars, fenceVars
<1>1. ASSUME NEW a \in Activities, RequestStep(a) PROVE Kept \/ Fence!PromiseNext
  <2>1. CASE DeliverClaim(a)
    <3>1. turnOf[a] = t1 => Fence!Start(a)
        BY <2>1 DEF DeliverClaim, ToolEvent, Claim, Admit, TakesClaims, Fence!Start
    <3>2. turnOf[a] # t1 => Kept
        BY <2>1 DEF DeliverClaim, ToolEvent, Claim, Admit
    <3> QED
        BY <3>1, <3>2 DEF Fence!PromiseNext
  <2>2. ASSUME NEW k \in 1..Attempts, DeliverSettle(a, k) PROVE Kept \/ Fence!PromiseNext
    <3>1. turnOf[a] = t1 => Fence!End(a)
        BY <2>2 DEF DeliverSettle, ToolEvent, CompleteActivity, Fence!End
    <3>2. turnOf[a] # t1 => Kept
        BY <2>2 DEF DeliverSettle, ToolEvent, CompleteActivity
    <3> QED
        BY <3>1, <3>2 DEF Fence!PromiseNext
  <2>3. ASSUME ~DeliverClaim(a), \A k \in 1..Attempts : ~DeliverSettle(a, k) PROVE Kept
      BY <1>1, <2>3 DEF RequestStep, ClaimReplies, SettleReplies, ReceiveRequest, RefuseRequest, LoseClaim,
         GiveUpClaim, ActionEnds, SendSettle, GiveUpSettle, DeliverIdleSettle, LoseSettle, vars
  <2> QED
      BY <2>1, <2>2, <2>3
<1>2. ASSUME NEW c \in Calls, CallStep(c) PROVE Kept
    BY <1>2 DEF CallStep, ReleaseReplies, ReleaseHandled, SendInvoke, DeliverInvoke, Invoke, Enqueue,
       InterceptInvoke, FailInvoke, ReceiveResult, AbandonInvoke, DeliverRelease, Revoke, Revoked,
       DeliverIdleRelease, LoseRelease, GiveUpRelease, vars
<1>3. ASSUME NEW t \in Turns, ObserverStep(t) PROVE Kept \/ Fence!PromiseNext
  <2>1. CASE ReadDom(t)
    <3>1. t = t1 => Fence!Read
        BY <2>1 DEF ReadDom, Fence!Read, vars
    <3>2. t # t1 => Kept
        BY <2>1 DEF ReadDom, vars
    <3> QED
        BY <3>1, <3>2 DEF Fence!PromiseNext
  <2>2. CASE CommitFence(t)
    <3>1. t = t1 => Fence!CloseTurn
        BY <2>2 DEF CommitFence, CommitCompletionFence, Quiet, FenceSound, Fence!CloseTurn
    <3>2. t # t1 => Kept
        BY <2>2 DEF CommitFence, CommitCompletionFence
    <3> QED
        BY <3>1, <3>2 DEF Fence!PromiseNext
  <2>3. CASE LooksUnfinished(t) \/ BeginFence(t) \/ CommitFails(t)
      BY <2>3 DEF LooksUnfinished, BeginFence, CommitFails, vars
  <2> QED
      BY <1>3, <2>1, <2>2, <2>3 DEF ObserverStep
<1>4. ASSUME NEW t \in Turns, OwnerActs(t) PROVE Kept
    BY <1>4, OwnerActsKeeps DEF OwnerActs, OwnerKeeps
<1>5. CASE UNCHANGED turnVars
    BY <1>5 DEF turnVars, vars
<1> QED
    BY <1>1, <1>2, <1>3, <1>4, <1>5 DEF TurnNext

(* Every turn's fence keeps its promise, for any number of turns, requests    *)
(* and calls around it.                                                       *)
THEOREM FenceKeepsPromise == ASSUME t1 \in Turns PROVE TurnSpec => PromiseKept
<1>1. TurnInit => Fence!PromiseInit
    BY DEF TurnInit, Init, Fence!PromiseInit
<1>2. TurnSound /\ [TurnNext]_turnVars => [Fence!PromiseNext]_(Fence!promiseVars)
    BY PromiseStep
<1> QED
    BY <1>1, <1>2, TurnsAreSound, PTL DEF TurnSpec, PromiseKept, Fence!PromiseSpec

-------------------------------------------------------------------------------
(* The rounds of a turn: their inductive invariant                           *)

(* What TurnBrokerProofs shows of the turn's channel.                        *)
ChannelSound == TypeOK /\ CallsAccounted /\ ActivitiesSound /\ SafeSound

(* The type of the line and of the journal.                                  *)
JournalTyped ==
    /\ line \in Seq(Observers)
    /\ connected \in SUBSET Observers
    /\ roundOf \in [Observers -> Rounds \cup {NoRound}]
    /\ brings \in SUBSET Rounds
    /\ roundState \in [Rounds -> {"unused", "open"} \cup Ended]
    /\ roundBatch \in [Rounds -> SUBSET Calls]

(* The type of what the rounds share with the browser observer.              *)
SessionTyped ==
    /\ stage \in {"none", "results", "polling", "boundary"}
    /\ batch \in SUBSET Calls
    /\ boundary \in 0..toolBatchRevision
    /\ outstanding \in SUBSET Calls
    /\ deliveredResults \in SUBSET Calls
    /\ activeToolCalls \in Nat
    /\ toolBatchRevision \in Nat
    /\ observedRevision \in 0..toolBatchRevision
    /\ progressRetired \in BOOLEAN
    /\ browser \in {"live", "final", "error"}

(* Only the first observer of the line stands anywhere; it has a batch only  *)
(* while it waits for that batch's boundary, which is the last one recorded; *)
(* and the broker knows its poll only while it waits for a batch.            *)
StageSound ==
    /\ stage # "none" => line # <<>>
    /\ stage \in {"polling", "boundary"} => outstanding = {}
    /\ stage # "boundary" => batch = {}
    /\ stage = "boundary" => boundary = toolBatchRevision
    /\ waiters[turn] # {} => stage = "polling"

(* A batch on its way to Codex is owed like the one Codex works on; what has *)
(* a result is settled at the broker, and so is never in a later batch; and  *)
(* a final answer has closed the channel with no call in it.                 *)
OwedSound ==
    /\ Open(turn) => outstanding \cup batch \subseteq Delivered
    /\ phase[turn] = "unregistered" => outstanding = {} /\ batch = {}
    /\ ~progressRetired =>
          Cardinality(outstanding) <= activeToolCalls /\ Cardinality(batch) <= activeToolCalls
    /\ browser = "final" =>
          completionCommitted[turn] /\ invocations[turn] = {} /\ outstanding = {} /\ batch = {}
    /\ \A c \in deliveredResults : outcome[c] \notin {"unused", "pending"}
    /\ (outstanding \cup batch) \cap deliveredResults = {}

RoundSound == ChannelSound /\ JournalTyped /\ SessionTyped /\ StageSound /\ OwedSound

(* Nothing has been asked, recorded or handed out when the turn begins.      *)
LEMMA RoundSoundInit == RoundInit => RoundSound
<1> SUFFICES ASSUME RoundInit PROVE RoundSound
    OBVIOUS
<1> USE OneNativeTurn DEF RoundInit
<1>1. ChannelSound
    BY TypeInit, CallsInit, ActivitiesInit, SafeInit DEF ChannelSound
<1>2. JournalTyped
    BY DEF JournalTyped
<1>3. SessionTyped
  <2>1. 0 \in 0..0 /\ 0 \in Nat
      BY SMT
  <2> QED
      BY <2>1 DEF SessionTyped
<1>4. StageSound
    BY DEF StageSound, Init
<1>5. OwedSound
    BY FS_EmptySet DEF OwedSound, Init, Open
<1> QED
    BY <1>1, <1>2, <1>3, <1>4, <1>5 DEF RoundSound

-------------------------------------------------------------------------------
(* The steps of the channel under those of the rounds *)

(* What the rounds do to the channel.                                        *)
ChannelStep ==
    \/ UNCHANGED vars
    \/ Register(turn, "none") \/ Revoke(turn)
    \/ \E a \in Activities : Claim(turn, a) \/ CompleteActivity(turn, a)
    \/ \E c \in Calls : (activities[turn] # {} /\ Invoke(turn, c)) \/ CompleteTool(turn, c)
    \/ NextToolBatch(turn, poll) \/ AbortPoll(turn, poll) \/ BatchTimerFires(turn)
    \/ CommitCompletionFence(turn, activityRevision[turn])

(* Every step is one of these to the channel.                                *)
LEMMA ChannelSteps == TypeOK /\ [RoundNext]_roundVars => ChannelStep
<1> SUFFICES ASSUME TypeOK, [RoundNext]_roundVars PROVE ChannelStep
    OBVIOUS
<1> USE DEF ChannelStep
<1>1. ASSUME NEW o \in Observers, NEW r \in Rounds,
             SendRound(o, r, TRUE) \/ SendRound(o, r, FALSE) \/ Reconnect(o, r)
      PROVE  ChannelStep
    BY <1>1 DEF SendRound, Reconnect, Join
<1>2. ASSUME NEW o \in Observers, Disconnect(o) PROVE ChannelStep
    BY <1>2 DEF Disconnect, StopPolling
<1>3. CASE EndsAtOnce \/ Begin \/ ArmRedelivered \/ ArmGone \/ DispatchBatch
    BY <1>3 DEF EndsAtOnce, Begin, ArmRedelivered, ArmGone, DispatchBatch
<1>4. CASE FailsAtOnce \/ ResultRefused \/ ArmFails \/ WaitFails \/ FinishWithBrowser
    BY <1>4 DEF FailsAtOnce, ResultRefused, ArmFails, WaitFails, FinishWithBrowser, Fail
<1>5. ASSUME NEW c \in Calls, DeliverResult(c) PROVE ChannelStep
    BY <1>5 DEF DeliverResult
<1>6. CASE ArmQueued \/ ArmWaiting \/ TimerFires
    BY <1>6 DEF ArmQueued, ArmWaiting, TimerFires
<1>7. CASE CaptureBoundary \/ FinishBrowser \/ FailBrowser \/ RetirementObserved
    BY <1>7 DEF CaptureBoundary, FinishBrowser, FailBrowser, RetirementObserved
<1>8. CASE Elsewhere
    BY <1>8, OneNativeTurn DEF Elsewhere, TypeOK
<1>9. CASE UNCHANGED roundVars
    BY <1>9 DEF roundVars
<1> QED
    BY <1>1, <1>2, <1>3, <1>4, <1>5, <1>6, <1>7, <1>8, <1>9 DEF RoundNext, CodexStep, AdapterStep

(* Each of them is a step of the broker, so what TurnBrokerProofs shows of   *)
(* the broker's steps holds of the rounds.                                   *)
LEMMA ChannelStays == ChannelSound /\ [RoundNext]_roundVars => ChannelSound'
<1> SUFFICES ASSUME ChannelSound, ChannelStep PROVE [Next]_vars
    BY ChannelSteps, TypeStep, CallsStep, ActivitiesStep, SafeStep DEF ChannelSound
<1>1. turn \in Turns /\ poll \in Polls
    BY OneNativeTurn
<1>2. CASE CommitCompletionFence(turn, activityRevision[turn])
  <2>1. activityRevision[turn] \in 0..activityRevision[turn]
      BY <1>1 DEF ChannelSound, TypeOK
  <2> QED
      BY <1>1, <1>2, <2>1 DEF Next, OwnerStep
<1> QED
    BY <1>1, <1>2 DEF ChannelStep, Next, OwnerStep, McpStep, BrokerStep

(* What every step but a result keeps of the channel: a turn does not go     *)
(* back, a delivered call stays delivered while the turn is there, a closed  *)
(* channel without calls stays so, and an answered call stays answered.      *)
ChannelKeeps ==
    /\ phase'[turn] = "unregistered" => phase[turn] = "unregistered"
    /\ phase[turn] = "retired" => phase'[turn] = "retired"
    /\ Open(turn) /\ Open(turn)' => Delivered \subseteq Delivered'
    /\ completionCommitted[turn] /\ invocations[turn] = {} =>
          completionCommitted'[turn] /\ invocations'[turn] = {}
    /\ \A c \in Calls : Answered(c) => Answered(c)'

(* Only a result takes a delivered call away from a turn that is there.      *)
LEMMA ChannelKept ==
    ASSUME ChannelSound, ChannelStep, \A c \in Calls : ~CompleteTool(turn, c)
    PROVE  ChannelKeeps
<1> USE OneNativeTurn
    DEF ChannelSound, TypeOK, ChannelKeeps, Delivered, Answered, Open, lifeVars, activityVars, fenceVars,
        callVars, compactVars, pollVars, safeVars, heldVars
<1>1. CASE UNCHANGED vars
    BY <1>1 DEF vars
<1>2. CASE Register(turn, "none")
    BY <1>2 DEF Register
<1>3. CASE Revoke(turn)
    BY <1>3 DEF Revoke, Revoked, Emptied, CallsAccounted
<1>4. ASSUME NEW a \in Activities, Claim(turn, a) PROVE ChannelKeeps
    BY <1>4 DEF Claim, Admit, TakesClaims
<1>5. ASSUME NEW a \in Activities, CompleteActivity(turn, a) PROVE ChannelKeeps
    BY <1>5 DEF CompleteActivity
<1>6. ASSUME NEW c \in Calls, activities[turn] # {}, Invoke(turn, c) PROVE ChannelKeeps
    BY <1>6 DEF Invoke, Callable, UnusedCalls, Enqueue, ActivitiesSound, CommittedIsQuiet
<1>7. CASE NextToolBatch(turn, poll)
    BY <1>7 DEF NextToolBatch, TakeOrWait, TakeQueued
<1>8. CASE AbortPoll(turn, poll)
    BY <1>8 DEF AbortPoll
<1>9. CASE BatchTimerFires(turn)
    BY <1>9 DEF BatchTimerFires, TakeQueued
<1>10. CASE CommitCompletionFence(turn, activityRevision[turn])
    BY <1>10 DEF CommitCompletionFence
<1> QED
    BY <1>1, <1>2, <1>3, <1>4, <1>5, <1>6, <1>7, <1>8, <1>9, <1>10 DEF ChannelStep

(* The end of a round that fails revokes a binding that is still there, so   *)
(* that no poll of the observer is left.                                     *)
Ends == IF Retired THEN UNCHANGED vars ELSE Revoke(turn)
LEMMA EndsPolls == ChannelSound /\ Ends => waiters'[turn] = {}
BY OneNativeTurn
DEF ChannelSound, TypeOK, SafeSound, WaitersHaveAFuture, Ends, Retired, Revoke, Revoked, RejectPolls, Emptied, Open, vars,
    pollVars

-------------------------------------------------------------------------------
(* Types *)

(* The first observer leaves a line that is not empty.                       *)
LEMMA LeaveTyped ==
    ASSUME JournalTyped, line # <<>>, Leave
    PROVE  line' \in Seq(Observers) /\ connected' \in SUBSET Observers
<1>1. Tail(line) \in Seq(Observers)
    BY DEF JournalTyped
<1> QED
    BY <1>1 DEF JournalTyped, Leave

(* The journal of a round that ends.                                         *)
LEMMA EndRoundTyped ==
    ASSUME JournalTyped, NEW how \in Ended, NEW calls \in SUBSET Calls, EndRound(how, calls)
    PROVE  /\ roundState' \in [Rounds -> {"unused", "open"} \cup Ended]
           /\ roundBatch' \in [Rounds -> SUBSET Calls]
BY DEF JournalTyped, EndRound

(* A request that joins the line.                                            *)
LEMMA JoinTyped ==
    ASSUME JournalTyped, NEW o \in Observers, NEW r \in Rounds, Join(o, r)
    PROVE  /\ line' \in Seq(Observers) /\ connected' \in SUBSET Observers
           /\ roundOf' \in [Observers -> Rounds \cup {NoRound}]
           /\ roundBatch' = roundBatch
<1>1. Append(line, o) \in Seq(Observers)
    BY DEF JournalTyped
<1> QED
    BY <1>1 DEF JournalTyped, Join

(* Every step keeps the line a sequence of requests, and the journal typed.  *)
LEMMA JournalStep ==
    ASSUME JournalTyped, SessionTyped, StageSound, [RoundNext]_roundVars
    PROVE  JournalTyped'
<1> DEFINE LineKept == UNCHANGED lineVars
           LineLeft == line # <<>> /\ Leave
           Kept     == UNCHANGED journalVars
           EndedNow == \E how \in Ended, calls \in SUBSET Calls : EndRound(how, calls)
<1>1. (LineKept \/ LineLeft) /\ (Kept \/ EndedNow) => JournalTyped'
  <2>1. LineKept \/ LineLeft =>
           /\ line' \in Seq(Observers) /\ connected' \in SUBSET Observers
           /\ roundOf' \in [Observers -> Rounds \cup {NoRound}] /\ brings' \in SUBSET Rounds
      BY LeaveTyped DEF JournalTyped, lineVars, Leave
  <2>2. Kept \/ EndedNow =>
           /\ roundState' \in [Rounds -> {"unused", "open"} \cup Ended]
           /\ roundBatch' \in [Rounds -> SUBSET Calls]
      BY EndRoundTyped DEF JournalTyped, journalVars
  <2> QED
      BY <2>1, <2>2 DEF JournalTyped
<1>2. Fail /\ line # <<>> => JournalTyped'
    BY <1>1 DEF Fail, Ended
<1>3. ASSUME NEW calls, Receive(calls), line # <<>> PROVE JournalTyped'
    BY <1>1, <1>3 DEF Receive
<1> USE DEF Stands, StageSound
<1>4. ASSUME NEW o \in Observers, NEW r \in Rounds, NEW b \in BOOLEAN, SendRound(o, r, b)
      PROVE  JournalTyped'
    BY <1>4, JoinTyped DEF SendRound, JournalTyped
<1>5. ASSUME NEW o \in Observers, NEW r \in Rounds, Reconnect(o, r) PROVE JournalTyped'
    BY <1>5, JoinTyped DEF Reconnect, JournalTyped
<1>6. ASSUME NEW o \in Observers, Disconnect(o) PROVE JournalTyped'
  <2>1. CASE o = Current /\ stage \in {"polling", "boundary"}
      BY <1>1, <1>6, <2>1 DEF Disconnect
  <2>2. CASE ~(o = Current /\ stage \in {"polling", "boundary"})
      BY <1>6, <2>2 DEF Disconnect, JournalTyped, journalVars
  <2> QED
      BY <2>1, <2>2
<1>7. CASE EndsAtOnce
    BY <1>1, <1>7 DEF EndsAtOnce, SessionTyped, Ended
<1>8. CASE FailsAtOnce \/ ResultRefused \/ ArmFails \/ WaitFails
    BY <1>2, <1>8 DEF FailsAtOnce, ResultRefused, ArmFails, WaitFails, Arming, Racing
<1>9. CASE Begin \/ ArmWaiting
    BY <1>1, <1>9 DEF Begin, ArmWaiting
<1>10. ASSUME NEW c \in Calls, DeliverResult(c) PROVE JournalTyped'
    BY <1>1, <1>10 DEF DeliverResult
<1>11. CASE ArmRedelivered \/ ArmQueued
    BY <1>3, <1>11 DEF ArmRedelivered, ArmQueued, Arming
<1>12. CASE ArmGone
    BY <1>1, <1>12 DEF ArmGone, Arming
<1>13. CASE DispatchBatch
    BY <1>1, <1>13 DEF DispatchBatch, SessionTyped, Ended
<1>14. CASE FinishWithBrowser
    BY <1>1, <1>14 DEF FinishWithBrowser, Racing, Ended
<1>15. CASE TimerFires
  <2>1. CASE poll \in waiters[turn] /\ queuedCallIds[turn] # {}
      BY <1>3, <1>15, <2>1 DEF TimerFires
  <2>2. CASE ~(poll \in waiters[turn] /\ queuedCallIds[turn] # {})
      BY <1>1, <1>15, <2>2 DEF TimerFires
  <2> QED
      BY <2>1, <2>2
<1>16. CASE CaptureBoundary \/ FinishBrowser \/ FailBrowser \/ RetirementObserved \/ Elsewhere
    BY <1>1, <1>16 DEF CaptureBoundary, FinishBrowser, FailBrowser, RetirementObserved, Elsewhere
<1>17. CASE UNCHANGED roundVars
    BY <1>1, <1>17 DEF roundVars
<1> QED
    BY <1>4, <1>5, <1>6, <1>7, <1>8, <1>9, <1>10, <1>11, <1>12, <1>13, <1>14, <1>15, <1>16, <1>17
    DEF RoundNext, CodexStep, AdapterStep
(* A batch that arrives is counted, whatever becomes of it.                  *)
LEMMA ReceiveTyped ==
    ASSUME SessionTyped, NEW calls \in SUBSET Calls, Receive(calls)
    PROVE  /\ SessionTyped'
           /\ activeToolCalls' >= Cardinality(calls) /\ activeToolCalls' >= activeToolCalls
<1>1. IsFiniteSet(calls)
    BY CallsAssumption, FS_Subset
<1>2. Cardinality(calls) \in Nat
    BY <1>1, FS_CardinalityType
<1>3. activeToolCalls' >= Cardinality(calls) /\ activeToolCalls' >= activeToolCalls
    BY <1>2 DEF SessionTyped, Receive, RecordToolBatch
<1> QED
    BY <1>2, <1>3 DEF SessionTyped, Receive, RecordToolBatch, Leave, sessionVars

(* What the broker hands to the observer is a set of calls.                  *)
LEMMA BatchesTyped ==
    ASSUME TypeOK
    PROVE  Delivered \in SUBSET Calls /\ queuedCallIds[turn] \in SUBSET Calls
BY OneNativeTurn DEF TypeOK, Delivered

(* No counter of the progress goes below zero or ahead of its batches.       *)
LEMMA SessionStep ==
    ASSUME TypeOK, SessionTyped, [RoundNext]_roundVars
    PROVE  SessionTyped'
<1> DEFINE Rest == UNCHANGED <<sessionVars, progressVars, browser>>
<1>1. Rest /\ (UNCHANGED stageVars \/ Leave) => SessionTyped'
    BY DEF SessionTyped, sessionVars, progressVars, stageVars, Leave
<1>2. ASSUME NEW o \in Observers, NEW r \in Rounds, NEW b \in BOOLEAN, SendRound(o, r, b) PROVE SessionTyped'
    BY <1>1, <1>2 DEF SendRound, Join
<1>3. ASSUME NEW o \in Observers, NEW r \in Rounds, Reconnect(o, r) PROVE SessionTyped'
    BY <1>1, <1>3 DEF Reconnect, Join
<1>4. ASSUME NEW o \in Observers, Disconnect(o) PROVE SessionTyped'
    BY <1>1, <1>4 DEF Disconnect
<1>5. CASE EndsAtOnce \/ ArmGone \/ FinishWithBrowser
    BY <1>1, <1>5 DEF EndsAtOnce, ArmGone, FinishWithBrowser
<1>6. CASE FailsAtOnce \/ ResultRefused \/ ArmFails \/ WaitFails
    BY <1>1, <1>6 DEF FailsAtOnce, ResultRefused, ArmFails, WaitFails, Fail
<1>7. CASE Begin \/ ArmWaiting
    BY <1>7 DEF Begin, ArmWaiting, SessionTyped, sessionVars, progressVars
<1>8. ASSUME NEW c \in Calls, DeliverResult(c) PROVE SessionTyped'
    BY <1>8 DEF DeliverResult, RecordToolResult, MarkResultDelivered, SessionTyped, stageVars
<1>9. CASE ArmRedelivered \/ ArmQueued
    BY <1>9, BatchesTyped, ReceiveTyped DEF ArmRedelivered, ArmQueued
<1>10. CASE DispatchBatch
    BY <1>10 DEF DispatchBatch, Leave, SessionTyped, progressVars
<1>11. CASE TimerFires
    BY <1>1, <1>11, BatchesTyped, ReceiveTyped DEF TimerFires
<1>12. CASE CaptureBoundary
    BY <1>12 DEF CaptureBoundary, CapturedRevision, SessionTyped, sessionVars, stageVars
<1>13. CASE RetirementObserved
    BY <1>13 DEF RetirementObserved, SessionTyped, sessionVars, stageVars
<1>14. CASE FinishBrowser \/ FailBrowser
    BY <1>14 DEF FinishBrowser, FailBrowser, SessionTyped, sessionVars, stageVars, progressVars
<1>15. CASE Elsewhere \/ UNCHANGED roundVars
    BY <1>1, <1>15 DEF Elsewhere, roundVars
<1> QED
    BY <1>2, <1>3, <1>4, <1>5, <1>6, <1>7, <1>8, <1>9, <1>10, <1>11, <1>12, <1>13, <1>14, <1>15
    DEF RoundNext, CodexStep, AdapterStep

-------------------------------------------------------------------------------
(* Where the observer stands *)

(* Who leaves stands nowhere and has no batch.                               *)
LEMMA StageLeft ==
    ASSUME Leave, waiters'[turn] = {}
    PROVE  StageSound'
BY DEF StageSound, Leave

(* The waiting polls of the turn: there is one observer, and one poll.       *)
LEMMA OnePoll == TypeOK => waiters[turn] \subseteq {poll}
BY OneNativeTurn DEF TypeOK

(* The observer stands where StageSound says after every step.               *)
LEMMA StageStep ==
    ASSUME ChannelSound, SessionTyped, StageSound, [RoundNext]_roundVars
    PROVE  StageSound'
<1>1. TypeOK /\ turn \in Turns
    BY OneNativeTurn DEF ChannelSound
<1> DEFINE Standing == /\ UNCHANGED <<stageVars, outstanding, toolBatchRevision>>
                       /\ waiters'[turn] \subseteq waiters[turn]
                       /\ stage # "none" => line' # <<>>
<1>2. Standing => StageSound'
    BY DEF StageSound, stageVars
<1>3. ASSUME Fail PROVE StageSound'
  <2>1. waiters'[turn] = {}
      BY <1>3, EndsPolls DEF Fail, Ends
  <2> QED
      BY <1>3, <2>1, StageLeft DEF Fail
<1>4. ASSUME NEW o \in Observers, NEW r \in Rounds, Join(o, r) PROVE StageSound'
  <2>1. line' # <<>>
    <3>1. Append(line, o) # <<>>
        OBVIOUS
    <3> QED
        BY <1>4, <3>1 DEF Join
  <2>2. UNCHANGED <<stageVars, outstanding, toolBatchRevision, waiters>>
      BY <1>4 DEF Join, sessionVars, progressVars, vars, pollVars
  <2> QED
      BY <1>2, <2>1, <2>2
<1>5. ASSUME NEW o \in Observers, Disconnect(o) PROVE StageSound'
  <2>1. CASE o = Current /\ stage \in {"polling", "boundary"}
    <3>1. waiters'[turn] = {}
        BY <1>1, <1>5, <2>1, OnePoll DEF Disconnect, StopPolling, AbortPoll, TypeOK, vars, pollVars
    <3> QED
        BY <1>5, <2>1, <3>1, StageLeft DEF Disconnect
  <2>2. CASE ~(o = Current /\ stage \in {"polling", "boundary"})
      BY <1>2, <1>5, <2>2 DEF Disconnect, sessionVars, progressVars, vars, pollVars, StageSound
  <2> QED
      BY <2>1, <2>2
<1>6. CASE EndsAtOnce
    BY <1>6, StageLeft DEF EndsAtOnce, Stands, StageSound, vars, pollVars
<1>7. CASE FailsAtOnce \/ ResultRefused \/ ArmFails \/ WaitFails
    BY <1>3, <1>7 DEF FailsAtOnce, ResultRefused, ArmFails, WaitFails
<1>8. CASE Begin
    BY <1>8 DEF Begin, Stands, StageSound, lineVars, stageVars, sessionVars, progressVars, vars, pollVars
<1>9. ASSUME NEW c \in Calls, DeliverResult(c) PROVE StageSound'
    BY <1>9 DEF DeliverResult, CompleteTool, MarkResultDelivered, Stands, StageSound, lineVars, stageVars, pollVars
<1>10. ASSUME NEW calls, Receive(calls), outstanding = {}, line # <<>>, waiters'[turn] = {} PROVE StageSound'
    BY <1>10, StageLeft DEF Receive, RecordToolBatch, StageSound, lineVars, sessionVars
<1>11. CASE ArmRedelivered
    BY <1>10, <1>11 DEF ArmRedelivered, Arming, Stands, StageSound, vars, pollVars
<1>12. CASE ArmQueued
    BY <1>10, <1>12 DEF ArmQueued, Arming, Stands, StageSound, NextToolBatch, TakeOrWait
<1>13. CASE ArmWaiting
    BY <1>13 DEF ArmWaiting, Arming, Stands, StageSound, lineVars, sessionVars, progressVars
<1>14. CASE ArmGone
    BY <1>14, StageLeft DEF ArmGone, Arming, Stands, StageSound, vars, pollVars
<1>15. CASE DispatchBatch
    BY <1>15, StageLeft DEF DispatchBatch, Stands, StageSound, vars, pollVars
<1>16. CASE FinishWithBrowser
    BY <1>16, EndsPolls, StageLeft DEF FinishWithBrowser, Ends
<1>17. CASE TimerFires
  <2>1. CASE poll \in waiters[turn] /\ queuedCallIds[turn] # {}
    <3>1. waiters'[turn] = {}
        BY <1>1, <1>17, <2>1 DEF TimerFires, BatchTimerFires, TypeOK
    <3> QED
        BY <1>10, <1>17, <2>1, <3>1 DEF TimerFires, StageSound
  <2>2. CASE ~(poll \in waiters[turn] /\ queuedCallIds[turn] # {})
    <3>1. waiters' = waiters
        BY <1>1, <1>17, <2>2, OnePoll DEF TimerFires, BatchTimerFires
    <3> QED
        BY <1>2, <1>17, <2>2, <3>1 DEF TimerFires, StageSound, lineVars, sessionVars, progressVars
  <2> QED
      BY <2>1, <2>2
<1>18. CASE CaptureBoundary \/ FailBrowser \/ RetirementObserved
    BY <1>2, <1>18 DEF CaptureBoundary, FailBrowser, RetirementObserved, StageSound, lineVars, sessionVars,
       progressVars, vars, pollVars
<1>19. CASE FinishBrowser
    BY <1>2, <1>19 DEF FinishBrowser, CommitCompletionFence, StageSound, lineVars, sessionVars, progressVars, pollVars
<1>20. CASE Elsewhere
  <2>1. waiters'[turn] \subseteq waiters[turn]
      BY <1>1, <1>20 DEF Elsewhere, Register, Claim, Admit, Invoke, Enqueue, CompleteActivity, Revoke, Revoked,
         RejectPolls, Emptied, TypeOK, pollVars
  <2> QED
      BY <1>2, <1>20, <2>1 DEF Elsewhere, StageSound, lineVars, sessionVars, progressVars
<1>21. CASE UNCHANGED roundVars
    BY <1>2, <1>21 DEF roundVars, StageSound, lineVars, sessionVars, progressVars, vars, pollVars
<1> QED
    BY <1>4, <1>5, <1>6, <1>7, <1>8, <1>9, <1>11, <1>12, <1>13, <1>14, <1>15, <1>16, <1>17, <1>18, <1>19, <1>20, <1>21
    DEF RoundNext, CodexStep, AdapterStep, SendRound, Reconnect
-------------------------------------------------------------------------------
(* What is owed *)

(* A step that gives Codex nothing and takes no result.                      *)
Steady ==
    /\ UNCHANGED sessionVars
    /\ batch' \in {batch, {}}
    /\ progressRetired' \/ UNCHANGED <<activeToolCalls, progressRetired>>
    /\ browser' = "final" => browser = "final"

(* It leaves what is owed as it is, or less of it.                           *)
LEMMA SteadyOwed ==
    ASSUME TypeOK, SessionTyped, OwedSound, ChannelKeeps, Steady
    PROVE  OwedSound'
<1>1. phase[turn] \in {"unregistered", "open", "retired"}
    BY OneNativeTurn DEF TypeOK
<1>2. UNCHANGED <<outstanding, deliveredResults>> /\ batch' \subseteq batch
    BY DEF Steady, sessionVars
<1>3. Open(turn)' => (outstanding \cup batch)' \subseteq Delivered'
    BY <1>1, <1>2 DEF OwedSound, ChannelKeeps, Open
<1>4. ~progressRetired' => Cardinality(outstanding') <= activeToolCalls' /\ Cardinality(batch') <= activeToolCalls'
    BY <1>2, FS_EmptySet DEF Steady, SessionTyped, OwedSound
<1>5. \A c \in deliveredResults' : outcome'[c] \notin {"unused", "pending"}
    BY <1>2 DEF SessionTyped, OwedSound, ChannelKeeps, Answered
<1>6. browser' = "final" => completionCommitted'[turn] /\ invocations'[turn] = {} /\ outstanding' = {} /\ batch' = {}
    BY <1>2 DEF Steady, OwedSound, ChannelKeeps
<1> QED
    BY <1>2, <1>3, <1>4, <1>5, <1>6 DEF OwedSound, ChannelKeeps

(* A batch that is received is delivered and unsettled at the broker, and is *)
(* counted; so a turn that receives one is neither final nor unregistered.   *)
LEMMA ReceiveOwed ==
    ASSUME ChannelSound', SessionTyped, StageSound, OwedSound, ChannelKeeps,
           NEW calls \in SUBSET Calls, Receive(calls), outstanding = {}, Open(turn)', calls # {},
           calls \subseteq Delivered', invocations'[turn] \subseteq invocations[turn]
    PROVE  OwedSound'
<1>1. SessionTyped' /\ activeToolCalls' >= Cardinality(calls) /\ activeToolCalls' >= activeToolCalls
    BY ReceiveTyped
<1>2. UNCHANGED <<outstanding, deliveredResults, progressRetired, browser>> /\ batch' \in {calls, {}}
    BY DEF Receive, RecordToolBatch, Leave, lineVars, sessionVars, StageSound
<1>3. \A c \in calls : outcome'[c] = "pending"
    BY OneNativeTurn DEF ChannelSound, CallsAccounted, Delivered
<1>4. invocations[turn] # {}
    BY DEF Delivered
<1>5. Cardinality(outstanding') = 0 /\ Cardinality({}) = 0
    BY <1>2, FS_EmptySet
<1>6. ~progressRetired' => Cardinality(outstanding') <= activeToolCalls' /\ Cardinality(batch') <= activeToolCalls'
    BY <1>1, <1>2, <1>5 DEF SessionTyped
<1>7. Open(turn)' => (outstanding \cup batch)' \subseteq Delivered'
    BY <1>2
<1>8. \A c \in deliveredResults' : outcome'[c] \notin {"unused", "pending"}
    BY <1>2 DEF OwedSound, ChannelKeeps, Answered, SessionTyped
<1>9. ((outstanding \cup batch) \cap deliveredResults)' = {}
    BY <1>2, <1>3, <1>8
<1>10. browser' # "final" /\ phase'[turn] # "unregistered"
    BY <1>2, <1>4 DEF OwedSound, Open
<1> QED
    BY <1>6, <1>7, <1>8, <1>9, <1>10 DEF OwedSound

(* A result settles the call that it is for, and no other.                   *)
LEMMA ResultOwed ==
    ASSUME ChannelSound, SessionTyped, StageSound, OwedSound, NEW c \in Calls, DeliverResult(c)
    PROVE  OwedSound'
<1> USE OneNativeTurn
<1>1. /\ outstanding' = outstanding \ {c} /\ c \in outstanding
      /\ deliveredResults' = deliveredResults \cup {c}
      /\ activeToolCalls' = activeToolCalls - 1 /\ activeToolCalls > 0
      /\ batch = {} /\ batch' = {} /\ UNCHANGED <<progressRetired, browser>>
    BY DEF DeliverResult, MarkResultDelivered, RecordToolResult, Stands, StageSound, stageVars
<1>2. /\ Open(turn) /\ UNCHANGED <<phase, completionCommitted>>
      /\ invocations'[turn] = invocations[turn] \ {c}
      /\ deliveredCallIds'[turn] = deliveredCallIds[turn] \ {c}
      /\ outcome'[c] = "result" /\ \A d \in Calls \ {c} : outcome'[d] = outcome[d]
    BY DEF DeliverResult, CompleteTool, Settle, Serving, Known, ChannelSound, TypeOK, lifeVars, fenceVars
<1>3. IsFiniteSet(outstanding)
    BY CallsAssumption, FS_Subset DEF SessionTyped
<1>4. Cardinality(outstanding') = Cardinality(outstanding) - 1 /\ Cardinality(outstanding) \in Nat
    BY <1>1, <1>3, FS_RemoveElement, FS_CardinalityType
<1>5. ~progressRetired' => Cardinality(outstanding') <= activeToolCalls' /\ Cardinality(batch') <= activeToolCalls'
    BY <1>1, <1>4, FS_EmptySet DEF OwedSound, SessionTyped
<1>6. Open(turn)' => (outstanding \cup batch)' \subseteq Delivered'
    BY <1>1, <1>2 DEF OwedSound, Delivered
<1>7. browser' # "final"
    BY <1>1 DEF OwedSound
<1>8. \A d \in deliveredResults' : outcome'[d] \notin {"unused", "pending"}
    BY <1>1, <1>2 DEF OwedSound, SessionTyped
<1> QED
    BY <1>1, <1>2, <1>5, <1>6, <1>7, <1>8 DEF OwedSound, Open

(* Every step keeps what is owed in the books.                               *)
LEMMA OwedStep ==
    ASSUME RoundSound, [RoundNext]_roundVars
    PROVE  OwedSound'
<1> USE DEF RoundSound
<1>1. ChannelSound' /\ TypeOK /\ turn \in Turns
    BY ChannelStays, OneNativeTurn DEF ChannelSound
<1>2. (\A c \in Calls : ~CompleteTool(turn, c)) => ChannelKeeps
    BY <1>1, ChannelSteps, ChannelKept
<1>4. ASSUME UNCHANGED vars PROVE ChannelKeeps
    BY <1>4 DEF ChannelKeeps, Delivered, Open, Answered, vars, lifeVars, fenceVars, callVars
<1>5. ASSUME Revoke(turn) PROVE ChannelKeeps
  <2>1. \A c \in Calls : ~CompleteTool(turn, c)
      BY <1>1, <1>5 DEF Revoke, Revoked, CompleteTool, Open, TypeOK, lifeVars
  <2> QED
      BY <1>2, <2>1
<1> USE <1>1, SteadyOwed DEF Steady
<1>6. ASSUME Fail PROVE OwedSound'
    BY <1>4, <1>5, <1>6 DEF Fail, Leave, progressVars
<1>7. ASSUME NEW o \in Observers, NEW r \in Rounds, Join(o, r) PROVE OwedSound'
    BY <1>4, <1>7 DEF Join, stageVars, progressVars
<1>8. ASSUME NEW o \in Observers, Disconnect(o) PROVE OwedSound'
  <2>1. ASSUME AbortPoll(turn, poll) PROVE ChannelKeeps
    <3>1. \A c \in Calls : ~CompleteTool(turn, c)
        BY <1>1, <2>1 DEF AbortPoll, CompleteTool, TypeOK, callVars
    <3> QED
        BY <1>2, <3>1
  <2> QED
      BY <1>4, <1>8, <2>1 DEF Disconnect, StopPolling, Leave, stageVars, progressVars
<1>9. CASE EndsAtOnce \/ ArmGone
    BY <1>4, <1>9 DEF EndsAtOnce, ArmGone, Leave, progressVars
<1>10. CASE FailsAtOnce \/ ResultRefused \/ ArmFails \/ WaitFails
    BY <1>6, <1>10 DEF FailsAtOnce, ResultRefused, ArmFails, WaitFails
<1>11. CASE Begin
    BY <1>4, <1>11 DEF Begin, progressVars
<1>12. ASSUME NEW c \in Calls, DeliverResult(c) PROVE OwedSound'
    BY <1>12, ResultOwed
<1>13. CASE ArmRedelivered
  <2>1. Delivered' = Delivered /\ UNCHANGED <<phase, invocations>>
      BY <1>13 DEF ArmRedelivered, Delivered, vars, lifeVars, callVars
  <2> QED
      BY <1>1, <1>4, <1>13, <2>1, ReceiveOwed, BatchesTyped DEF ArmRedelivered, Arming, Retired, Open
<1>14. ASSUME NextToolBatch(turn, poll) PROVE ChannelKeeps
  <2>1. \A c \in Calls : ~CompleteTool(turn, c)
      BY <1>1, <1>14 DEF NextToolBatch, TakeOrWait, CompleteTool, Settle, TypeOK
  <2> QED
      BY <1>2, <2>1
<1>15. CASE ArmQueued
  <2>1. queuedCallIds[turn] \subseteq Delivered' /\ UNCHANGED <<phase, invocations>> /\ Open(turn)'
      BY <1>1, <1>15 DEF ArmQueued, NextToolBatch, TakeOrWait, TakeQueued, Serving, Known, Open, Delivered,
         ChannelSound, TypeOK, CallsAccounted, lifeVars
  <2> QED
      BY <1>1, <1>14, <1>15, <2>1, ReceiveOwed, BatchesTyped DEF ArmQueued, Arming
<1>16. CASE ArmWaiting
    BY <1>14, <1>16 DEF ArmWaiting, progressVars
<1>17. CASE DispatchBatch
  <2>1. ChannelKeeps
      BY <1>4, <1>17 DEF DispatchBatch
  <2>2. outstanding' = batch /\ batch' = {} /\ UNCHANGED <<deliveredResults, activeToolCalls, progressRetired, browser>>
      BY <1>17 DEF DispatchBatch, Leave, progressVars
  <2>3. phase[turn] \in {"unregistered", "open", "retired"}
      BY <1>1 DEF TypeOK
  <2>4. Open(turn)' => (outstanding \cup batch)' \subseteq Delivered'
      BY <2>1, <2>2, <2>3 DEF OwedSound, ChannelKeeps, Open
  <2>5. \A c \in deliveredResults' : outcome'[c] \notin {"unused", "pending"}
      BY <2>1, <2>2 DEF OwedSound, ChannelKeeps, SessionTyped, Answered
  <2>6. browser' = "final" => completionCommitted'[turn] /\ invocations'[turn] = {}
      BY <2>1, <2>2 DEF OwedSound, ChannelKeeps
  <2> QED
      BY <2>1, <2>2, <2>4, <2>5, <2>6, FS_EmptySet DEF OwedSound, ChannelKeeps, SessionTyped
<1>18. CASE FinishWithBrowser
    BY <1>4, <1>5, <1>18 DEF FinishWithBrowser, Leave, progressVars
<1>19. CASE TimerFires
  <2>1. ChannelKeeps
    <3>1. \A c \in Calls : ~CompleteTool(turn, c)
        BY <1>1, <1>19 DEF TimerFires, BatchTimerFires, CompleteTool, Settle, TypeOK
    <3> QED
        BY <1>2, <3>1
  <2>2. CASE poll \in waiters[turn] /\ queuedCallIds[turn] # {}
    <3>1. queuedCallIds[turn] \subseteq Delivered' /\ UNCHANGED <<phase, invocations>>
        BY <1>1, <1>19, <2>2 DEF TimerFires, BatchTimerFires, TakeQueued, Delivered,
           ChannelSound, TypeOK, CallsAccounted, lifeVars
    <3>2. Open(turn) /\ outstanding = {}
        BY <1>1, <2>2 DEF ChannelSound, SafeSound, WaitersHaveAFuture, StageSound
    <3> QED
        BY <1>1, <1>19, <2>1, <2>2, <3>1, <3>2, ReceiveOwed, BatchesTyped DEF TimerFires, Open
  <2>3. CASE ~(poll \in waiters[turn] /\ queuedCallIds[turn] # {})
      BY <1>19, <2>1, <2>3 DEF TimerFires, stageVars, progressVars
  <2> QED
      BY <2>2, <2>3
<1>20. CASE CaptureBoundary \/ FailBrowser
    BY <1>4, <1>20 DEF CaptureBoundary, FailBrowser, stageVars, progressVars
<1>21. CASE RetirementObserved
    BY <1>4, <1>21 DEF RetirementObserved, stageVars
<1>22. CASE FinishBrowser
  <2>1. /\ Open(turn) /\ invocations[turn] = {} /\ completionCommitted'[turn]
        /\ UNCHANGED <<phase, invocations, deliveredCallIds, outcome>>
      BY <1>1, <1>22 DEF FinishBrowser, CommitCompletionFence, Serving, Known, Quiet, TypeOK, lifeVars, callVars
  <2>2. outstanding = {} /\ batch = {}
      BY <2>1 DEF OwedSound, Delivered
  <2>3. UNCHANGED <<outstanding, batch, deliveredResults, activeToolCalls, progressRetired>>
      BY <1>22 DEF FinishBrowser, stageVars, sessionVars, progressVars
  <2> QED
      BY <2>1, <2>2, <2>3 DEF OwedSound
<1>23. CASE Elsewhere
  <2>1. ChannelKeeps
    <3>1. \A c \in Calls : ~CompleteTool(turn, c)
        BY <1>1, <1>23 DEF Elsewhere, Register, Claim, Admit, Invoke, Enqueue, CompleteActivity, Revoke, Revoked,
           Emptied, CompleteTool, Settle, Open, Serving, Known, TypeOK, callVars, lifeVars
    <3> QED
        BY <1>2, <3>1
  <2> QED
      BY <1>23, <2>1 DEF Elsewhere, stageVars, progressVars
<1>24. CASE UNCHANGED roundVars
    BY <1>4, <1>24 DEF roundVars, stageVars, progressVars
<1> QED
    BY <1>7, <1>8, <1>9, <1>10, <1>11, <1>12, <1>13, <1>15, <1>16, <1>17, <1>18, <1>19, <1>20, <1>21, <1>22, <1>23, <1>24
    DEF RoundNext, CodexStep, AdapterStep, SendRound, Reconnect

-------------------------------------------------------------------------------
(* The theorems *)

(* The invariant is inductive.                                               *)
LEMMA RoundSoundStep == RoundSound /\ [RoundNext]_roundVars => RoundSound'
<1> SUFFICES ASSUME RoundSound, [RoundNext]_roundVars PROVE RoundSound'
    OBVIOUS
<1> QED
    BY ChannelStays, JournalStep, SessionStep, StageStep, OwedStep DEF RoundSound, ChannelSound

(* So it holds of every behaviour of the rounds.                             *)
LEMMA RoundsAreSound == RoundSpec => []RoundSound
BY RoundSoundInit, RoundSoundStep, PTL DEF RoundSpec

(* What Codex works on is owed by everyone, whatever observers were dropped, *)
(* redelivered or retired: the broker has it as delivered, the progress      *)
(* counts it, and the browser's answer is not final.                         *)
THEOREM CallsAreOwed == RoundSpec => []OutstandingIsOwed
<1>1. RoundSound => OutstandingIsOwed
  <2> SUFFICES ASSUME RoundSound PROVE OutstandingIsOwed
      OBVIOUS
  <2>1. RoundTypeOK
      BY DEF RoundSound, ChannelSound, JournalTyped, SessionTyped, RoundTypeOK
  <2>2. OutstandingIsDelivered /\ OutstandingVetoes /\ FinalOwesNothing
      BY DEF RoundSound, OwedSound, OutstandingIsDelivered, OutstandingVetoes, FinalOwesNothing
  <2> QED
      BY <2>1, <2>2 DEF OutstandingIsOwed
<1> QED
    BY <1>1, RoundsAreSound, PTL

(* Codex gets a batch only when the text before it has been captured, and    *)
(* never a call whose result it has given.                                   *)
THEOREM BatchesAreInOrder == RoundSpec => DispatchedInOrder
<1> DEFINE InOrder == /\ outstanding' # {} /\ outstanding = {} => observedRevision = toolBatchRevision
                      /\ outstanding' \cap deliveredResults = {}
<1>1. ASSUME RoundSound, RoundNext PROVE InOrder
  <2> USE <1>1 DEF RoundSound
  <2>1. CASE DispatchBatch
      BY <2>1 DEF DispatchBatch, BoundaryCaptured, Stands, StageSound, SessionTyped, OwedSound
  <2>2. ASSUME NEW c \in Calls, DeliverResult(c) PROVE InOrder
      BY <2>2 DEF DeliverResult, MarkResultDelivered, OwedSound
  <2>3. ASSUME ~DispatchBatch, \A c \in Calls : ~DeliverResult(c) PROVE outstanding' = outstanding
      BY <2>3 DEF RoundNext, CodexStep, AdapterStep, SendRound, Reconnect, Join, Disconnect, EndsAtOnce, FailsAtOnce,
         Begin, ResultRefused, ArmRedelivered, ArmQueued, ArmWaiting, ArmGone, ArmFails, FinishWithBrowser,
         WaitFails, Fail, Receive, TimerFires, CaptureBoundary, FinishBrowser, FailBrowser, RetirementObserved,
         Elsewhere, sessionVars
  <2> QED
      BY <2>1, <2>2, <2>3 DEF OwedSound
<1>2. RoundSound /\ [RoundNext]_roundVars => [InOrder]_roundVars
    BY <1>1
<1> QED
    BY <1>2, RoundsAreSound, PTL DEF RoundSpec, DispatchedInOrder
===============================================================================
