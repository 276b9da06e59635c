---------------------------- MODULE TurnCompletion ----------------------------
(***************************************************************************)
(* Native turns from end to end: the MCP server's request handlers         *)
(* (src/adapters/chatgpt-web/mcp-server.ts), the browser observer that      *)
(* decides that ChatGPT has finished (browser-worker.ts) and the adapter    *)
(* that owns the turn, all on one TurnBroker.                               *)
(*                                                                         *)
(* The MCP server is another process.  Each of its broker requests opens a  *)
(* socket of its own, so requests may be lost, be handled after their       *)
(* sender has given up on them, or overtake one another.                    *)
(*                                                                          *)
(* A definition under the comment "mutant" is a broken version of the one  *)
(* that follows it; no specification uses it.                              *)
(***************************************************************************)
EXTENDS TurnBroker

CONSTANTS
    turnOf,       \* the turn token an MCP request carries
    requestOf,    \* the MCP request that issues a tool call
    NoRevision    \* completionFenceRevision while it is undefined

ASSUME TurnOfAssumption    == turnOf \in [Activities -> Turns]
ASSUME RequestOfAssumption == requestOf \in [Calls -> Activities]
ASSUME NoRevisionAssumption == NoRevision \notin Nat
ASSUME NativeAssumption    == SafeTurns = {}

VARIABLES
    mcp,          \* where the handler of an MCP request stands
    attempts,     \* its activity_complete attempts so far
    claimNet,     \* claims sent and not yet handled by the broker
    settleNet,    \* those of them on the way to the broker
    invocation,   \* where invoke() stands with a tool call
    invokeNet,    \* invoke requests on the way
    releaseNet,   \* release requests on the way
    observer,     \* the browser observer: "waiting", "read", "finished"
    fenceRevision,\* completionFenceRevision, NoRevision when undefined
    domFresh      \* history: no tool activity since the observer's last DOM read

mcpVars      == <<mcp, attempts, claimNet, settleNet>>
invokeVars   == <<invocation, invokeNet, releaseNet>>
observerVars == <<observer, fenceRevision>>
turnVars     == <<vars, mcpVars, invokeVars, observerVars, domFresh>>

Attempts    == 2     \* settleTurnActivity tries twice

McpStates   == {"idle", "claiming", "acting", "settling", "awaiting", "done", "stuck"}
CallStates  == {"idle", "sent", "answered", "releasing", "released", "unreleased"}

TurnTypeOK ==
    /\ TypeOK
    /\ mcp \in [Activities -> McpStates]
    /\ attempts \in [Activities -> 0..Attempts]
    /\ claimNet \in SUBSET Activities
    /\ settleNet \in [Activities -> SUBSET (1..Attempts)]
    /\ invocation \in [Calls -> CallStates]
    /\ invokeNet \in SUBSET Calls
    /\ releaseNet \in SUBSET Calls
    /\ observer \in [Turns -> {"waiting", "read", "finished"}]
    /\ fenceRevision \in [Turns -> Nat \cup {NoRevision}]
    /\ domFresh \in [Turns -> BOOLEAN]

TurnInit ==
    /\ Init
    /\ mcp = [a \in Activities |-> "idle"]
    /\ attempts = [a \in Activities |-> 0]
    /\ claimNet = {}
    /\ settleNet = [a \in Activities |-> {}]
    /\ invocation = [c \in Calls |-> "idle"]
    /\ invokeNet = {}
    /\ releaseNet = {}
    /\ observer = [t \in Turns |-> "waiting"]
    /\ fenceRevision = [t \in Turns |-> NoRevision]
    /\ domFresh = [t \in Turns |-> FALSE]

(* A tool event of turn t outdates what the observer has read. *)
ToolEvent(t) == domFresh' = [domFresh EXCEPT ![t] = FALSE]

CallsOf(a) == {c \in Calls : requestOf[c] = a}

-------------------------------------------------------------------------------
(* withClaimedTurn(): claim, act, settle                                    *)
(*                                                                          *)
(* A reply that comes too late is a request handled after its sender gave   *)
(* up on it, which the sender cannot tell from one still on its way.        *)

(* An MCP request reaches the server: claimTurn() sends the claim. *)
ReceiveRequest(a) ==
    /\ mcp[a] = "idle"
    /\ phase[turnOf[a]] # "unregistered"
    /\ mcp' = [mcp EXCEPT ![a] = "claiming"]
    /\ claimNet' = claimNet \cup {a}
    /\ UNCHANGED <<vars, attempts, settleNet, invokeVars, observerVars, domFresh>>

(* The claim is off the wire; its sender, if it still waits, goes on. *)
\* mutant
ClaimHandledLate(a, next) ==
    /\ a \in claimNet
    /\ claimNet' = claimNet \ {a}
    /\ mcp' = [mcp EXCEPT ![a] = next]
    /\ UNCHANGED <<attempts, settleNet, invokeVars, observerVars>>
ClaimHandled(a, next) ==
    /\ a \in claimNet
    /\ claimNet' = claimNet \ {a}
    /\ mcp' = IF mcp[a] = "claiming" THEN [mcp EXCEPT ![a] = next] ELSE mcp
    /\ UNCHANGED <<attempts, settleNet, invokeVars, observerVars>>

DeliverClaim(a) ==
    /\ ClaimHandled(a, "acting")
    /\ Claim(turnOf[a], a)
    /\ ToolEvent(turnOf[a])

RefuseRequest(a) ==
    /\ ClaimHandled(a, "settling")
    /\ Swept
    /\ ~TakesClaims(turnOf[a]) \/ Tombstoned(turnOf[a], a)
    /\ UNCHANGED <<vars, domFresh>>

LoseClaim(a) == ClaimHandled(a, "settling") /\ UNCHANGED <<vars, domFresh>>

(* The five seconds pass, or ChatGPT cancels: an activity the broker may or *)
(* may not have admitted has to be settled.                                 *)
GiveUpClaim(a) ==
    /\ mcp[a] = "claiming"
    /\ mcp' = [mcp EXCEPT ![a] = "settling"]
    /\ UNCHANGED <<vars, attempts, claimNet, settleNet, invokeVars, observerVars, domFresh>>

(* The tool's callback returns or throws once each of its calls has ended. *)
ActionEnds(a) ==
    /\ mcp[a] = "acting"
    /\ \A c \in CallsOf(a) : invocation[c] \notin {"sent", "releasing"}
    /\ mcp' = [mcp EXCEPT ![a] = "settling"]
    /\ UNCHANGED <<vars, attempts, claimNet, settleNet, invokeVars, observerVars, domFresh>>

(* settleTurnActivity(): up to two attempts, each request its own. *)
SendSettle(a) ==
    /\ mcp[a] = "settling"
    /\ mcp' = [mcp EXCEPT ![a] = "awaiting"]
    /\ attempts' = [attempts EXCEPT ![a] = @ + 1]
    /\ settleNet' = [settleNet EXCEPT ![a] = @ \cup {attempts[a] + 1}]
    /\ UNCHANGED <<vars, claimNet, invokeVars, observerVars, domFresh>>

AfterFailedSettle(a) == IF attempts[a] < Attempts THEN "settling" ELSE "stuck"

(* Attempt k is off the wire; if the server still waits for it, it goes on. *)
SettleHandled(a, k, next) ==
    /\ k \in settleNet[a]
    /\ settleNet' = [settleNet EXCEPT ![a] = @ \ {k}]
    /\ mcp' = IF mcp[a] = "awaiting" /\ attempts[a] = k
              THEN [mcp EXCEPT ![a] = next] ELSE mcp
    /\ UNCHANGED <<attempts, claimNet, invokeVars, observerVars>>

DeliverSettle(a, k) ==
    /\ SettleHandled(a, k, "done")
    /\ CompleteActivity(turnOf[a], a)
    /\ ToolEvent(turnOf[a])

(* "retired" and "duplicate" are answers too. *)
DeliverIdleSettle(a, k) ==
    /\ SettleHandled(a, k, "done")
    /\ Swept
    /\ ~Open(turnOf[a]) \/ Tombstoned(turnOf[a], a)
    /\ UNCHANGED <<vars, domFresh>>

LoseSettle(a, k) ==
    SettleHandled(a, k, AfterFailedSettle(a)) /\ UNCHANGED <<vars, domFresh>>

GiveUpSettle(a) ==
    /\ mcp[a] = "awaiting"
    /\ mcp' = [mcp EXCEPT ![a] = AfterFailedSettle(a)]
    /\ UNCHANGED <<vars, attempts, claimNet, settleNet, invokeVars, observerVars, domFresh>>

-------------------------------------------------------------------------------
(* invoke(): a native tool call under a claimed request *)

SendInvoke(c) ==
    /\ mcp[requestOf[c]] = "acting"
    /\ invocation[c] = "idle"
    /\ invocation' = [invocation EXCEPT ![c] = "sent"]
    /\ invokeNet' = invokeNet \cup {c}
    /\ UNCHANGED <<vars, mcpVars, releaseNet, observerVars, domFresh>>

TurnOfCall(c) == turnOf[requestOf[c]]

(* A failed invoke() releases the binding before it throws. *)
Release(c) ==
    /\ invocation' = IF invocation[c] = "sent"
                     THEN [invocation EXCEPT ![c] = "releasing"] ELSE invocation
    /\ releaseNet' = IF invocation[c] = "sent" THEN releaseNet \cup {c} ELSE releaseNet

DeliverInvoke(c) ==
    /\ c \in invokeNet
    /\ invokeNet' = invokeNet \ {c}
    /\ Invoke(TurnOfCall(c), c) \/ InterceptInvoke(TurnOfCall(c), c)
    /\ UNCHANGED <<mcpVars, invocation, releaseNet, observerVars, domFresh>>

(* The broker answers that the binding is retired, or is not there. *)
FailInvoke(c) ==
    /\ c \in invokeNet
    /\ invokeNet' = invokeNet \ {c}
    /\ Release(c)
    /\ UNCHANGED <<vars, mcpVars, observerVars, domFresh>>

ReceiveResult(c) ==
    /\ invocation[c] = "sent"
    /\ outcome[c] \in {"result", "interrupted"}
    /\ invocation' = [invocation EXCEPT ![c] = "answered"]
    /\ UNCHANGED <<vars, mcpVars, invokeNet, releaseNet, observerVars, domFresh>>

(* The call is rejected, times out, or ChatGPT cancels the request. *)
AbandonInvoke(c) ==
    /\ invocation[c] = "sent"
    /\ Release(c)
    /\ UNCHANGED <<vars, mcpVars, invokeNet, observerVars, domFresh>>

ReleaseHandled(c, next) ==
    /\ c \in releaseNet
    /\ releaseNet' = releaseNet \ {c}
    /\ invocation' = IF invocation[c] = "releasing"
                     THEN [invocation EXCEPT ![c] = next] ELSE invocation
    /\ UNCHANGED <<mcpVars, invokeNet, observerVars, domFresh>>

DeliverRelease(c) ==
    /\ ReleaseHandled(c, "released")
    /\ Serving(TurnOfCall(c))
    /\ bound[TurnOfCall(c)]
    /\ Revoke(TurnOfCall(c))

DeliverIdleRelease(c) ==
    /\ ReleaseHandled(c, "released")
    /\ Swept
    /\ ~bound[TurnOfCall(c)]
    /\ UNCHANGED vars

LoseRelease(c) == ReleaseHandled(c, "unreleased") /\ UNCHANGED vars

GiveUpRelease(c) ==
    /\ invocation[c] = "releasing"
    /\ invocation' = [invocation EXCEPT ![c] = "unreleased"]
    /\ UNCHANGED <<vars, mcpVars, invokeNet, releaseNet, observerVars, domFresh>>

-------------------------------------------------------------------------------
(* The browser observer: it reads the page again and again; once the page    *)
(* looks finished it begins the fence, reads the page once more, and commits *)
(* at the revision it began with.  What the page shows is the environment's. *)

Observe(t, next, revision) ==
    /\ observer' = [observer EXCEPT ![t] = next]
    /\ fenceRevision' = [fenceRevision EXCEPT ![t] = revision]

ReadDom(t) ==
    /\ observer[t] = "waiting"
    /\ Open(t)
    /\ Observe(t, "read", fenceRevision[t])
    /\ domFresh' = [domFresh EXCEPT ![t] = TRUE]
    /\ UNCHANGED <<vars, mcpVars, invokeVars>>

LooksUnfinished(t) ==
    /\ observer[t] = "read"
    /\ Observe(t, "waiting", NoRevision)
    /\ UNCHANGED <<vars, mcpVars, invokeVars, domFresh>>

BeginFence(t) ==
    /\ observer[t] = "read"
    /\ fenceRevision[t] = NoRevision
    /\ Serving(t)
    /\ Observe(t, "waiting", IF MayBeginFence(t) THEN FenceRevision(t) ELSE NoRevision)
    /\ UNCHANGED <<vars, mcpVars, invokeVars, domFresh>>

CommitFence(t) ==
    /\ observer[t] = "read"
    /\ fenceRevision[t] # NoRevision
    /\ CommitCompletionFence(t, fenceRevision[t])
    /\ Observe(t, "finished", fenceRevision[t])
    /\ UNCHANGED <<mcpVars, invokeVars, domFresh>>

CommitFails(t) ==
    /\ observer[t] = "read"
    /\ fenceRevision[t] # NoRevision
    /\ Serving(t)
    /\ ~Quiet(t) \/ activityRevision[t] # fenceRevision[t]
    /\ Observe(t, "waiting", NoRevision)
    /\ UNCHANGED <<vars, mcpVars, invokeVars, domFresh>>

-------------------------------------------------------------------------------
(* The adapter and the broker's timer.  A native turn's deadline only adds    *)
(* another moment at which it may be revoked, so it is registered without.   *)

OwnerActs(t) ==
    /\ \/ Register(t, "none")
       \/ \E w \in Polls : NextToolBatch(t, w) \/ AbortPoll(t, w)
       \/ \E c \in Calls : CompleteTool(t, c)
       \/ RequestCompaction(t)
       \/ Revoke(t)
       \/ BatchTimerFires(t)
    /\ UNCHANGED <<mcpVars, invokeVars, observerVars, domFresh>>

ClaimReplies(a)     == DeliverClaim(a) \/ RefuseRequest(a) \/ LoseClaim(a)
SettleReplies(a, k) == DeliverSettle(a, k) \/ DeliverIdleSettle(a, k) \/ LoseSettle(a, k)
ReleaseReplies(c)   == DeliverRelease(c) \/ DeliverIdleRelease(c) \/ LoseRelease(c)

RequestStep(a) ==
    \/ ReceiveRequest(a) \/ ClaimReplies(a) \/ GiveUpClaim(a)
    \/ ActionEnds(a) \/ SendSettle(a) \/ GiveUpSettle(a)
    \/ \E k \in 1..Attempts : SettleReplies(a, k)

CallStep(c) ==
    \/ SendInvoke(c) \/ DeliverInvoke(c) \/ FailInvoke(c)
    \/ ReceiveResult(c) \/ AbandonInvoke(c)
    \/ ReleaseReplies(c) \/ GiveUpRelease(c)

ObserverStep(t) ==
    ReadDom(t) \/ LooksUnfinished(t) \/ BeginFence(t) \/ CommitFence(t) \/ CommitFails(t)

TurnNext ==
    \/ \E a \in Activities : RequestStep(a)
    \/ \E c \in Calls : CallStep(c)
    \/ \E t \in Turns : ObserverStep(t) \/ OwnerActs(t)

(* Every broker request of the MCP server but invoke has a deadline, and a  *)
(* handler whose await has ended goes on.  Nothing obliges ChatGPT to send  *)
(* a request, the owner to answer a call, or the page to look finished.     *)
TurnFairness ==
    /\ \A a \in Activities :
         /\ WF_turnVars(GiveUpClaim(a))
         /\ WF_turnVars(ActionEnds(a))
         /\ WF_turnVars(SendSettle(a))
         /\ WF_turnVars(GiveUpSettle(a))
    /\ \A c \in Calls : WF_turnVars(ReceiveResult(c)) /\ WF_turnVars(GiveUpRelease(c))

TurnSpec == TurnInit /\ [][TurnNext]_turnVars /\ TurnFairness

-------------------------------------------------------------------------------
(* Properties *)

(* "Every MCP request owns a lease from token claim until its handler has   *)
(* settled": the broker never counts a request as active whose handler has  *)
(* not been given its claim or has been told that it is settled, however    *)
(* the claim and the settling were delayed, lost or reordered.              *)
ActiveHasHandler ==
    \A a \in Activities : Open(turnOf[a]) /\ a \in activities[turnOf[a]] =>
        mcp[a] \in {"acting", "settling", "awaiting", "stuck"}

(* A handler runs tools only under its lease: while it acts on a turn that  *)
(* is live, the turn counts it as active, so neither fence nor answer can   *)
(* close the turn under it.                                                 *)
ActingIsLeased ==
    \A a \in Activities : mcp[a] = "acting" /\ Open(turnOf[a]) => a \in activities[turnOf[a]]

(* After the completion is committed no native tool call is pending on the  *)
(* turn, but for a call whose handler failed both to finish it and to       *)
(* release the binding.                                                     *)
NoCallAfterCommit ==
    \A t \in Turns : completionCommitted[t] =>
        \A c \in invocations[t] : invocation[c] = "unreleased"

(* A claim is a lease: every request that acts has one, none is counted     *)
(* without its handler, and none is left when the completion is committed.  *)
LeaseHolds == TurnTypeOK /\ ActiveHasHandler /\ ActingIsLeased /\ NoCallAfterCommit
===============================================================================
