------------------------------ MODULE TurnSessions ------------------------------
(***************************************************************************)
(* ChatGptTurnSessions of src/adapters/chatgpt-web/turn-execution.ts: which  *)
(* ChatGPT browser surface serves which Codex request.                       *)
(*                                                                          *)
(* A request names an execution key (one user instruction of one native     *)
(* turn).  It is attached to the session of that key, or starts one; but     *)
(* "one native Codex thread may own at most one live ChatGPT browser         *)
(* surface", so it first waits for what the owner still has, or preempts it. *)
(* Everything between two awaits is one step.                               *)
(*                                                                          *)
(* A definition under the comment "mutant" is a broken version of the one   *)
(* that follows it; no specification uses it.                               *)
(***************************************************************************)
EXTENDS Naturals, FiniteSets

CONSTANTS
    Keys,            \* execution keys
    ownerOf,         \* the native thread of a key
    turnOf,          \* its native turn
    instructionOf,   \* its user instruction
    predecessorsOf,  \* the instructions its request proves to be older
    conversationOf,  \* the retained conversation it is part of
    Sessions,        \* sessions, each with the browser runtime it starts
    Requests,        \* requests that ask for a session
    keyOf,           \* the execution key of a request
    MaxTabs,         \* MAX_CHATGPT_BROWSER_TABS
    MaxEntries,      \* entries the registry may hold
    None             \* no session, no key

Instructions  == {instructionOf[k] : k \in Keys}
Conversations == {conversationOf[k] : k \in Keys}
NativeTurns   == {turnOf[k] : k \in Keys}

ASSUME PredecessorsAssumption == predecessorsOf \in [Keys -> SUBSET Instructions]
ASSUME KeyOfAssumption        == keyOf \in [Requests -> Keys]
ASSUME LimitsAssumption       == MaxTabs \in Nat /\ MaxEntries \in Nat
ASSUME NoneAssumption         == None \notin Keys \cup Sessions

VARIABLES
    surface,               \* a session's browser: "unused", "live", "released"
    outcome,               \* its browser outcome: "none", "final", "error"
    keyOfSession,          \* the key it was created for
    cancelled,             \* sessions told to stop
    superseded,            \* those a newer instruction has replaced
    attached,              \* those that belong to their conversation
    stale,                 \* those not used for the registry's time to live
    entries,               \* the session of a key
    conversationHeads,     \* the latest session of a conversation
    retirements,           \* the session whose release ends a key's retirement
    ownerRetirements,      \* sessions whose release their owner waits for
    conversationRetirements, \* those whose release a conversation waits for
    pc,                    \* where a request stands
    awaits,                \* what it waits to be released
    served                 \* the session it was given

registryVars == <<entries, conversationHeads>>
retireVars   == <<retirements, ownerRetirements, conversationRetirements>>
sessionVars  == <<surface, outcome, keyOfSession, cancelled, superseded, attached, stale>>
requestVars  == <<pc, awaits, served>>
vars == <<registryVars, retireVars, sessionVars, requestVars>>

Init ==
    /\ surface = [s \in Sessions |-> "unused"]
    /\ outcome = [s \in Sessions |-> "none"]
    /\ keyOfSession = [s \in Sessions |-> None]
    /\ cancelled = {} /\ superseded = {} /\ attached = {} /\ stale = {}
    /\ entries = [k \in Keys |-> None]
    /\ conversationHeads = [c \in Conversations |-> None]
    /\ retirements = [k \in Keys |-> None]
    /\ ownerRetirements = {}
    /\ conversationRetirements = [c \in Conversations |-> {}]
    /\ pc = [q \in Requests |-> "idle"]
    /\ awaits = [q \in Requests |-> {}]
    /\ served = [q \in Requests |-> None]

-------------------------------------------------------------------------------
(* Reading the registry *)

Live         == {s \in Sessions : surface[s] = "live"}
Active(s)    == outcome[s] = "none"
Registered   == {entries[k] : k \in Keys} \ {None}
Owner(s)     == ownerOf[keyOfSession[s]]
InConversation(c) == {s \in attached : conversationOf[keyOfSession[s]] = c}

(* Sessions of k's owner under another key that still have their browser. *)
OwnerSurfaces(k) ==
    {entries[j] : j \in {i \in Keys \ {k} : ownerOf[i] = ownerOf[k] /\ entries[i] \in Live}}

OwnerRetirement(k) == {s \in ownerRetirements : Owner(s) = ownerOf[k]}

(* What the request has to wait for before it looks again. *)
\* mutant
PendingOfKey(k) == {retirements[k]} \ {None}
Pending(k) ==
    IF retirements[k] # None THEN {retirements[k]} ELSE OwnerRetirement(k)

-------------------------------------------------------------------------------
(* Retiring sessions                                                        *)

(* forgetConversationHead() of every session in S. *)
ForgetHeads(S) ==
    conversationHeads' = [c \in Conversations |->
        IF conversationHeads[c] \in S \cap attached THEN None ELSE conversationHeads[c]]

RemoveEntries(S) ==
    entries' = [k \in Keys |-> IF entries[k] \in S THEN None ELSE entries[k]]

(* session.cancel(): with a reason the outcome is an error at once. *)
CancelWithReason(S) ==
    /\ cancelled' = cancelled \cup S
    /\ outcome' = [s \in Sessions |-> IF s \in S /\ Active(s) THEN "error" ELSE outcome[s]]
Cancel(S) == cancelled' = cancelled \cup S /\ UNCHANGED outcome

(* beginRetirement() of the sessions in S, each under its key: what is       *)
(* retired already is left alone, what is released already is not awaited.   *)
KeysOf(S)      == {k \in Keys : entries[k] \in S}
NewlyRetired(S) == {entries[k] : k \in {j \in KeysOf(S) : retirements[j] = None}}
AwaitRelease(S) ==
    LET T == NewlyRetired(S) \cap Live IN
    /\ retirements' = [k \in Keys |->
           IF k \in KeysOf(S) /\ entries[k] \in T /\ retirements[k] = None
           THEN entries[k] ELSE retirements[k]]
    /\ ownerRetirements' = ownerRetirements \cup T
    /\ conversationRetirements' = [c \in Conversations |->
           conversationRetirements[c] \cup (T \cap InConversation(c))]

\* mutant
KeepKeyRetirement(s) ==
    /\ ownerRetirements' = ownerRetirements \ {s}
    /\ conversationRetirements' = [c \in Conversations |-> conversationRetirements[c] \ {s}]
    /\ UNCHANGED retirements
ForgetRetirement(s) ==
    /\ retirements' = [k \in Keys |-> IF retirements[k] = s THEN None ELSE retirements[k]]
    /\ ownerRetirements' = ownerRetirements \ {s}
    /\ conversationRetirements' = [c \in Conversations |-> conversationRetirements[c] \ {s}]

(* The browser of a session is released: whoever waits for it may go on. *)
Release(s) ==
    /\ s \in Live
    /\ s \in cancelled \/ ~Active(s)
    /\ surface' = [surface EXCEPT ![s] = "released"]
    /\ outcome' = [outcome EXCEPT ![s] = IF Active(s) THEN "error" ELSE @]
    /\ ForgetRetirement(s)
    /\ awaits' = [q \in Requests |-> awaits[q] \ {s}]
    /\ UNCHANGED <<registryVars, keyOfSession, cancelled, superseded, attached, stale, pc, served>>

(* ChatGPT finishes the response or fails. *)
Settle(s) ==
    /\ s \in Live /\ Active(s)
    /\ \E how \in {"final", "error"} : outcome' = [outcome EXCEPT ![s] = how]
    /\ UNCHANGED <<registryVars, retireVars, surface, keyOfSession, cancelled, superseded,
                   attached, stale, requestVars>>

(* retire(), retireAndWait(), retireAbortedOwnerTurns(), clear(): the        *)
(* sessions leave the registry and are asked to stop.                        *)
RetireSessions(S) ==
    /\ RemoveEntries(S)
    /\ ForgetHeads(S)
    /\ Cancel(NewlyRetired(S))
    /\ AwaitRelease(S)
    /\ UNCHANGED <<surface, keyOfSession, superseded, attached, stale, requestVars>>

Retire(k) == entries[k] # None /\ RetireSessions({entries[k]})

Clear == Registered # {} /\ RetireSessions(Registered)

RetireAbortedOwnerTurns(k, turn) ==
    LET S == {s \in Registered : /\ Owner(s) = ownerOf[k] /\ Active(s)
                                 /\ turnOf[keyOfSession[s]] = turn
                                 /\ s # entries[k]}
    IN  S # {} /\ RetireSessions(S)

(* cancelNativeTurn(): an interrupted turn ends at once; its browser is      *)
(* released later.                                                           *)
CancelNativeTurn(turn) ==
    LET S == {s \in Registered : turnOf[keyOfSession[s]] = turn} IN
    /\ S # {}
    /\ RemoveEntries(S)
    /\ ForgetHeads(S)
    /\ CancelWithReason(NewlyRetired(S))
    /\ AwaitRelease(S)
    /\ UNCHANGED <<surface, keyOfSession, superseded, attached, stale, requestVars>>

(* cancelTrace(): the user closed the tab; the entry stays. *)
CancelTrace(s) ==
    /\ s \in Registered /\ Active(s)
    /\ CancelWithReason({s})
    /\ UNCHANGED <<registryVars, retireVars, surface, keyOfSession, superseded, attached,
                   stale, requestVars>>

(* prune(): settled sessions that nobody has used for long.  It looks at     *)
(* the outcome, not at whether the browser is released.                      *)
Prunable == {s \in Registered : ~Active(s) /\ s \in stale}

(* activeCount(), run by every health request, prunes. *)
Prune ==
    /\ Prunable # {}
    /\ RemoveEntries(Prunable)
    /\ ForgetHeads(Prunable)
    /\ Cancel(Prunable)
    /\ UNCHANGED <<retireVars, surface, keyOfSession, superseded, attached, stale, requestVars>>

(* Thirty minutes without a request for the session. *)
GrowStale(s) ==
    /\ s \in Registered \ stale
    /\ stale' = stale \cup {s}
    /\ UNCHANGED <<registryVars, retireVars, surface, outcome, keyOfSession, cancelled,
                   superseded, attached, requestVars>>

(* closeConversationAndWait(): compaction ends the conversation; every       *)
(* session of it is dropped, but for a final answer that is kept under the   *)
(* key its next request will name.  While the conversation still waits for   *)
(* an earlier session it does nothing.                                       *)
TargetIsFree(c, p, target) == entries[target] \in {None, p}

CloseConversation(c, p, target) ==
    LET S == Registered \cap InConversation(c) IN
    /\ conversationRetirements[c] = {}
    /\ S # {}
    /\ \/ p = None
       \/ p \in S /\ outcome[p] = "final" /\ ownerOf[target] = Owner(p) /\ TargetIsFree(c, p, target)
    /\ conversationHeads' = [conversationHeads EXCEPT ![c] = None]
    /\ entries' = [k \in Keys |-> IF p # None /\ k = target THEN p
                                  ELSE IF entries[k] \in S THEN None ELSE entries[k]]
    /\ Cancel({s \in S : Active(s)})
    /\ attached' = attached \ S
    /\ conversationRetirements' = [conversationRetirements EXCEPT ![c] = S \cap Live]
    /\ UNCHANGED <<retirements, ownerRetirements, surface, keyOfSession, superseded, stale,
                   requestVars>>

-------------------------------------------------------------------------------
(* getOrCreateAfterOwnerRetirement(): one step is one turn of its loop       *)

Looking(q) == pc[q] = "idle" \/ (pc[q] = "waiting" /\ awaits[q] = {})

Answer(q, how, s) ==
    /\ pc' = [pc EXCEPT ![q] = how]
    /\ served' = [served EXCEPT ![q] = s]
    /\ UNCHANGED awaits

Wait(q, S) ==
    /\ pc' = [pc EXCEPT ![q] = "waiting"]
    /\ awaits' = [awaits EXCEPT ![q] = S]
    /\ UNCHANGED served

Attach(q) ==
    LET s == entries[keyOf[q]] IN
    /\ Looking(q)
    /\ s # None
    /\ s \notin superseded
    /\ Answer(q, "served", s)
    /\ stale' = stale \ {s}
    /\ UNCHANGED <<registryVars, retireVars, surface, outcome, keyOfSession, cancelled,
                   superseded, attached>>

RefuseSuperseded(q) ==
    /\ Looking(q)
    /\ entries[keyOf[q]] \in superseded
    /\ Answer(q, "refused", None)
    /\ UNCHANGED <<registryVars, retireVars, sessionVars>>

AwaitRetirement(q) ==
    /\ Looking(q)
    /\ entries[keyOf[q]] = None
    /\ Pending(keyOf[q]) # {}
    /\ Wait(q, Pending(keyOf[q]))
    /\ UNCHANGED <<registryVars, retireVars, sessionVars>>

(* The owner's other session is in the way. *)
InTheWay(q, s) ==
    /\ Looking(q)
    /\ entries[keyOf[q]] = None
    /\ Pending(keyOf[q]) = {}
    /\ s \in OwnerSurfaces(keyOf[q])

(* It works on another instruction. *)
Steered(q, s) == Active(s) /\ instructionOf[keyOf[q]] # instructionOf[keyOfSession[s]]
ProvenOlder(q, s) == instructionOf[keyOfSession[s]] \in predecessorsOf[keyOf[q]]

AwaitSettlement(q, s) ==
    /\ InTheWay(q, s)
    /\ ~Steered(q, s)
    /\ Wait(q, {s})
    /\ UNCHANGED <<registryVars, retireVars, sessionVars>>

Supersede(q, s) ==
    /\ InTheWay(q, s)
    /\ Steered(q, s)
    /\ ProvenOlder(q, s)
    /\ superseded' = superseded \cup {s}
    /\ ForgetHeads({s})
    /\ CancelWithReason(NewlyRetired({s}))
    /\ AwaitRelease({s})
    /\ Wait(q, {s})
    /\ UNCHANGED <<entries, surface, keyOfSession, attached, stale>>

RefuseUnproven(q, s) ==
    /\ InTheWay(q, s)
    /\ Steered(q, s)
    /\ ~ProvenOlder(q, s)
    /\ Answer(q, "refused", None)
    /\ UNCHANGED <<registryVars, retireVars, sessionVars>>

(* Nothing is in the way: getOrCreate(), which prunes first. *)
Kept == Registered \ Prunable
TabsFull == Cardinality({s \in Kept : Active(s)}) >= MaxTabs
EntriesFull ==
    Cardinality({k \in Keys : entries[k] # None /\ entries[k] \notin Prunable}) >= MaxEntries

Unobstructed(q) ==
    entries[keyOf[q]] = None /\ Pending(keyOf[q]) = {} /\ OwnerSurfaces(keyOf[q]) = {}

(* A new session: which of the unused ones it is makes no difference. *)
NewSession == CHOOSE s \in Sessions : surface[s] = "unused"

Create(q, s) ==
    LET k == keyOf[q] IN
    /\ Looking(q)
    /\ Unobstructed(q)
    /\ ~TabsFull /\ ~EntriesFull
    /\ surface[s] = "unused" /\ s = NewSession
    /\ surface' = [surface EXCEPT ![s] = "live"]
    /\ keyOfSession' = [keyOfSession EXCEPT ![s] = k]
    /\ attached' = attached \cup {s}
    /\ entries' = [j \in Keys |-> IF j = k THEN s
                                  ELSE IF entries[j] \in Prunable THEN None ELSE entries[j]]
    /\ conversationHeads' = [c \in Conversations |->
           IF c = conversationOf[k] THEN s
           ELSE IF conversationHeads[c] \in Prunable \cap attached THEN None ELSE conversationHeads[c]]
    /\ Cancel(Prunable)
    /\ Answer(q, "served", s)
    /\ UNCHANGED <<retireVars, superseded, stale>>

RefuseFull(q) ==
    /\ Looking(q)
    /\ Unobstructed(q)
    /\ TabsFull \/ EntriesFull
    /\ RemoveEntries(Prunable)
    /\ ForgetHeads(Prunable)
    /\ Cancel(Prunable)
    /\ Answer(q, "refused", None)
    /\ UNCHANGED <<retireVars, surface, keyOfSession, superseded, attached, stale>>

(* The client of a waiting request goes away. *)
Abort(q) ==
    /\ pc[q] = "waiting"
    /\ pc' = [pc EXCEPT ![q] = "aborted"]
    /\ awaits' = [awaits EXCEPT ![q] = {}]
    /\ UNCHANGED <<registryVars, retireVars, sessionVars, served>>

Look(q) ==
    \/ Attach(q) \/ RefuseSuperseded(q) \/ AwaitRetirement(q) \/ RefuseFull(q)
    \/ \E s \in Sessions : \/ AwaitSettlement(q, s) \/ Supersede(q, s)
                           \/ RefuseUnproven(q, s) \/ Create(q, s)

RegistryStep ==
    \/ Prune \/ Clear
    \/ \E k \in Keys : Retire(k) \/ \E turn \in NativeTurns : RetireAbortedOwnerTurns(k, turn)
    \/ \E turn \in NativeTurns : CancelNativeTurn(turn)
    \/ \E c \in Conversations, p \in Sessions \cup {None}, k \in Keys : CloseConversation(c, p, k)

SessionStep(s) == Settle(s) \/ Release(s) \/ CancelTrace(s) \/ GrowStale(s)

Next ==
    \/ \E q \in Requests : Look(q) \/ Abort(q)
    \/ RegistryStep
    \/ \E s \in Sessions : SessionStep(s)

(* A request whose await has ended goes on, and a browser that was told to   *)
(* stop, or whose response has settled, is released by its worker's finally  *)
(* block.  Nothing obliges ChatGPT to settle.                                *)
Fairness ==
    /\ \A q \in Requests : WF_vars(pc[q] = "waiting" /\ Look(q))
    /\ \A s \in Sessions : WF_vars(Release(s))

Spec == Init /\ [][Next]_vars /\ Fairness

-------------------------------------------------------------------------------
(* Properties *)

(* Every variable has its type; what a retirement or a request still waits   *)
(* for is a live browser: a released one is awaited by nobody.               *)
TypeOK ==
    /\ surface \in [Sessions -> {"unused", "live", "released"}]
    /\ outcome \in [Sessions -> {"none", "final", "error"}]
    /\ keyOfSession \in [Sessions -> Keys \cup {None}]
    /\ cancelled \in SUBSET Sessions
    /\ superseded \in SUBSET Sessions
    /\ attached \in SUBSET Sessions
    /\ stale \in SUBSET Sessions
    /\ entries \in [Keys -> Sessions \cup {None}]
    /\ conversationHeads \in [Conversations -> Sessions \cup {None}]
    /\ retirements \in [Keys -> Live \cup {None}]
    /\ ownerRetirements \in SUBSET Live
    /\ conversationRetirements \in [Conversations -> SUBSET Live]
    /\ pc \in [Requests -> {"idle", "waiting", "served", "refused", "aborted"}]
    /\ awaits \in [Requests -> SUBSET Live]
    /\ served \in [Requests -> Sessions \cup {None}]

(* A thread's surfaces are serialized: of the sessions the registry still    *)
(* answers for, by an entry or by a retirement the owner waits for, at most   *)
(* one per thread has a live browser, whatever requests raced, waited,       *)
(* preempted one another or were replayed.                                   *)
SurfacesSerialized ==
    \A s, t \in Live \cap (Registered \cup ownerRetirements) : s # t => Owner(s) # Owner(t)

(* "Waiting for the old browser here deadlocks": a request never waits for a *)
(* response to another instruction that nobody has told to stop.             *)
NoSteeringDeadlock ==
    \A q \in Requests : \A s \in awaits[q] :
        Active(s) /\ s \notin cancelled
            => instructionOf[keyOf[q]] = instructionOf[keyOfSession[s]]

(* A response that a newer instruction has superseded never becomes an       *)
(* answer: "keep the old entry terminal".                                    *)
SupersededHasNoAnswer ==
    \A s \in superseded : outcome[s] = "error"

(* What the registry knows of a thread agrees with its browsers, and nobody   *)
(* waits for what will not end (resolveThread, retire and abortTrace).       *)
RegistryHolds == TypeOK /\ SurfacesSerialized /\ SupersededHasNoAnswer /\ NoSteeringDeadlock

(* A request that waits for sessions which have been told to stop goes on    *)
(* in the end: no retirement stays pending once its browser is released.     *)
CancelledWaitsEnd ==
    \A q \in Requests :
        (pc[q] = "waiting" /\ awaits[q] \subseteq cancelled)
            ~> (pc[q] # "waiting" \/ ~(awaits[q] \subseteq cancelled))
===============================================================================
