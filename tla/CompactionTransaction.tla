-------------------------- MODULE CompactionTransaction --------------------------
(***************************************************************************)
(* CompactionTransactionStore (chatgpt-web/compaction-transaction.ts): the   *)
(* daemon begins a transaction and gives the web model its token; the model  *)
(* submits the checkpoint through the broker; the daemon waits for it.  The  *)
(* three may come in any order, more than once, or too late.                  *)
(*                                                                          *)
(* A submission and a wait are calls, so each is made once.  A definition    *)
(* under the comment "mutant" is a broken version of the one below it.       *)
(***************************************************************************)
CONSTANTS
    Tokens,        \* control tokens, unguessable and never used twice
    Traces, traceOf,   \* the trace a transaction belongs to
    Submissions,   \* calls of submit with a checkpoint
    Waits,         \* calls of wait
    None

WaitStates == {"unused", "waiting", "rejected"}

ASSUME NoneAssumption  == None \notin Tokens \cup Submissions \cup Waits
ASSUME StateAssumption == WaitStates \cap Submissions = {}
ASSUME TraceAssumption == traceOf \in [Tokens -> Traces]

VARIABLES
    begun,       \* tokens that begin() has returned
    open,        \* transactions
    stored,      \* transaction.summary
    waiter,      \* transaction.waiter
    timer,       \* transactions whose timer is armed
    accepted,    \* history: the submission a token accepted
    disowned,    \* history: tokens whose owner aborted or closed them
    tokenOf,     \* the token of a wait
    outcome      \* of a wait: "unused", "waiting", "rejected" or a submission

vars == <<begun, open, stored, waiter, timer, accepted, disowned, tokenOf, outcome>>

Init ==
    /\ begun = {} /\ open = {} /\ timer = {} /\ disowned = {}
    /\ stored = [t \in Tokens |-> None] /\ waiter = [t \in Tokens |-> None]
    /\ accepted = [t \in Tokens |-> None]
    /\ tokenOf = [w \in Waits |-> None] /\ outcome = [w \in Waits |-> "unused"]

Begin(t) ==
    /\ t \notin begun
    /\ begun' = begun \cup {t}
    /\ open' = open \cup {t}
    /\ timer' = timer \cup {t}
    /\ UNCHANGED <<stored, waiter, accepted, disowned, tokenOf, outcome>>

(* The waits among W are rejected. *)
Rejecting(S) == [w \in Waits |-> IF \E t \in S : waiter[t] = w THEN "rejected" ELSE outcome[w]]

(* finishError(): the transactions S go, and whoever waits is told. *)
FinishError(S) ==
    /\ open' = open \ S
    /\ timer' = timer \ S
    /\ outcome' = Rejecting(S)
    /\ waiter' = [t \in Tokens |-> IF t \in S THEN None ELSE waiter[t]]

(* submit(): refused when the token is unknown or has its summary, or when   *)
(* the handoff id is another's; a refusal changes nothing.  A summary that    *)
(* somebody waits for is consumed, any other is stored and kept.               *)
Untimed(t) == timer \ {t}

Submit(s, t) ==
    /\ t \in open
    /\ stored[t] = None
    /\ \A u \in Tokens : accepted[u] # s
    /\ accepted' = [accepted EXCEPT ![t] = s]
    /\ timer' = Untimed(t)
    /\ \/ /\ waiter[t] = None
          /\ stored' = [stored EXCEPT ![t] = s]
          /\ UNCHANGED <<open, waiter, outcome>>
       \/ /\ waiter[t] # None
          /\ open' = open \ {t}
          /\ outcome' = [outcome EXCEPT ![waiter[t]] = s]
          /\ waiter' = [waiter EXCEPT ![t] = None]
          /\ UNCHANGED stored
    /\ UNCHANGED <<begun, disowned, tokenOf>>

(* wait(): a summary that is there is consumed; a signal that has aborted     *)
(* ends the transaction; a transaction that is gone or already awaited         *)
(* refuses.                                                                   *)
\* mutant
Unheeded(t) == TRUE
Unawaited(t) == waiter[t] = None

WaitRefused(w, t) ==
    /\ outcome[w] = "unused" /\ t \in begun
    /\ t \notin open \/ ~Unawaited(t)
    /\ tokenOf' = [tokenOf EXCEPT ![w] = t]
    /\ outcome' = [outcome EXCEPT ![w] = "rejected"]
    /\ UNCHANGED <<begun, open, stored, waiter, timer, accepted, disowned>>

WaitConsumes(w, t) ==
    /\ outcome[w] = "unused" /\ t \in open /\ Unawaited(t)
    /\ stored[t] # None
    /\ tokenOf' = [tokenOf EXCEPT ![w] = t]
    /\ outcome' = [outcome EXCEPT ![w] = stored[t]]
    /\ open' = open \ {t}
    /\ UNCHANGED <<begun, stored, waiter, timer, accepted, disowned>>

WaitAborted(w, t) ==
    /\ outcome[w] = "unused" /\ t \in open /\ Unawaited(t)
    /\ stored[t] = None
    /\ tokenOf' = [tokenOf EXCEPT ![w] = t]
    /\ open' = open \ {t} /\ timer' = timer \ {t}
    /\ outcome' = [outcome EXCEPT ![w] = "rejected"]
    /\ UNCHANGED <<begun, stored, waiter, accepted, disowned>>

WaitBegins(w, t) ==
    /\ outcome[w] = "unused" /\ t \in open /\ Unawaited(t)
    /\ stored[t] = None
    /\ tokenOf' = [tokenOf EXCEPT ![w] = t]
    /\ outcome' = [outcome EXCEPT ![w] = "waiting"]
    /\ waiter' = [waiter EXCEPT ![t] = w]
    /\ UNCHANGED <<begun, open, stored, timer, accepted, disowned>>

(* The waiter's signal, detached when the wait was answered. *)
SignalAborts(t) ==
    /\ t \in open /\ waiter[t] # None
    /\ FinishError({t})
    /\ UNCHANGED <<begun, stored, accepted, disowned, tokenOf>>

TimerFires(t) ==
    /\ t \in timer \cap open
    /\ FinishError({t})
    /\ UNCHANGED <<begun, stored, accepted, disowned, tokenOf>>

(* abort(): the owner has its answer or wants none; a stored summary goes     *)
(* with it.                                                                   *)
Abort(t) ==
    /\ t \in open
    /\ FinishError({t})
    /\ disowned' = disowned \cup {t}
    /\ UNCHANGED <<begun, stored, accepted, tokenOf>>

(* abortTrace() spares what was submitted; close() does not. *)
\* mutant
OfTrace(tr)   == {t \in open : traceOf[t] = tr}
Revocable(tr) == {t \in open : traceOf[t] = tr /\ stored[t] = None}

AbortTrace(tr) ==
    /\ Revocable(tr) # {}
    /\ FinishError(Revocable(tr))
    /\ UNCHANGED <<begun, stored, accepted, disowned, tokenOf>>

Close ==
    /\ open # {}
    /\ FinishError(open)
    /\ disowned' = disowned \cup open
    /\ UNCHANGED <<begun, stored, accepted, tokenOf>>

Next ==
    \/ \E t \in Tokens : \/ Begin(t) \/ SignalAborts(t) \/ TimerFires(t) \/ Abort(t)
                         \/ \E s \in Submissions : Submit(s, t)
                         \/ \E w \in Waits : \/ WaitRefused(w, t) \/ WaitConsumes(w, t)
                                             \/ WaitAborted(w, t) \/ WaitBegins(w, t)
    \/ \E tr \in Traces : AbortTrace(tr)
    \/ Close

(* Only timers are owed. *)
Spec == Init /\ [][Next]_vars /\ \A t \in Tokens : WF_vars(TimerFires(t))

--------------------------------------------------------------------------------
(* Properties *)

(* The types; a timer is armed only for a transaction in the store. *)
TypeOK ==
    /\ begun \in SUBSET Tokens /\ open \in SUBSET begun /\ timer \in SUBSET open
    /\ disowned \in SUBSET begun
    /\ stored \in [Tokens -> Submissions \cup {None}]
    /\ waiter \in [Tokens -> Waits \cup {None}]
    /\ accepted \in [Tokens -> Submissions \cup {None}]
    /\ tokenOf \in [Waits -> Tokens \cup {None}]
    /\ outcome \in [Waits -> WaitStates \cup Submissions]

(* A wait that is pending is the waiter of a transaction that has no summary   *)
(* yet and whose timer is armed: whatever ends it, the wait is told.           *)
NoWaitIsStranded ==
    \A w \in Waits : outcome[w] = "waiting" =>
        LET t == tokenOf[w] IN
        /\ t \in timer /\ waiter[t] = w /\ stored[t] = None

(* The store keeps the promise of OneShot.  A submission that the web model    *)
(* was told is accepted is read by one wait, and neither the deadline nor a     *)
(* revocation of its trace can take it away before.                            *)
Cell(t) ==
    IF t \notin begun THEN "new"
    ELSE IF t \in open THEN IF stored[t] = None THEN "empty" ELSE "full"
    ELSE IF \E w \in Waits : tokenOf[w] = t /\ outcome[w] \in Submissions THEN "taken"
    ELSE "gone"

Abstract == INSTANCE OneShot WITH
    cell <- [t \in Tokens |-> Cell(t)],
    value <- accepted,
    read <- [w \in Waits |-> IF outcome[w] \in Submissions THEN outcome[w] ELSE None]

OneShotKept == Abstract!Spec

================================================================================
