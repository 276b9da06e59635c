----------------------------- MODULE FencePromise -----------------------------
(***************************************************************************)
(* What the completion fence of one ChatGPT turn promises, without broker, *)
(* messages or revisions: requests start and end while the turn is not     *)
(* closed, the page is read now and then, and the turn is closed only on a *)
(* page that was read after the last start or end, with none in progress.  *)
(***************************************************************************)
CONSTANT Requests

VARIABLES
    active,   \* requests that have started and not ended
    fresh,    \* the page has been read since the last start or end
    closed    \* the answer has been taken from the page

promiseVars == <<active, fresh, closed>>

PromiseInit == active = {} /\ fresh = FALSE /\ closed = FALSE

Start(a) ==
    /\ ~closed
    /\ active' = active \cup {a}
    /\ fresh' = FALSE
    /\ UNCHANGED closed

(* An end may also be announced of a request that never started. *)
End(a) ==
    /\ active' = active \ {a}
    /\ fresh' = FALSE
    /\ UNCHANGED closed

Read == fresh' = TRUE /\ UNCHANGED <<active, closed>>

CloseTurn ==
    /\ ~closed
    /\ active = {}
    /\ fresh
    /\ closed' = TRUE
    /\ UNCHANGED <<active, fresh>>

PromiseNext == Read \/ CloseTurn \/ \E a \in Requests : Start(a) \/ End(a)

PromiseSpec == PromiseInit /\ [][PromiseNext]_promiseVars
===============================================================================
