--------------------------- MODULE MCTurnCompletion ---------------------------
(* Small instances of TurnCompletion for TLC.                                *)
EXTENDS TurnCompletion

CONSTANTS t1, a1

OneTurn    == [a \in Activities |-> t1]
FirstCalls == [c \in Calls |-> a1]

Fence == INSTANCE FencePromise WITH
    Requests <- Activities,
    active   <- activities[t1],
    fresh    <- domFresh[t1],
    closed   <- completionCommitted[t1]

(* The fence keeps its promise ("a completed request cannot disappear       *)
(* across a fence"): a turn is committed only with no MCP request active    *)
(* and on a page that the observer read after the last claim or settling    *)
(* the broker took, and no request starts on a committed turn.              *)
PromiseKept == Fence!PromiseSpec
===============================================================================
