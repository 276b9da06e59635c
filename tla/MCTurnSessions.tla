----------------------------- MODULE MCTurnSessions -----------------------------
(* Small instances of TurnSessions for TLC: one thread with three execution   *)
(* keys, k1 and k2 two instructions of one turn, k3 the next turn; k4 is      *)
(* another thread's.                                                          *)
EXTENDS TurnSessions

CONSTANTS k1, k2, k3, k4, q2, q3, q5

OwnerOf        == [k \in Keys |-> IF k = k4 THEN "other" ELSE "thread"]
TurnOf         == [k \in Keys |-> IF k = k4 THEN "t3" ELSE IF k = k3 THEN "t2" ELSE "t1"]
InstructionOf  == [k \in Keys |-> IF k = k1 THEN "i1" ELSE IF k = k2 THEN "i2"
                                  ELSE IF k = k3 THEN "i3" ELSE "i4"]
(* A request carries the instructions before its own. *)
PredecessorsOf == [k \in Keys |-> IF k = k2 THEN {"i1"} ELSE IF k = k3 THEN {"i1", "i2"} \cap Instructions
                                   ELSE {}]
(* q2, q3 and q5 ask for k2, k3 and k4; the others are replays of k1. *)
KeyOf == [q \in Requests |-> IF q = q2 THEN k2 ELSE IF q = q3 THEN k3
                              ELSE IF q = q5 THEN k4 ELSE k1]
ConversationOf == [k \in Keys |-> IF k = k4 THEN "c2" ELSE "c1"]
===============================================================================
