----------------------------- MODULE MCTurnBroker -----------------------------
(* A small instance of TurnBroker for TLC: one turn, which registers as a     *)
(* native turn or as a Zero Risk turn.                                       *)
EXTENDS TurnBroker
===============================================================================
