--------------------------------- MODULE OneShot ---------------------------------
(* What a compaction transaction promises: one checkpoint is put in, at most   *)
(* one reader takes it out, and once in it is lost only when its owner disowns  *)
(* it.                                                                          *)
CONSTANTS Tokens, Submissions, Waits, None

VARIABLES
    cell,      \* of a token: "new", "empty", "full", "taken" or "gone"
    value,     \* what was put in
    read,      \* what a wait has read
    disowned   \* tokens whose owner wants no answer

Init ==
    /\ cell = [t \in Tokens |-> "new"]
    /\ value = [t \in Tokens |-> None]
    /\ read = [w \in Waits |-> None]
    /\ disowned = {}

Begin(t) ==
    /\ cell[t] = "new"
    /\ cell' = [cell EXCEPT ![t] = "empty"]
    /\ UNCHANGED <<value, read, disowned>>

Put(t, s) ==
    /\ cell[t] = "empty"
    /\ cell' = [cell EXCEPT ![t] = "full"]
    /\ value' = [value EXCEPT ![t] = s]
    /\ UNCHANGED <<read, disowned>>

(* The reader is there already. *)
PutTo(t, s, w) ==
    /\ cell[t] = "empty" /\ read[w] = None
    /\ cell' = [cell EXCEPT ![t] = "taken"]
    /\ value' = [value EXCEPT ![t] = s]
    /\ read' = [read EXCEPT ![w] = s]
    /\ UNCHANGED disowned

Take(t, w) ==
    /\ cell[t] = "full" /\ read[w] = None
    /\ cell' = [cell EXCEPT ![t] = "taken"]
    /\ read' = [read EXCEPT ![w] = value[t]]
    /\ UNCHANGED <<value, disowned>>

(* Some tokens end: by time or revocation the empty ones, by their owner any. *)
End(S, D) ==
    /\ \A t \in S : cell[t] = "empty" \/ (cell[t] = "full" /\ t \in D)
    /\ cell' = [t \in Tokens |-> IF t \in S THEN "gone" ELSE cell[t]]
    /\ disowned' = disowned \cup D
    /\ UNCHANGED <<value, read>>

Next ==
    \/ \E t \in Tokens : \/ Begin(t)
                         \/ \E s \in Submissions : \/ Put(t, s)
                                                   \/ \E w \in Waits : PutTo(t, s, w)
                         \/ \E w \in Waits : Take(t, w)
    \/ \E S, D \in SUBSET Tokens : End(S, D)

Spec == Init /\ [][Next]_<<cell, value, read, disowned>>
==================================================================================
