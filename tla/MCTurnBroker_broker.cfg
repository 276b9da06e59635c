\* One turn, native or Zero Risk: queueing, delivery, compaction, the fence,
\* revocation, Sent, start, held requests, answers.
SPECIFICATION Spec
CONSTANTS
    Turns = {t1, t2}
    SafeTurns = {t1}
    MaxTurns = 1
    Activities = {a1, a2}
    Calls = {c1, c2}
    Polls = {w1, w2}
    Answers = {x, y}
    NoAnswer = none
INVARIANTS
    CallsAccounted
    TombstonesHold
    ClosedIsQuiet
    SafeAuthorised
    WaitersHaveAFuture
PROPERTIES
    SettledOnce
    EndedIsFinal
    QueuedIsOffered
    HeldClaimsEnd
CHECK_DEADLOCK FALSE
