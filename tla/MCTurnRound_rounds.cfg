\* Two tool calls over up to three rounds, with reconnects; three turns of a
\* thread with one retry each; a thread and its subagent over a restart.
SPECIFICATION ServedSpec
CONSTANTS
    Turns = {t1}
    MaxTurns = 1
    SafeTurns = {}
    Activities = {a1}
    Calls = {c1, c2}
    Polls = {w1}
    Answers = {}
    NoAnswer = none
    turn = t1
    poll = w1
    Observers = {o1, o2, o3, o4}
    Rounds = {r1, r2, r3}
    NoRound = none
    MaxRetries = 1
    MaxStalls = 2
    MaxNativeTurns = 3
    MaxRequests = 3
    MaxLapses = 1
    MaxPauses = 1
    Parent <- ParentOf
    Authorities <- Sandboxes
    Threads = {"root", "child"}
    MaxKept = 2
    MaxChanges = 1
    MaxMishaps = 2
INVARIANTS
    OutstandingIsOwed
    AttemptsHold
    EnvironmentsHold
PROPERTIES
    DispatchedInOrder
    CallsReachCodex
CHECK_DEADLOCK FALSE
