SPECIFICATION DaemonSpec
CONSTANTS
    q1 = q1
    q2 = q2
    Posts = {q1, q2}
    MaxBuffered = 1
    MaxStored = 2
    MaxEvents = 1
    MaxLives = 2
INVARIANTS
    RequestsHold
PROPERTIES
    SnapshotKeeps
    DrainSettles
CHECK_DEADLOCK FALSE
