\* A thread that compacts in two of its turns: three times by hand, or twice otherwise; or a
\* store with two transactions, two submissions and three waits.
SPECIFICATION PartSpec
CONSTANTS
    Tokens = {t1, t2}
    trace = trace
    Traces = {trace}
    traceOf <- TraceOf
    Submissions = {s1, s2}
    Waits = {w1, w2, w3}
    k2 = k2
    Keys = {k1, k2}
    r3 = r3
    Runs = {r1, r2, r3}
    None = none
    NoRun = none
    ownerOf <- OwnerOf
    turnOf <- TurnOf
    runsOf <- RunsOf
INVARIANTS
    GatesHold
    NoWaitIsStranded
PROPERTIES
    OneShotKept
    CompactionsEnd
CHECK_DEADLOCK FALSE
