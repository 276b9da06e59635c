\* Each kind of turn, with one batch of calls and one hang.
SPECIFICATION Spec
CONSTANTS
    Turns <- Kinds
    MaxTriggers = 2
    MaxRebinds = 1
    MaxFaults = 1
    MaxText = 2
    MaxBatches = 1
INVARIANTS
    ExchangeIsWhole
    EndIsClean
PROPERTIES
    OwnAnswerOnly
    TurnEnds
CHECK_DEADLOCK FALSE
