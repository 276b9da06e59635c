\* One user URL, an edit and a fault, or two faults; two update workers, three versions, two mishaps.
SPECIFICATION DiskSpec
CONSTANTS
    u = u
    Urls = {u}
    FirstLines <- MCFirstLines
    MaxEdits = 1
    MaxFaults = 2
    None = none
    Workers = {1, 2}
    MaxVersion = 3
    MaxMishaps = 2
INVARIANTS
    FilesHold
    UpdateHolds
PROPERTIES
    FailureLeavesNoTrace
    LauncherReturns
CHECK_DEADLOCK FALSE
