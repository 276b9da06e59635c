\* Two turns of a thread: a request for each and a replay of the first.
SPECIFICATION Spec
CONSTANTS
    k1 = k1
    k2 = k2
    k3 = k3
    k4 = k4
    q2 = q2
    q3 = q3
    q5 = q5
    Keys = {k1, k2, k3}
    ownerOf <- OwnerOf
    turnOf <- TurnOf
    instructionOf <- InstructionOf
    predecessorsOf <- PredecessorsOf
    conversationOf <- ConversationOf
    Sessions = {s1, s2, s3}
    Requests = {q1, q3, q4}
    keyOf <- KeyOf
    MaxTabs = 2
    MaxEntries = 2
    None = none
INVARIANTS
    RegistryHolds
PROPERTIES
    CancelledWaitsEnd
CHECK_DEADLOCK FALSE
