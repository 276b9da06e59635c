\* Two MCP requests, one with a tool call, racing the completion fence.
SPECIFICATION TurnSpec
CONSTANTS
    t1 = t1
    a1 = a1
    Turns = {t1}
    MaxTurns = 1
    SafeTurns = {}
    Activities = {a1, a2}
    Calls = {c1}
    Polls = {w1}
    Answers = {}
    NoAnswer = none
    NoRevision = undefined
    turnOf <- OneTurn
    requestOf <- FirstCalls
INVARIANTS
    LeaseHolds
PROPERTIES
    PromiseKept
CHECK_DEADLOCK FALSE
