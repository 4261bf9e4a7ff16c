SPECIFICATION Spec
CONSTANTS
    a1 = a1
    s1 = s1
    p1 = p1
    p2 = p2
    w1 = w1
    w2 = w2
    Events <- OneAnalysis
    SearchEvents <- NoSearch
    Publishers <- TwoPublishers
    Workers <- TwoWorkers
    NoToken = NoToken
    NoEvent = NoEvent
    MaxAttempts = 1
    MaxTurns = 0
    MaxFaults = 2
SYMMETRY CallSymmetry
INVARIANTS
    TerminalWorkClosed
    OnePhysicalTask
    BoundedFailures
PROPERTIES
    TerminalIsFinal
CHECK_DEADLOCK FALSE
