SPECIFICATION FairSpec
CONSTANTS
    a1 = a1
    s1 = s1
    p1 = p1
    p2 = p2
    w1 = w1
    w2 = w2
    Events <- OneSearch
    SearchEvents <- OneSearch
    Publishers <- OnePublisher
    Workers <- TwoWorkers
    NoToken = NoToken
    NoEvent = NoEvent
    MaxAttempts = 1
    MaxTurns = 1
    MaxFaults = 1
PROPERTIES
    ImplementsIntent
    EventuallyRetired
CHECK_DEADLOCK FALSE
