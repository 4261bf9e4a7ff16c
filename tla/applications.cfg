SPECIFICATION Spec
CONSTANTS
    a1 = a1  a2 = a2  o1 = o1  o2 = o2
    w1 = w1  w2 = w2
    Apps <- TwoApps
    Openings <- TwoOpenings
    Workers <- TwoWorkers
    NoApp = NoApp
    NoOpening = NoOpening
    Nobody = Nobody
    Wallet = 2
    PendingLimit = 1
    WindowLimit = 1
    MaxDeliveries = 2
    MaxFaults = 2
INVARIANTS
    OneApplicationPerOpening
    PaidIffReceived
    HeldWhileOpen
    SlotsWithinLimit
    QueuedIsAttended
SYMMETRY Symmetry
CHECK_DEADLOCK FALSE
