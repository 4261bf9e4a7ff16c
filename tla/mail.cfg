SPECIFICATION FairSpec

CONSTANTS
    l = l
    r = r
    n = n
    NoMessage = NoMessage
    Messages <- Three
    Kind <- Kinds
    Owner <- One
    Follows <- Pair
    Calls = {c1}
    Attempts = 2
    DailyUnits = 4
    PrivacyDaily = 1
    Days = 2
    MaxFaults = 1

INVARIANTS
    RequestsFunded
    RowTellsTruth

PROPERTIES
    EveryMessageDecided

CHECK_DEADLOCK FALSE
