SPECIFICATION FairSpec
CONSTANTS
    s1 = s1  s2 = s2
    k1 = k1  k2 = k2
    Scanners <- TwoScanners
    Cleaners <- TwoCleaners
    Nobody = Nobody
    MaxAttempts = 2
    MaxFaults = 2
INVARIANTS
    SavedSourceKept
    RetiredPromptly
PROPERTIES
    ImplementsVault
    EventuallyErased
CHECK_DEADLOCK FALSE
