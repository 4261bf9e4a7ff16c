SPECIFICATION FairSpec
CONSTANTS
    q1 = q1  y1 = y1
    c1 = c1  c2 = c2
    Runs <- OneQueued
    SyncRuns <- OneSync
    Calls <- TwoCalls
    Nobody = Nobody
    NoRun = NoRun
    Price <- Prices
    Wallet = 3
    MaxTries = 3
    MaxDeliveries = 3
    MaxFaults = 2
INVARIANTS
    BalanceExplained
    OutcomeMatchesUsage
    CancelWins
PROPERTIES
    EveryRunEnds
    ImplementsIntent
CHECK_DEADLOCK FALSE
