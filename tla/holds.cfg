SPECIFICATION FairSpec
CONSTANTS
    r1 = r1
    r2 = r2
    l1 = l1
    c1 = c1
    c2 = c2
    NoRun = NoRun
    Runs <- TwoRuns
    Inline <- SecondInline
    Legacy <- OneLegacy
    Calls <- TwoCalls
    Attempts <- Allowance
    Quote = 2
    Native = 1
    Reserve <- Reserves
    LegacyLimit = 2
    Ceiling = 7
    Costs <- OneOrThree
    NativeCosts <- JustOne
    MaxFaults = 1
INVARIANTS
    RealCostWithinBudget
    SettledIsExact
    OneInDoubt
    OutcomeMatchesDelivery
PROPERTIES
    EveryDeliveryDecided
CHECK_DEADLOCK FALSE
