SPECIFICATION Spec
CONSTANTS
    s1 = s1  s2 = s2
    r1 = r1  r2 = r2
    Never = Never
    Sources <- TwoSources
    Quantity <- Grants
    Reservations <- TwoOperations
    Price <- Prices
    Pass = 1
    Restoration = 1
    Lag = 1
    Horizon = 2
INVARIANTS
    LedgerReconciles
    OriginConserved
    DebtExplained
    FundedByLiveLots
PROPERTIES
    DebtComesLastGoesFirst
    SoonestExpiryFirst
