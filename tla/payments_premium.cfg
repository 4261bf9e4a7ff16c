SPECIFICATION FairSpec

CONSTANTS
    o1 = o1
    p1 = p1
    p2 = p2
    r1 = r1
    r2 = r2
    b1 = b1
    d1 = d1
    e1 = e1
    x1 = x1
    Orders <- OneOrder
    Premium <- OneOrder
    Quantity = 3
    Gross = 2
    Payments <- OnePayment
    Refunds <- OneRefund
    Amount <- Whole
    Browsers <- OneBrowser
    Readers <- Nobody
    Enders <- OneEnder
    Erasers <- OneEraser

INVARIANTS
    PremiumIsBacked

PROPERTIES
    PaidIsFulfilled
    RefundsArrive

CHECK_DEADLOCK FALSE
