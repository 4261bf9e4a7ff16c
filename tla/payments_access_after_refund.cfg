SPECIFICATION Spec

CONSTANTS
    o1 = o1
    p1 = p1
    p2 = p2
    r1 = r1
    r2 = r2
    b1 = b1
    d1 = d1
    e1 = e1
    x1 = x1
    Orders <- OneOrder
    Premium <- Nobody
    Quantity = 3
    Gross = 2
    Payments <- OnePayment
    Refunds <- OneRefund
    Amount <- Whole
    Browsers <- OneBrowser
    Readers <- Nobody
    Enders <- Nobody
    Erasers <- Nobody

INVARIANTS
    NoAccessAfterFullRefund

CHECK_DEADLOCK FALSE
