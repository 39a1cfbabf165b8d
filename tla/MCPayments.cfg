SPECIFICATION Spec
CONSTANTS
    p1 = p1
    p2 = p2
    h1 = h1
    h2 = h2
    Payment = {p1, p2}
    Handler = {h1, h2}
    Provider = {"STRIPE", "BKASH"}
    Amount = 2
    None = None
    MaxEvents = 2
    MaxFailures = 1
SYMMETRY Symmetry
INVARIANTS
    TypeOK
    PaidIsReal
    RefundsAreOnTheBooks
    CapturedIsRecorded
    OrderFollowsPayments
PROPERTIES
    SettledStaysPaid
CHECK_DEADLOCK FALSE
