SPECIFICATION Spec
CONSTANTS
    MaxSubs = 2
    Call = {c1, c2}
    Hook = {h1, h2}
    StripeStatus = {"active", "past_due"}
    HandPrice = {"PRO"}
    NewPrice = {"PRO", "unknown"}
    None = None
    MaxEvents = 3
    MaxInputs = 4
    Grant <- const_Grant
    MaxBusy = 2
    MaxFailures = 1
    MaxTrouble = 1
SYMMETRY const_Symmetry
INVARIANTS TypeOK AppliedAtMostOnce ClockRunsWhilePastDue LastWordDecides OneCustomer
CHECK_DEADLOCK FALSE
PROPERTIES GraceIsNotExtended NoSecondTrial
