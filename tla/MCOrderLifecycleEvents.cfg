SPECIFICATION Spec
CONSTANTS
    c1 = c1
    c2 = c2
    c3 = c3
    Order = {o1}
    Call = {c1, c2, c3}
    Target = {"ACCEPTED", "READY", "COMPLETED", "REJECTED"}
    None = None
    MaxFailures = 2
INVARIANTS
    NoStateWithoutEvent
