SPECIFICATION AccessSpec
CONSTANTS
    Tenant = {"a", "b", "c"}
    Person = {"ann", "kit", "new"}
    Roster <- const_Roster
    PinCode <- const_PinCode
    Model = {"Menu", "Table", "Payment"}
    Operation = {"findMany", "update", "delete", "create", "upsert"}
    Nobody = "nobody"
    MaxVisits = 2
INVARIANT SuspendedIsOffline
CHECK_DEADLOCK FALSE
