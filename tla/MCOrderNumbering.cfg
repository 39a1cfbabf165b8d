SPECIFICATION FairSpec
CONSTANTS
    r1 = r1
    r2 = r2
    r3 = r3
    r4 = r4
    k1 = k1
    k2 = k2
    Req = {r1, r2, r3, r4}
    Key = {k1, k2}
    KeyOf <- MCKeyOf
    NoReq = NoReq
    PoolSizes = {1, 3, 6}
    MaxFaults = 1
INVARIANTS
    TypeOK
    NoDuplicateWithoutFault
    AcknowledgedIsDurable
    AmplePoolSuffices
PROPERTIES
    ImplementsOrderNumbers
    WedgeIsPermanent
    EveryCallAnswered
    ValidOrdersArePlaced
