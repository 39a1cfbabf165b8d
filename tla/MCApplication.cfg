SPECIFICATION ApplicationSpec
CONSTANTS
    Dish = {d1}
    Price = {1, 2}
    Tab = {t1, t2}
    QuantityLimit = 1
    MaxQuantity = 1
    MaxRequests = 2
    MaxMenuChanges = 1
    MenuDish = {d1, d2}
    Category = {"curry", "drink"}
    Tag = {"vegan"}
    Locale = {"en", "bn"}
    Asking = {a1}
    MaxMoves = 3
    MaxLost = 1
    Maker = {m1, m2}
    MaxPages = 3
    Settled = {9}
    Label = {1, 2, 3, 4, 5, 6, 7, 8, 9, 10, 11, 12}
    TableRange <- const_TableRange
    TypedLabel = {9, 10, 11}
    Subscribed <- const_Subscribed
    MaxFloorEvents = 1
    Photo = {p1, p2}
    DishRow = {d1, d2}
    CategoryRow = {c1}
    NoRow = NoRow
    NoPhoto = NoPhoto
    MaxImages = 2
    MaxSheets = 2
    MaxMediaFailures = 1
    Plain = {plain}
    Secret = {secret}
    Value = {"v"}
    Instance = {i1, i2}
    Operator = {o1}
    Environment <- const_Environment
    Absent = "absent"
    Unreadable = "unreadable"
    Mask = "mask"
    MaxSettingSaves = 2
    MaxSettingFailures = 1
    Tenant = {"a", "b", "c"}
    Person = {"ann", "kit", "new"}
    Roster <- const_Roster
    PinCode <- const_PinCode
    Model = {"Table", "Payment"}
    Operation = {"findMany", "update", "delete", "create", "upsert"}
    Nobody = "nobody"
    MaxVisits = 2
INVARIANTS ApplicationTypeOK BasketIsOrderedOnce ScreenIsNeverBlank WithinPlan PhotosExist RowsStayHome
PROPERTIES QuotedIsCharged TrackerCatchesUp ServersAgreeInTheEnd SecretsSurvive
CHECK_DEADLOCK FALSE
