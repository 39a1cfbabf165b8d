SPECIFICATION LiveSpec
CONSTANTS
    Order = {o1}
    Call = {c1, c2}
    Target = {"ACCEPTED", "REJECTED"}
    None = None
    Board = {b1}
    Pages = {"kitchen"}
    AtTable = {o1}
    Remote = {c2}
    MaxFailures = 1
    Window = 1
    Earlier = 1
    MaxFetches = 1
    MaxDrops = 1
INVARIANTS
    BoardTypeOK
    SeenIsAnnouncedOnce
PROPERTIES
    NewOrdersChime
    OpenOrdersConverge
