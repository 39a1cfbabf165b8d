SPECIFICATION LiveSpec
CONSTANTS
    Order = {o1}
    Call = {c1, c2}
    Target = {"ACCEPTED", "READY"}
    None = None
    Board = {b1}
    Pages = {"ownerAll"}
    AtTable = {}
    Remote = {c1, c2}
    MaxFailures = 0
    Window = 1
    Earlier = 0
    MaxFetches = 1
    MaxDrops = 1
PROPERTIES
    ScreensConverge
