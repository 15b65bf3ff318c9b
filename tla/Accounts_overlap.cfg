CONSTANTS
    Requests = {r1, r2, r3}
    Users = {"u", "v", "w"}
    Commands <- CommandsOverlap
    Keys = {"k1", "k2"}
    Balances = {0, 7}
    KeyLimit = 1
    OpeningRows <- Rows
    OpeningOwner <- Owner
    MaxInFlight = 3
    None = None
SYMMETRY Symmetric
SPECIFICATION Spec
INVARIANTS
    OneAccountPerUser
PROPERTIES
    KeyIsNotTaken
    OnlyRacesBreakTheDirectory
    OnlyRacesLoseWrites
CHECK_DEADLOCK FALSE
