CONSTANTS
    Requests = {r1, r2, r3}
    Users = {u, v}
    Instants = {0, 2, 8, 38}
    MaxInFlight = 2
    None = None
SYMMETRY Symmetric
SPECIFICATION Spec
INVARIANTS
    SpentBeforeSaved
    SessionsAreEarned
PROPERTIES
    NoRevival
    GlobalRevocationHolds
    EndedByItsOwner
    ReuseIsDetectable
CHECK_DEADLOCK FALSE
