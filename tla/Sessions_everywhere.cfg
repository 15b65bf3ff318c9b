CONSTANTS
    Requests = {r1, r2, r3}
    Users = {u}
    Instants = {0}
    MaxInFlight = 2
    None = None
SPECIFICATION Spec
INVARIANTS
    GlobalLogoutReachesAll
CHECK_DEADLOCK FALSE
