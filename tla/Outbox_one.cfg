CONSTANTS
    Events = {e1, e2}
    Mapped = {e1, e2}
    Processes = {"p"}
    Runs = {"r", "s"}
    Owner <- OneProcess
    BatchLimit = 2
    MaxFaults = 2
SPECIFICATION Spec
INVARIANTS
    SingleSender
    SendsBounded
PROPERTY TriesAreRemembered
CHECK_DEADLOCK FALSE
