CONSTANTS
    Events = {e1, e2}
    Mapped = {e1}
    Processes = {"p", "q"}
    Runs = {"p", "q"}
    Owner <- OwnProcess
    BatchLimit = 1
    MaxFaults = 1
SPECIFICATION FairSpec
INVARIANTS
    PublishedMeansSent
    RetriesMatchStatus
PROPERTY EventuallySettled
CHECK_DEADLOCK FALSE
