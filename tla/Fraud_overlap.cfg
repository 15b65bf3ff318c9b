CONSTANTS
    Requests = {r1, r2, r3}
    Accounts = {"s", "x"}
    Commands <- CommandsOverlap
    LargeAmount = 5000
    VeryLargeAmount = 50000
    FrequencyThreshold = 1
    VolumeLimit = 20000
    ColumnMax = 21474836
    Instants <- Minutes
    MaxInFlight = 2
    None = None
SYMMETRY Symmetric
SPECIFICATION Spec
INVARIANTS
    HistoryIsJudgedRight
    VolumeIsJudgedRight
    FrequencyOvershootBounded
    VolumeOvershootBounded
    BlockedStaysBlocked
CHECK_DEADLOCK FALSE
