CONSTANTS
    Payments = {"p1", "p2", "p3", "p4"}
    Accounts = {"a", "b", "c"}
    From <- Sender
    To <- Receiver
    Readers = {"a", NoAccount}
    Windows <- WindowsPaging
    Limits = {1, 2, 3}
    ListLimits <- ListLimitsPaging
    Cap = 2
    MaxNow = 1
    NoAccount = NoAccount
    None = None
SPECIFICATION Spec
INVARIANTS
    TypeOK
    CompleteOrTold
    QuietWalkIsExact
    AnnouncedPageHasRows
    ListedCanBeOpened
CHECK_DEADLOCK FALSE
