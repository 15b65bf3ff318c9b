CONSTANTS
    Requests = {r1, r2}
    Accounts = {"a", "b", "c"}
    Keys = {"k1", "k2"}
    Commands <- CommandsOverlap
    Opening <- OpeningOverlap
    MapperMoney = "stub"
    MaxInFlight = 2
    NoAccount = NoAccount
    NoKey = NoKey
    BadKey = BadKey
    None = None
SPECIFICATION Spec
INVARIANTS
    FundedPaymentSucceeds
CHECK_DEADLOCK FALSE
