CONSTANTS
    Requests = {r1, r2}
    Accounts = {"a", "b", "c"}
    Keys = {"k1", "k2"}
    Commands <- CommandsOverlap
    Opening <- OpeningOverlap
    MapperMoney = "money"
    MaxInFlight = 2
    NoAccount = NoAccount
    NoKey = NoKey
    BadKey = BadKey
    None = None
SPECIFICATION FairSpec
INVARIANTS
    TypeOK
    OnePaymentPerKey
    AnswersAreDurable
    TablesAgree
    NoOverdraft
PROPERTIES
    RecordedIsFinal
    ImplementsBook
    ImplementsBank
    
    EveryRequestEnds
CHECK_DEADLOCK FALSE
