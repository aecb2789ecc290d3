SPECIFICATION HistorySpec
CONSTANTS
    Subjects = {"ann"}
    Nameless = {}
    Nobody = Nobody
    Chain = Chain
    MonthLength = 2
    Lookback = 2
    RecheckDays = 1
    FirstDay = 4
    OldDays = {1}
    MaxDay = 4
    MaxUse = 1
    MaxReads = 1
INVARIANTS
    DeclinedStaysApart
CHECK_DEADLOCK FALSE
