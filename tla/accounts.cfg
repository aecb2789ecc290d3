SPECIFICATION MCSpec
CONSTANTS
    ann = ann
    bob = bob
    Subjects = {ann, bob}
    Nameless = {}
    Nobody = nobody
    Chain = chain
    MonthLength = 2
    Lookback = 2
    RecheckDays = 1
    FirstDay = 4
    OldDays = {2, 3}
    MaxDay = 5
    MaxUse = 1
    MaxReads = 2
    claude = claude
    cursor = cursor
    output = output
    miss = miss
    None = None
    NoSnap = NoSnap
    Components = {miss, output}
    MaxInt64 = 100000
    DayLength = 2
    WeekLength = 2
    WallWeeks = 0
    MaxDrill = 1
    Cloud = {cursor}
    Narrated = cursor
    Other = Other
    MaxBreakdown = 1
    MaxSeries = 3
    Noon = 1
    Agents = {claude, cursor}
    QualityOf <- MCQuality
    Chunks <- MCChunks
    OrderOf <- MCOrder
    FigureDays = 2
    MaxRows = 2
    MaxRefreshes = 2
    MinDelta = 1
    MinDeltaB = 1
    Billion = 100
    r1 = r1
    r2 = r2
    r3 = r3
    cli1 = cli1
    s1 = s1
    s2 = s2
    NoOne = NoOne
    Identities = {ann, bob}
    Requests = {r1, r2, r3}
    Servers = {s1, s2}
    Codes = {cli1}
    MaxLost = 1
INVARIANTS
    NoDayTwice
    OpenMonthIsExact
    HeldObservationIsPublished
    AccountIsItsObservation
    StreakSurvivesMidnight
    ViewsAgree
    SeedShowsTheWall
    RefusedGetsNoToken
PROPERTIES
    LinkIsKept
    NewAccountIsEmpty
SYMMETRY Perms
CHECK_DEADLOCK FALSE
