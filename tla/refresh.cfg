SPECIFICATION MCFairSpec
CONSTANTS
    None = None
    NoSnap = NoSnap
    claude = claude
    w = w
    c = c
    s = s
    Free = Free
    Missing = Missing
    MinDelta = 1
    MinDeltaB = 2
    Billion = 100
    Uploads <- MCUploads
    Days = {1, 2}
    Watchers = {w}
    Commands = {c}
    Syncers = {s}
    SnapOf <- MCSnapOf
    Refusable <- MCRefusable
    MaxUsed = 2
    MaxDate = 2
    MaxRuns = 1
    MaxTroubles = 1
    MaxPrograms = 2
    MaxCommands = 2
    MaxMishaps = 2
PROPERTIES
    SaidIsTrue
    WallCatchesUp
    OffStaysOff
    EnabledIsWatched
CHECK_DEADLOCK FALSE
