SPECIFICATION MCSpec
CONSTANTS
    None = None
    NoSnap = NoSnap
    phone = phone
    desk = desk
    p1 = p1
    d1 = d1
    d2 = d2
    code = code
    chat = chat
    late = late
    west = west
    east = east
    Account = Account
    Absent = Absent
    MinDelta = 1
    MinDeltaB = 2
    Billion = 4
    Uploads <- MCUploads
    Days = {1, 2}
    Devices = {phone, desk}
    Clients = {p1, d1, d2}
    HostOf <- MCHostOf
    Events = {code, chat, late}
    OwnerOf <- MCOwnerOf
    MissEvents = {code, late}
    Zones = {west, east}
    ZoneOf <- MCZoneOf
    Dates = {1, 2}
    DayOf <- MCDayOf
    Skew <- MCSkew
    Revocable = {phone}
    MaxNow = 2
    MaxBatches = 2
    MaxDuplicates = 1
    MaxDeletes = 1
INVARIANTS
    ShownIsBehind
    HeldChangeIsPublishedNextDay
    NothingCountedTwice
    RecordedIsStored
PROPERTIES
    ShownTotalNeverFalls
    ShownKeepsMeasuredAgents
    OwnUsageNeverFalls
CHECK_DEADLOCK FALSE
