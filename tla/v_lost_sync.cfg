SPECIFICATION MCSpec
CONSTANTS
    None = None
    NoSnap = NoSnap
    phone = phone
    desk = desk
    p1 = p1
    d1 = d1
    d2 = d2
    code = code
    chat = chat
    late = late
    west = west
    east = east
    Account = Account
    Absent = Absent
    MinDelta = 1
    MinDeltaB = 2
    Billion = 4
    Uploads = {}
    Days = {1}
    Devices = {phone, desk}
    Clients = {p1, d1, d2}
    HostOf <- MCHostOf
    Events = {code}
    OwnerOf <- MCOwnerOf
    MissEvents = {code}
    Zones = {west, east}
    ZoneOf <- MCZoneOf
    Dates = {1, 2}
    DayOf <- MCDayOf
    Skew <- MCSkew
    Revocable = {}
    MaxNow = 3
    MaxBatches = 3
    MaxDuplicates = 0
    MaxDeletes = 0
PROPERTIES
    OutOfOrderIsRefused
CHECK_DEADLOCK FALSE
