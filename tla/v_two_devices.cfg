SPECIFICATION Spec
CONSTANTS
    None = None
    NoSnap = NoSnap
    Nobody = Nobody
    Orphan = Orphan
    NoShot = NoShot
    NoPalette = NoPalette
    p1 = p1
    p2 = p2
    w1 = w1
    s1 = s1
    s2 = s2
    s3 = s3
    phone = phone
    desk = desk
    MinDelta = 10
    MinDeltaB = 100
    Billion = 1000
    Handlers = {p1, p2}
    Putters = {p1, p2}
    Owners = {}
    Workers = {}
    Servers = {s1}
    ServerOf <- ServerOfOne
    Misconfigured = {}
    Devices = {desk, phone}
    Feed <- TwoFeeds
    Palettes = {"newsprint"}
    DefaultPalette = "newsprint"
    MaxDay = 1
    MaxPuts = 3
    MaxEdits = 0
    MaxFaults = 0
    MaxMisses = 0
    MaxDrops = 0
    MaxRestarts = 0
    MaxThemes = 0
    SlowPublish = FALSE
    LegacyWall = FALSE
PROPERTIES
    VerifiedTotalNeverFalls
