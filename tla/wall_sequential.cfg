SPECIFICATION Spec
CONSTANTS
    None = None
    NoSnap = NoSnap
    Nobody = Nobody
    Orphan = Orphan
    NoShot = NoShot
    NoPalette = NoPalette
    p1 = p1
    p2 = p2
    w1 = w1
    s1 = s1
    s2 = s2
    s3 = s3
    phone = phone
    desk = desk
    MinDelta = 10
    MinDeltaB = 100
    Billion = 1000
    Handlers = {p1}
    Putters = {p1}
    Owners = {}
    Workers = {p1}
    Servers = {s1}
    ServerOf <- ServerOfOne
    Misconfigured = {}
    Devices = {desk}
    Feed <- LossyFeed
    Palettes = {"newsprint"}
    DefaultPalette = "newsprint"
    MaxDay = 2
    MaxPuts = 3
    MaxEdits = 0
    MaxFaults = 1
    MaxMisses = 0
    MaxDrops = 1
    MaxRestarts = 1
    MaxThemes = 0
    SlowPublish = FALSE
    LegacyWall = FALSE
INVARIANTS
    BrokenWallIsPursued
    DesiredIsNewest
PROPERTIES
    AppliedIsVerified
    ImplementsPublicWall
