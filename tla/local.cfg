SPECIFICATION MCSpec
CONSTANTS
    log = log
    rollout = rollout
    archived = archived
    claude = claude
    codex = codex
    turn = turn
    first = first
    other = other
    output = output
    reasoning = reasoning
    a = a
    b = b
    Nil = Nil
    cobalt = cobalt
    magenta = magenta
    web = web
    cli = cli
    NoPlan = NoPlan
    Keys = {a, b}
    SessionOf <- MCSessionOf
    Parts = {output, reasoning}
    Counted = {output}
    Payloads <- MCPayloads
    Batches <- MCBatches
    MaxCorrections = 3
    Lines = {turn, first, other}
    KeyOf <- MCKeyOf
    TokOf <- MCTok
    Script <- MCScript
    Paths <- MCPaths
    SessionAt <- MCSessionAt
    RootOf <- MCSessionAt
    Incremental = {log}
    ArchiveOf <- MCArchiveOf
    MaxScans = 2
    MaxUpsets = 2
    Palettes = {cobalt, magenta}
    Snaps = {1, 2}
    Drawn <- MCDrawn
    Publishers = {web, cli}
    Web = web
    MaxStamp = 2
    MaxCommits = 3
    MaxJobs = 2
    MaxActs = 1
    MaxFaults = 1
    me = me
    x = x
    y = y
    Absent = Absent
    Me = me
    Crowd = {x, y}
    CrowdRow <- MCCrowdRow
    DefaultMinParticipants = 3
    StoreMin = 2
    Periods = {1, 2}
    MaxHits = 1
    MaxTokens = 1
    MaxOrders <- MCMaxOrders
    MaxLapses = 1
INVARIANTS
    CachedIsDurable
    OnDiskIsReported
    ReportedIsKept
    ReadmeNamesWhatWasLive
    OwnerTextSurvives
    LeftIsForgotten
PROPERTIES
    FactsOnlyRise
CHECK_DEADLOCK FALSE
