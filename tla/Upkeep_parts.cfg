CONSTANTS
    Content = {c1, c2}
    Services = {s1}
    Entities = {e1}
    TTL = 2
    Lag = 1
    MaxEvents = 3
    MaxNow = 3
    Tables <- MCTables
    Bounds <- MCBounds
    Deployments <- MCDeployments
    Frames <- MCFrames
    Workers = {w1}
    WaveformSizes = 2
    BatchSize = 1
    Limits = {1, 2}
    Owners = {"u", "v"}
    Names = {"a", "b"}
    From = "avatar"
    To = "product"
    Claims = {"listings/listing/1"}
    OtherKeys = {"profiles/profile/1"}
    SiteKey = "site"
    Watermarked <- MCWatermarked
    ImageTables <- MCImageTables
    MaxRows = 4
    MaxRuns = 2
    MaxSyncs = 2
SPECIFICATION UpkeepSpec
INVARIANTS
    UpkeepTypeOK
    CaughtUpAgrees
    NotGeneratedMeansUntried
    BackfillCovers
    OriginalsRecoverable
PROPERTIES
    MeasuredAtLast
    RetypeKeepsRead
CHECK_DEADLOCK FALSE
