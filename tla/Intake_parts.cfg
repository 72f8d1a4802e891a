CONSTANTS
    UPLOAD_MAX_TIME = 6
    UPLOAD_MIN_SPEED = 2
    SPEED_WINDOW = 2
    ChunkSizes = {1, 3, 4}
    MaxGap = 3
    MaxTotal = 10
    Workers = {w1, w2}
    Callers = {k1}
    Addresses <- MCAddresses
    Urls <- MCUrls
    RateLimit = 1
    RateWindow = 2
    MaxRedirects = 1
    MaxBytes = 1
    Sizes = {1, 2}
    MaxNow = 4
    MaxCalls = 2
    Users = {u1}
    Parts <- MCParts
    Fetched <- MCFetched
    Deployments <- MCDeployments
    MaxSize <- MCMaxSize
    Allowed <- MCAllowed
    PrefixLength <- MCPrefixLength
    Guests = {g1}
    Pool = pool
    IMPORT_FROM_URL_MAX_BYTES = 2
    MAX_IMAGE_PIXELS = 2
    AllowedMime = {"text/plain"}
    NameLimit = 30
    PathLimit = 50
    DefaultObjects = 1
    DefaultBytes = 3
    DESCRIBE_MANY_LIMIT = 2
    MaxRows = 2
SPECIFICATION IntakeSpec
INVARIANTS
    IntakeTypeOK
    FastUploadsFinish
    SteadyUploadsPay
    FetchStaysOutside
    RateHolds
    StoredIsVetted
    DimensionsAreReal
    QuotaHolds
    RefsResolve
    ExistsBeforeUpload
PROPERTY ImportEnds
CHECK_DEADLOCK FALSE
