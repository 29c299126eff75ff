CONSTANTS
    None = None
    Requests = {r1, r2, r3, r4}

    Ids = {i1, i2, i3, i4, i5}
    Overlapping = {one, two}
    MaxPerType = 2
    RestoreFactor = 1
    MaxBatch = 1

    Home = home
    Addresses = {home, other, third}
    Opening = opening
    Wrong = wrong
    MaxAttempts = 1
    MaxResends = 2
    CodeLife = 0
    Hour = 1
    LastTick = 1
    MaxCuts = 1

    MaxLoginAttempts = 2
    LoginWindow = 2
    LastLogin = 3

    Picture = picture
    MaxMishaps = 2

    Owners = {ann, bob}
    Endpoints = {phone, tablet}
    Limit = 1
    MaxCalls = 2
    MaxFaults = 1
    Job = job

    Accounts = {ann, bob}
    WeekLength = 2
    LastDay = 2
    MaxFailures = 1
    MaxCrashes = 1
    MaxEdits = 2

SPECIFICATION Spec
SYMMETRY Interchangeable
CHECK_DEADLOCK FALSE

INVARIANTS
    OvershootIsBounded
    AddressIsProved
    TriesAreSpent
    ResendsAreCapped
    StoredCodeWasMailed
    DeadlocksAreOfAKind
    LockoutHolds
    AvatarIsThere
    NothingLeftBehind
    LimitHolds
    NewestAreKept
    OncePerWeek
PROPERTIES
    OnlyOverlapExceeds
