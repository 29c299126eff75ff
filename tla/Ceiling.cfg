CONSTANTS
    LastMonth <- MCLastMonth
    MonthStart <- MCMonthStart
    MonthOf <- MCMonthOf
    LongestPeriod <- MCLongestPeriod
    Week = 3
    GenerationHorizon = 3
    HorizonMargin = 1
    None = None
    c1 = c1
    c2 = c2
    c3 = c3
    Ids <- CeilingIds
    Users = {u, v}
    Travellers = {u}
    Types = {"subscription", "invoice"}
    Drafts <- CeilingDrafts
    Edits <- CeilingEdits
    RowEdits = {}
    Kinds = {}
    MaxPerType = 1
    RestoreFactor = 2
    PurgeAfter = 1
    PurgeLogAfter = 2
    Zones = {0}
    FirstDay = 1
    LastDay = 2

SPECIFICATION Spec
SYMMETRY Interchangeable

INVARIANTS
    RoofHolds
PROPERTIES
    TracksPopulations
    OnlyTrashIsPurged
