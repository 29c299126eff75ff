CONSTANTS
    LastMonth <- MCLastMonth
    MonthStart <- MCMonthStart
    MonthOf <- MCMonthOf
    LongestPeriod <- MCLongestPeriod
    Week = 3
    GenerationHorizon = 3
    HorizonMargin = 2
    None = None
    c1 = c1
    c2 = c2
    c3 = c3
    Ids = {c1}
    Users = {u}
    Travellers = {}
    Types = {"invoice"}
    Drafts <- ScheduleDrafts
    Edits <- ScheduleEdits
    RowEdits <- ScheduleRowEdits
    Kinds = {}
    MaxPerType = 1
    RestoreFactor = 2
    PurgeAfter = 1
    PurgeLogAfter = 2
    Zones = {0, 1}
    FirstDay = 1
    LastDay = 2

SPECIFICATION Spec

PROPERTIES
    NoBackfill
