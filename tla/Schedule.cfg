CONSTANTS
    LastMonth <- ShortLastMonth
    MonthStart <- ShortMonthStart
    MonthOf <- ShortMonthOf
    LongestPeriod <- MCLongestPeriod
    Week = 3
    GenerationHorizon = 2
    HorizonMargin = 1
    None = None
    c1 = c1
    c2 = c2
    c3 = c3
    Ids = {c1}
    Users = {u}
    Travellers = {}
    Types = {"invoice"}
    Drafts <- ScheduleDrafts
    Edits <- ScheduleEdits
    RowEdits <- ScheduleRowEdits
    Kinds = {"action_required"}
    MaxPerType = 1
    RestoreFactor = 2
    PurgeAfter = 1
    PurgeLogAfter = 1
    Zones <- AnyZone
    FirstDay = 2
    LastDay = 3

SPECIFICATION Spec

INVARIANTS
    OnlyScheduled
    NothingMissing
    NextDueVisible
    PaidConsistent
PROPERTIES
    HistoryKept
    LogIsKept
