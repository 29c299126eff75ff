CONSTANTS
    LastMonth <- MCLastMonth
    MonthStart <- MCMonthStart
    MonthOf <- MCMonthOf
    LongestPeriod <- MCLongestPeriod
    Week = 7
    GenerationHorizon = 90
    HorizonMargin = 30
    None = None
    MaxOccurrences = 60
    Starts <- MCStarts
    Ends <- MCEnds
    Floors <- MCFloors
    Spans <- MCSpans

SPECIFICATION Spec

INVARIANTS
    DatesAreTheSchedule
    CapIsNeverReached
PROPERTIES
    Terminates

CHECK_DEADLOCK FALSE
