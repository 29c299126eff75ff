CONSTANTS
    MaxReminderDays = 30
    OverdueReminderDays = 3
    OverdueReminderWindowDays = 30
    MaxCancellationNoticeDays = 60
    MinTrialNoticeDays = 3
    TimezoneSpreadDays = 1
    PurgeRemindersAfterDays = 45
    None = None
    Due <- MCDue
    Terms <- MCTerms
    Shifts <- NoonShifts
    Births <- MCBirths
    MaxMissed = 2
    LastDay = 150

SPECIFICATION Spec

INVARIANTS
    OncePerFamily
    NoticeOrTrialOnServerDay
    EachFamilyInTime
PROPERTIES
    SentInItsWindow
    LastDayIsReached
