CONSTANTS
    MaxReminderDays = 30
    OverdueReminderDays = 3
    OverdueReminderWindowDays = 30
    MaxCancellationNoticeDays = 60
    MinTrialNoticeDays = 3
    TimezoneSpreadDays = 1
    PurgeRemindersAfterDays = 45
    None = None
    Due <- MCDue
    Terms <- TwoDeadlines
    Shifts = {0}
    Births <- MCBirths
    MaxMissed = 0
    LastDay = 150

SPECIFICATION Spec

INVARIANTS
    TrialIsWarnedOf
