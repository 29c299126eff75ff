CONSTANTS
    MaxReminderDays = 2
    OverdueReminderDays = 1
    OverdueReminderWindowDays = 2
    MaxCancellationNoticeDays = 2
    MinTrialNoticeDays = 1
    TimezoneSpreadDays = 1
    None = None
    ann = ann
    bob = bob
    first = first
    second = second
    other = other
    w1 = w1
    w2 = w2
    Workers <- MCWorkers
    Accounts = {ann, bob}
    Occurrences = {first, second, other}
    Owner <- MCOwner
    Due <- MCDue
    Terms <- MCTerms
    Unreachable = {bob}
    Families <- AllFamilies
    Channels <- Email
    LastDay = 3
    MaxFailures = 1
    MaxCrashes = 1
    MaxEdits = 1

SPECIFICATION FairSpec

PROPERTIES
    EveryReminderGoesOut
    JobEnds
