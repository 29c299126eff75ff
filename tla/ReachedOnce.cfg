CONSTANTS
    MaxReminderDays = 2
    OverdueReminderDays = 1
    OverdueReminderWindowDays = 2
    MaxCancellationNoticeDays = 2
    MinTrialNoticeDays = 1
    TimezoneSpreadDays = 1
    None = None
    ann = ann
    bob = bob
    first = first
    second = second
    other = other
    w1 = w1
    w2 = w2
    Workers <- MCWorkers
    Accounts = {ann, bob}
    Occurrences = {first, second, other}
    Owner <- MCOwner
    Due <- MCDue
    Terms <- MCTerms
    Unreachable = {bob}
    Families <- NoticeOnly
    Channels <- Email
    LastDay = 0
    MaxFailures = 0
    MaxCrashes = 0
    MaxEdits = 1

SPECIFICATION Spec

INVARIANTS
    ReachedOnce
