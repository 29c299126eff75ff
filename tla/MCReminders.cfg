CONSTANTS
    MaxReminderDays = 2
    OverdueReminderDays = 1
    OverdueReminderWindowDays = 2
    MaxCancellationNoticeDays = 2
    MinTrialNoticeDays = 1
    TimezoneSpreadDays = 1
    None = None
    ann = ann
    bob = bob
    first = first
    second = second
    other = other
    w1 = w1
    w2 = w2
    Workers <- MCWorkers
    Accounts = {ann, bob}
    Occurrences = {first, second, other}
    Owner <- MCOwner
    Due <- MCDue
    Terms <- MCTerms
    Unreachable = {bob}
    Families <- EarlyFamilies
    Channels <- EmailAndPush
    LastDay = 1
    MaxFailures = 1
    MaxCrashes = 1
    MaxEdits = 2

SPECIFICATION Spec
SYMMETRY Interchangeable

INVARIANTS
    AtMostOnce
    StampMeansSent
