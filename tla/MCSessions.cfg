CONSTANTS
    None = None
    t1 = t1
    t2 = t2
    t3 = t3
    r1 = r1
    r2 = r2
    Accounts = {ann}
    Tokens <- MCTokens
    Requests <- MCRequests
    Lifetime = 0
    Grace = 0
    LastDay = 1
    MaxPasswords = 2

SPECIFICATION Spec
SYMMETRY Interchangeable

INVARIANTS
    OneThread
    EndedForGood
    LastPasswordHolds
    OnlyVerified
    ReplayIsRecognised
PROPERTIES
    DisabledGetsNothing
