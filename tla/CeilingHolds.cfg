CONSTANTS
    a = a
    b = b
    c = c
    d = d
    e = e
    r1 = r1
    r2 = r2
    Ids <- MCIds
    Requests <- MCRequests
    MaxPerType = 1
    RestoreFactor = 2
    MaxBatch = 0

SPECIFICATION Spec
SYMMETRY Interchangeable

INVARIANTS
    CeilingHolds
