CONSTANTS
    p1 = p1
    p2 = p2
    r = r
    t1 = t1
    t2 = t2
    d1 = d1
    Procs <- MCProcs
    Triples <- MCTriples
    Dirs = {d1}
    NoPath = NoPath
    Owner <- MCOwner
    GlobOrder <- MCGlobOrder
    Reader = r
    Sentinel = Sentinel
    FlagsLimit = 1
    MaxTime = 0
    MaxCount = 2
    LookupCallsSelf = FALSE
    StackFrames = 3
    NoRecord = NoRecord
    NoSave = NoSave
    HandEdits = {t2}
    NotANumber = NotANumber
    NotRead = NotRead
    SaveRefreshesExists = TRUE
SPECIFICATION Spec
INVARIANT LoadReadsCurrentRecord
