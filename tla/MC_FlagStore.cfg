CONSTANTS
    p1 = p1
    p2 = p2
    t1 = t1
    t2 = t2
    d1 = d1
    d2 = d2
    Procs <- MCProcs
    Triples <- MCTriples
    Dirs <- MCDirs
    NoPath = NoPath
    Owner <- MCOwner
    MaxTime = 1
    MaxCount = 2
    LookupCallsSelf = FALSE
    StackFrames = 3
    NoRecord = NoRecord
    NoSave = NoSave
    HandEdits = {}
    NotANumber = NotANumber
    NotRead = NotRead
    SaveRefreshesExists = TRUE
SPECIFICATION StoreSpec
INVARIANT MergeMatchesHistory
