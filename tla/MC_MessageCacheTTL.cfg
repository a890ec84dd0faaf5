CONSTANTS
    m1 = m1
    m2 = m2
    m3 = m3
    Msgs <- MCMsgs
    CacheValues <- MCTTLValues
    TickSteps = {30}
    Epoch = 1000
    MaxTime = 150
    IntMax = 1048575
SPECIFICATION Spec
INVARIANT TTLWithinRange
\* the event loop may stop once every message was handled and time is spent
CHECK_DEADLOCK FALSE
