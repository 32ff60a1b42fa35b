SPECIFICATION Spec
CONSTANTS
    Threads = {t1, t2}
    MaxCalls = 4
INVARIANTS TypeOK AckedWritesApplied FailedWritesWroteNothing NoLeakedSession
CHECK_DEADLOCK FALSE
