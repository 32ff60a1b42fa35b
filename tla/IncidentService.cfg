SPECIFICATION Spec
CONSTANTS
    Payloads <- MCPayloads
    strip <- MCStrip
    MaxRuns = 3
    Handlers = {h1, h2}
    Workers = {w1, w2}
    Approvers = {p1}
    ToolSpans = 1
    MaxPosts = 3
    MaxRestarts = 1
    NoAlert = NoAlert
    NoApprover = NoApprover
INVARIANTS TypeOK OnePlacePerRun StableRunId CleanStop
PROPERTIES HistoryKept PauseBecomesVisible ImplementsRunLedger
CHECK_DEADLOCK FALSE
