SPECIFICATION Spec
CONSTANTS
    Payloads <- MCPayloads
    strip <- MCStrip
    MaxRuns = 2
    Handlers = {h1, h2}
    Workers = {w1}
    Approvers = {p1}
    ToolSpans = 1
    MaxPosts = 2
    MaxRestarts = 1
    NoAlert = NoAlert
    NoApprover = NoApprover
INVARIANTS AwaitingRunResumable
CHECK_DEADLOCK FALSE
