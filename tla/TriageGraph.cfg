SPECIFICATION Spec
CONSTANTS
    MaxSteps = 15
    Threshold = 80
    One = 100
    Confidences <- MCConfidences
    NaN = NaN
    RecursionLimit = 30
    Token = Token
    NoToken = NoToken
INVARIANTS TypeOK GrantJustified StepBudget WriteNeedsHuman GateBeforeLimit
PROPERTIES InvokeEnds ImplementsGovernedRun
CHECK_DEADLOCK FALSE
