SPECIFICATION Spec
CONSTANTS
    MaxSteps = 15
    Threshold = 80
    One = 100
    Confidences <- MCConfidences
    NaN = NaN
    RecursionLimit = 31
    Token = Token
    NoToken = NoToken
INVARIANTS GrantedConfidenceInRange
CHECK_DEADLOCK FALSE
