SPECIFICATION Spec
CONSTANTS
    SERVICES <- MCServices
    DEPENDENCIES <- MCDependencies
    Services <- MCNames
    NoService = NoService
    list_page_size = 4
    MaxSeedings = 2
    MaxRefused = 1
    MAX_TOOL_STEPS = 5
    MaxCalls = 2
INVARIANTS TypeOK AnswersDeclared NoEarlyAnswer ChainInspected
PROPERTIES LoopEnds
CHECK_DEADLOCK FALSE
