SPECIFICATION Spec
CONSTANTS
    MaxCharges = 3
    MaxSwitches = 2
INVARIANTS FailuresExplained OneLateCharge
PROPERTIES TrafficEnds
CHECK_DEADLOCK FALSE
