SPECIFICATION EvalSpec
CONSTANTS
    CaseIds = {c1, c2}
    Services <- SmallServices
    NoRoot = NoRoot
    Trails <- SmallTrails
    MaxGoldens = 2
    MaxRuns = 2
INVARIANTS ReportCoversCases BaselineScored
CHECK_DEADLOCK FALSE
