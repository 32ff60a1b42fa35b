SPECIFICATION Spec
CONSTANTS
    MaxTraces = 2
    MaxDrops = 1
INVARIANTS AuditComplete ApprovalHasEvidence
PROPERTIES AuditFinal
CHECK_DEADLOCK FALSE
