SPECIFICATION Spec
CONSTANTS
    Services <- SmallServices
    Topologies <- SmallTopologies
    NoRoot = NoRoot
INVARIANTS TrailIsCausal DeepestOnChains
PROPERTIES WalkEnds
CHECK_DEADLOCK FALSE
