SPECIFICATION FairSpecKept
CONSTANTS
    Clusters = {c1}
    NoCluster = NoCluster
    Specs <- SwitchedSpecs
    Foreign = {}
    Rolling = {}
    HandScales = {2}
    Removable = {}
INVARIANTS TypeOK DependenciesFirst StatusWitnessed
PROPERTIES PolicyFirst FollowsBringup EventuallyConverged
CHECK_DEADLOCK FALSE
