SPECIFICATION FairBothKept
CONSTANTS
    Clusters = {c1}
    NoCluster = NoCluster
    Specs <- OneSpec
    Foreign = {}
    Rolling = {}
    HandScales = {}
    Removable = {}
INVARIANTS BothConverged DependenciesFirst
PROPERTIES OvertakingIsHarmless FollowsBringup EventuallyAgreed
CHECK_DEADLOCK FALSE
