SPECIFICATION FairSpec
CONSTANTS
    Clusters = {c1}
    NoCluster = NoCluster
    Specs <- OneSpec
    Foreign = {"config"}
    Rolling = {"schedulerDeployment"}
    HandScales = {}
    Removable = {"workerDeployment"}
INVARIANTS QuiescentMeansConverged
PROPERTIES StaleWritesAreRevisited StatusCertified RefusedForAReason EventuallyCleanedUp
CHECK_DEADLOCK FALSE
