SPECIFICATION FairOperatorKept
CONSTANTS
    c1 = c1
    Clusters = {c1}
    NoCluster = NoCluster
    Specs <- OneSpec
    Foreign = {}
    Rolling = {}
    HandScales = {}
    Removable = {}
    Jobs = {j1}
    NoJob = NoJob
    JobSpecs <- OneScript
    JForeign = {}
    JRemovable = {}
PROPERTIES JobsAsModelled JobOnCluster EventuallyRun
CHECK_DEADLOCK FALSE
