SPECIFICATION SpecCalm
CONSTANTS
    Clusters = {c1}
    NoCluster = NoCluster
    Specs <- OneSpec
    Foreign = {"workerDeployment"}
    Rolling = {}
    HandScales = {}
    Removable = {}
PROPERTIES OthersUntouched
CHECK_DEADLOCK FALSE
