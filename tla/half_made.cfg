SPECIFICATION FairSpecCalm
CONSTANTS
    Clusters = {c1}
    NoCluster = NoCluster
    Specs <- GoodAndBad
    Foreign = {}
    Rolling = {}
    HandScales = {}
    Removable = {}
PROPERTIES EventuallyComplete
CHECK_DEADLOCK FALSE
