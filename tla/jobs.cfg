SPECIFICATION FairSpecKept
CONSTANTS
    c1 = c1
    Clusters = {c1}
    Jobs = {j1}
    NoJob = NoJob
    JobSpecs <- GoodAndBad
    Foreign = {}
    Removable = {}
INVARIANTS TypeOK JobDependencies StateTrue
PROPERTIES EndStays EventuallyReported
CHECK_DEADLOCK FALSE
