SPECIFICATION SpecKept
CONSTANTS
    c1 = c1
    Clusters = {c1}
    Jobs = {j1}
    NoJob = NoJob
    JobSpecs <- TwoScripts
    Foreign = {}
    Removable = {}
INVARIANTS JobFindsItsScript
CHECK_DEADLOCK FALSE
