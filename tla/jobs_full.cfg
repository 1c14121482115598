SPECIFICATION Spec
CONSTANTS
    c1 = c1
    Clusters = {c1}
    Jobs = {j1}
    NoJob = NoJob
    JobSpecs <- PlainScript
    Foreign = {}
    Removable = {"job"}
INVARIANTS QuiescentMeansReported
PROPERTIES EndCertified RefusedForAReason
CHECK_DEADLOCK FALSE
