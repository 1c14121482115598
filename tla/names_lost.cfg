SPECIFICATION ManifestsKept
CONSTANTS
    Clusters = {c1}
    NoCluster = NoCluster
    Specs <- ThreeSpecs
    Settings <- SettingsOf
    Foreign = {}
    Rolling = {}
    HandScales = {}
    Removable = {}
INVARIANTS NamesResolved
CHECK_DEADLOCK FALSE
