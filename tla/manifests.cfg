SPECIFICATION FairManifestsKept
CONSTANTS
    Clusters = {c1}
    NoCluster = NoCluster
    Specs <- ThreeSpecs
    Settings <- SettingsOf
    Foreign = {}
    Rolling = {}
    HandScales = {}
    Removable = {}
INVARIANTS OwnSettings LeaksDownstream Connected
PROPERTIES EventuallyMade
CHECK_DEADLOCK FALSE
