CONSTANTS
    t1 = t1
    t2 = t2
    m1 = m1
    m2 = m2
    Threads <- MCThreads
    Manifests <- MCManifests
    Instance <- OneInstance
    MaxGen = 1
    MaxInc = 2
    NoThread = NoThread
    NoManifest = NoManifest
SPECIFICATION Spec
SYMMETRY Symmetry
INVARIANTS TypeOK ReleaseOnlyClosed AckedSurvives
PROPERTY NeverBornReleasable
CHECK_DEADLOCK FALSE
