CONSTANTS
    t1 = t1
    t2 = t2
    m1 = m1
    m2 = m2
    Threads <- MCThreads
    Manifests <- MCManifests
    Instance <- TwoInstances
    MaxGen = 1
    MaxInc = 2
    NoThread = NoThread
    NoManifest = NoManifest
SPECIFICATION Spec
INVARIANT AckedSurvives
CHECK_DEADLOCK FALSE
