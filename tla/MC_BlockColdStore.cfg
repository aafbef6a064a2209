SPECIFICATION Spec
CONSTANTS
    p1 = p1
    p2 = p2
    c1 = c1
    l1 = l1
    b1 = b1
    b2 = b2
    b3 = b3
    m1 = m1
    m2 = m2
    Publishers = {p1, p2}
    Collectors = {c1}
    Loaders = {l1}
    Blocks = {b1, b2, b3}
    Manifests = {m1, m2}
    BlocksOf <- MCBlocksOf
    Supersedes <- MCSupersedes
    PruneMode = "Delete"
    MaxMarkAttempts = 2
    MaxPersists = 2
    NoProc = NoProc
    NoManifest = NoManifest
INVARIANTS TypeOK LockInv NoDanglingManifest LeaseProtectsBlocks
PROPERTY ContractSpec
