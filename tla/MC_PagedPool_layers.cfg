SPECIFICATION Spec
CONSTANTS
    Seqs = {s1}
    Sets = {d1}
    BlockSize = 2
    Setups <- TwoLayers
    Absent = Absent
    Blank = Blank
SYMMETRY Symmetry
CHECK_DEADLOCK FALSE
INVARIANT AcquireWithinBudget
