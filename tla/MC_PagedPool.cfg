SPECIFICATION Spec
CONSTANTS
    Seqs = {s1, s2}
    Sets = {d1, d2}
    BlockSize = 2
    Setups <- MCSetups
    Absent = Absent
    Blank = Blank
SYMMETRY Symmetry
CHECK_DEADLOCK FALSE
INVARIANTS
    TypeOK
    RefcountExact
    ReadsBack
    RowsConserved
