SPECIFICATION Spec
CONSTANTS
    Threads = {t1, t2}
    Names = {a, b}
    Files = {f, g}
    Subdirs = {d}
    Direct = {g}
    Dvp = dvp
    NULL = NULL
    MaxSize = 1
    MaxOps = 2
    MaxSignals = 1
SYMMETRY Symmetry
INVARIANTS TypeOK PositiveNames NegativeNames AttrExplained SizeAgrees
CHECK_DEADLOCK FALSE
