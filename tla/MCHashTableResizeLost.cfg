\* An insert that holds its bucket while ht_resize copies the table is lost.
CONSTANTS
    t1 = t1
    t2 = t2
    d1 = d1
    d2 = d2
    Threads = {t1, t2}
    Keys <- MCKeys2
    Data = {d1, d2}
    Ops = {"insert", "resize"}
    InitialSize = 1
    ResizeSizes = {1}
    MaxEntries = 4
    Nil = Nil
    NoThread = NoThread
SYMMETRY MCSymmetry
SPECIFICATION Spec
INVARIANT ContentsMatch
CHECK_DEADLOCK FALSE
