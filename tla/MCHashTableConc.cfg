\* Two threads inserting, deleting and locating three keys in two buckets.
\* A lone bucket head deleted by ht_delete_key stays write-locked, and a
\* thread that then blocks on it holding the table lock stops every other
\* call: such states have no successor, so deadlock is not checked here.
CONSTANTS
    t1 = t1
    t2 = t2
    d1 = d1
    d2 = d2
    Threads = {t1, t2}
    Keys <- MCKeys
    Data = {d1, d2}
    Ops = {"locate", "insert", "delete"}
    InitialSize = 2
    ResizeSizes = {1}
    MaxEntries = 5
    Nil = Nil
    NoThread = NoThread
SYMMETRY MCSymmetry
SPECIFICATION Spec
INVARIANT ContentsMatch
INVARIANT LocateLinearizable
CHECK_DEADLOCK FALSE
PROPERTY RefinesHashMap
