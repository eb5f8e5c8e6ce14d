\* The duplicate scan of ht_insert_key follows a chained entry that a concurrent ht_delete_key moves to the free chain.
CONSTANTS
    t1 = t1
    t2 = t2
    d1 = d1
    d2 = d2
    Threads = {t1, t2}
    Keys <- MCKeys4
    Data = {d1}
    Ops = {"insert", "delete"}
    InitialSize = 1
    ResizeSizes = {1}
    MaxEntries = 4
    Nil = Nil
    NoThread = NoThread
SYMMETRY MCSymmetry
SPECIFICATION Spec
INVARIANT InsertLinearizable
CHECK_DEADLOCK FALSE
