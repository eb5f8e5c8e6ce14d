\* ht_delete_key of the only entry of a bucket returns holding its lock.
CONSTANTS
    t1 = t1
    t2 = t2
    d1 = d1
    d2 = d2
    Threads = {t1}
    Keys <- MCKeys2
    Data = {d1, d2}
    Ops = {"insert", "delete"}
    InitialSize = 1
    ResizeSizes = {1}
    MaxEntries = 3
    Nil = Nil
    NoThread = NoThread
SYMMETRY MCSymmetry
SPECIFICATION Spec
INVARIANT NoOrphanLock
CHECK_DEADLOCK FALSE
