\* One thread calling every operation in turn, on a one-bucket table.
\* Deadlock is checked: with the locks earlier calls of the same thread
\* left behind, each call still ends (EDEADLK is returned, never waited on).
CONSTANTS
    t1 = t1
    t2 = t2
    d1 = d1
    d2 = d2
    Threads = {t1}
    Keys <- MCKeys2
    Data = {d1, d2}
    Ops = {"locate", "insert", "delete", "resize"}
    InitialSize = 1
    ResizeSizes = {1, 2}
    MaxEntries = 5
    Nil = Nil
    NoThread = NoThread

SPECIFICATION Spec
INVARIANT TypeOK
INVARIANT ContentsMatch
INVARIANT LocateLinearizable
INVARIANT InsertLinearizable
 
