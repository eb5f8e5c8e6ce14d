\* Three threads fetching their message buffers through one shared table
\* of contents.  InitialSize 1 puts every thread id in the same bucket, the
\* case of ids that collide in jnl_toc's 1024 buckets; MaxEntries 2 lets
\* one id chain behind the head and makes the third insert fail for lack
\* of memory.
CONSTANTS
    t1 = t1
    t2 = t2
    t3 = t3
    g1 = g1
    g2 = g2
    g3 = g3
    Threads <- MCThreads
    Tid <- MCTid
    Indexes = {0, 1}
    Keys <- MCKeys
    Data = {g1, g2, g3}
    Ops = {"locate", "insert"}
    InitialSize = 1
    ResizeSizes = {1}
    MaxEntries = 2
    Nil = Nil
    NoThread = NoThread
    NoOne = NoOne
SYMMETRY MCSymmetry
SPECIFICATION Spec
INVARIANT ThreadBuffersPrivate
INVARIANT NoLeak
