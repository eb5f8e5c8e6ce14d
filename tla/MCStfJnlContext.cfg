\* Every failure, two signals, a test that may leave a process behind;
\* reads and stdout lines of MAXCHAR = 2 bytes and tests writing up to four
\* bytes into pipes of two bytes, so that lines overflow, reads split them
\* and the test blocks on a full pipe.
CONSTANTS
    MaxChar = 2
    MaxWrites = 4
    Faults = {"pipe", "fork", "exec", "open", "poll"}
    MaxSignals = 2
    Background = TRUE
    TestBytes <- MCAllBytes
    PipeCap = 2
SPECIFICATION FairSpec
INVARIANT TypeOK
INVARIANT ContentPreserved
\* stf_jnl_context exits; its final states have no successor.
CHECK_DEADLOCK FALSE
