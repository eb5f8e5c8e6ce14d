\* A well-behaved environment: poll reports only the child's exit, no system
\* call fails, nobody signals timeout, pids are not reused.  With or
\* without -s; under fairness of timeout's own steps and of the clock.
CONSTANTS
    Duration = 1
    NanoSec = 2
    Events <- MCHupOnly
    Faults = {}
    MaxSignals = 0
    PidReuse = FALSE
    Suspend = {FALSE, TRUE}
    Quiet = {TRUE}
    VarFiles = {FALSE, TRUE}
    Journalling = {"test", "grand"}
SPECIFICATION FairSpec
INVARIANT NoOrphan
PROPERTY Terminates
\* timeout exits; its final states have no successor.
CHECK_DEADLOCK FALSE
