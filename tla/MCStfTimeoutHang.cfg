\* The well-behaved environment without -q or -s: the var file is mapped
\* and the test and a process it started journal assertions.
CONSTANTS
    Duration = 1
    NanoSec = 2
    Events <- MCHupOnly
    Faults = {}
    MaxSignals = 0
    PidReuse = FALSE
    Suspend = {FALSE}
    Quiet = {FALSE}
    VarFiles = {TRUE}
    Journalling = {"test", "grand"}
SPECIFICATION FairSpec
PROPERTY Terminates
\* timeout exits; its final states have no successor.
CHECK_DEADLOCK FALSE
