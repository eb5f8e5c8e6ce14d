\* The well-behaved environment: a test that outlives its limit.
CONSTANTS
    Duration = 1
    NanoSec = 2
    Events <- MCHupOnly
    Faults = {}
    MaxSignals = 0
    PidReuse = FALSE
    Suspend = {FALSE}
    Quiet = {FALSE}
    VarFiles = {TRUE}
    Journalling = {}
SPECIFICATION Spec
INVARIANT JournalPid
CHECK_DEADLOCK FALSE
