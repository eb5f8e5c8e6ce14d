\* Every environment behaviour: all revents kinds, failing fork1, open and
\* poll, two signals to timeout, pid reuse, with and without -s and -q.
CONSTANTS
    Duration = 1
    NanoSec = 2
    Events <- MCEventsAll
    Faults = {"fork", "open", "poll"}
    MaxSignals = 2
    PidReuse = TRUE
    Suspend = {FALSE, TRUE}
    Quiet = {FALSE, TRUE}
    VarFiles = {FALSE, TRUE}
    Journalling = {"test", "grand"}
SPECIFICATION Spec
INVARIANT TypeOK
\* timeout exits; its final states have no successor.
CHECK_DEADLOCK FALSE
