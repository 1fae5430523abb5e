\* A run killed between the renames, and started again.
\* The runs are used up and the server stays down: such a system stops.
SPECIFICATION QuietSpec
CONSTANTS
    Names = {n1}
    Invalid = {}
    Values = {v1}
    Keys = {k1, k2}
    Unbound = Unbound
    Garbage = Garbage
    NoFile = NoFile
    NoDir = NoDir
    NoName = NoName
    NoKey = NoKey
    NoValue = NoValue
    Runs = {r1, r2}
    MaxClock = 1
    Faults = TRUE
    Careful = FALSE
PROPERTY SuccessIsComplete
CHECK_DEADLOCK FALSE
