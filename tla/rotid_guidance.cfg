\* A second rename that fails.
SPECIFICATION Spec
CONSTANTS
    Names = {n1}
    Invalid = {}
    Values = {v1}
    Keys = {k1, k2}
    Unbound = Unbound
    Garbage = Garbage
    NoFile = NoFile
    NoDir = NoDir
    NoName = NoName
    NoKey = NoKey
    NoValue = NoValue
    Runs = {r1}
    MaxClock = 1
    Faults = TRUE
    Careful = TRUE
INVARIANT GuidanceHolds
