\* An operator and a server that keep to no order at all, two runs at once.
SPECIFICATION Spec
CONSTANTS
    Names = {n1, bad}
    Invalid = {bad}
    Values = {v1, v2}
    Keys = {k1}
    Unbound = Unbound
    Garbage = Garbage
    NoFile = NoFile
    NoDir = NoDir
    NoName = NoName
    NoKey = NoKey
    NoValue = NoValue
    Runs = {r1, r2}
    MaxClock = 1
    Faults = TRUE
    Careful = FALSE
SYMMETRY Symmetric
INVARIANT NothingLost
PROPERTY SwapsInVerified
