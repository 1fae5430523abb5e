\* A careful operator, two runs, failures and kills at every step.
SPECIFICATION Spec
CONSTANTS
    Names = {n1, n2}
    Invalid = {}
    Values = {v1}
    Keys = {k1, k2}
    Unbound = Unbound
    Garbage = Garbage
    NoFile = NoFile
    NoDir = NoDir
    NoName = NoName
    NoKey = NoKey
    NoValue = NoValue
    Runs = {r1, r2}
    MaxClock = 1
    Faults = TRUE
    Careful = TRUE
SYMMETRY Symmetric
INVARIANTS TypeOK ServesAcked
PROPERTIES AllOrNothing SuccessIsComplete
