\* Two commands at once on two machines, keys replaced with an overlap.
SPECIFICATION Spec
CONSTANTS
    a = a
    b = b
    aq = aq
    v1 = v1
    v2 = v2
    v3 = v3
    Names = {a, b}
    Invalid = {}
    Values = {v1, v2, v3}
    Keys = {k1, k2}
    Unbound = Unbound
    Garbage = Garbage
    NoFile = NoFile
    Procs = {p1, p2}
    Machines = {m1, m2}
    Typed = {a, b}
    BadName = BadName
    Addressed <- CutAtQuery
    Offered <- ByName
    Nowhere = Nowhere
    NoValue = NoValue
    Absent = Absent
    Gone = Gone
    Unknown = Unknown
    MaxLate = 1
    Careful = TRUE
SYMMETRY Symmetric
INVARIANTS TypeOK PrintsOwnName ReadsWhatWasAcked
PROPERTY InitNeverReplaces
