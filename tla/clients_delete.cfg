\* One command at a time on one machine.
SPECIFICATION Spec
CONSTANTS
    a = a
    b = b
    aq = aq
    v1 = v1
    v2 = v2
    v3 = v3
    Names = {a, b}
    Invalid = {}
    Values = {v1, v2, v3}
    Keys = {k1, k2}
    Unbound = Unbound
    Garbage = Garbage
    NoFile = NoFile
    Procs = {p1}
    Machines = {m1}
    Typed = {a, b, aq}
    BadName = BadName
    Addressed <- CutAtQuery
    Offered <- ByName
    Nowhere = Nowhere
    NoValue = NoValue
    Absent = Absent
    Gone = Gone
    Unknown = Unknown
    MaxLate = 0
    Careful = TRUE
PROPERTY DeletesWhatWasTyped
