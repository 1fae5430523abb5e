\* Every operation, two handlers, disk-full errors and crashes at every step.
SPECIFICATION Spec
CONSTANTS
    Handlers = {h1, h2}
    Names <- NamesFlat
    BadName = BadName
    Values = {v1, v2}
    BadBody = BadBody
    NoName = NoName
    NoValue = NoValue
    Ops = {"set", "get", "delete", "list"}
    DotAge <- MCDotAge
    Absent = Absent
    Directory = Directory
    Blank = Blank
    NoFile = NoFile
    Faults = TRUE
SYMMETRY Symmetric
INVARIANTS TypeOK TreeShape
PROPERTIES KeepsPromise OnlyItsDeleteRemoves
