\* Three handlers setting and deleting in a two-level tree, listing too, no faults.
SPECIFICATION Spec
CONSTANTS
    Handlers = {h1, h2, h3}
    Names <- NamesPair
    BadName = BadName
    Values = {v1}
    BadBody = BadBody
    NoName = NoName
    NoValue = NoValue
    Ops = {"set", "delete", "list"}
    DotAge <- MCDotAge
    Absent = Absent
    Directory = Directory
    Blank = Blank
    NoFile = NoFile
    Faults = FALSE
SYMMETRY HandlerSymmetry
INVARIANTS EmptyIsAttended NoEmptyNamespaceAtRest
PROPERTIES KeepsPromise OnlyItsDeleteRemoves
