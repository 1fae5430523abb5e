\* A lagging cleanup loop meets a secret where its directory was.
SPECIFICATION Spec
CONSTANTS
    Handlers = {h1, h2, h3}
    Names <- NamesClash
    BadName = BadName
    Values = {v1}
    BadBody = BadBody
    NoName = NoName
    NoValue = NoValue
    Ops = {"set", "delete"}
    DotAge <- MCDotAge
    Absent = Absent
    Directory = Directory
    Blank = Blank
    NoFile = NoFile
    Faults = FALSE
SYMMETRY HandlerSymmetry
PROPERTY OnlyItsDeleteRemoves
