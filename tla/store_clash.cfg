\* A set of names in which the file of one is the directory of others.
SPECIFICATION FairSpec
CONSTANTS
    Handlers = {h1, h2}
    Names <- NamesClash
    BadName = BadName
    Values = {v1}
    BadBody = BadBody
    NoName = NoName
    NoValue = NoValue
    Ops = {"set", "get", "delete", "list"}
    DotAge <- MCDotAge
    Absent = Absent
    Directory = Directory
    Blank = Blank
    NoFile = NoFile
    Faults = TRUE
INVARIANT TreeShape
PROPERTIES OnlyClashedAreLost WaitFree EveryRequestAnswered
