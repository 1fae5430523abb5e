\* One thing at a time, from right and wrong configurations, with failures.
SPECIFICATION Spec
CONSTANTS
    alice = alice
    Alice = Alice
    bob = bob
    badname = badname
    t1 = t1
    t2 = t2
    t3 = t3
    t4 = t4
    empty = empty
    r1 = r1
    r2 = r2
    conf1 = conf1
    conf2 = conf2
    Unset = Unset
    NoStage = NoStage
    UserNames = {alice, Alice, bob, badname}
    BadNames = {badname}
    Lower <- LowerCase
    Tokens = {t1, t2, t3, t4, empty}
    Malformed = {empty}
    Rotators = {r1, r2}
    Rests = {conf1, conf2}
    Environments <- SomeEnvironments
    InitialUsers <- AnyUsers
    MaxUsers = 2
    MaxEdits = 1
    Faults = TRUE
    Careful = TRUE
SYMMETRY Alike
INVARIANTS TypeOK RoutesByToken RetiredStayDead GivenTokensWork RepairNotBlocked
PROPERTIES OthersKept NeverUnstartable
CHECK_DEADLOCK FALSE
