\* One server, one run of rotate-identity at a time, an operator.
SPECIFICATION FairSpec
CONSTANTS
    alice = alice
    Alice = Alice
    bob = bob
    t1 = t1
    t2 = t2
    short = short
    dirA = dirA
    dirB = dirB
    note = note
    sib1 = sib1
    sib2 = sib2
    Unset = Unset
    UserNames = {alice, Alice, bob}
    BadNames = {}
    Lower <- LowerCase
    Tokens = {t1, t2, short}
    Malformed = {short}
    Entries = {dirA, dirB, note, sib1, sib2}
    Place <- Sorted
    Root <- IgnoringCase
    Siblings = {sib1, sib2}
    Configs <- SomeConfigs
    MaxSurprises = 3
INVARIANTS TypeOK LooseBlocks RefusedLeavesNoTrace TenantsApart
PROPERTIES NothingElseStops ComesUp
CHECK_DEADLOCK FALSE
