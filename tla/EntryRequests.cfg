CONSTANTS
    Slots = {s1, s2}
    Boss = boss
    Guest = guest
    Users = {boss, guest}
    Owner = boss
    Edited = {guest}
    Requests <- MCRequests
    Limit = 1
    AccessTtl = 1
    RefreshTtl = 2
    MaxTime = 3
SPECIFICATION FairSpec
INVARIANTS
    TypeOK
    ActsWithStanding
    SuspensionTakesHold
    PoolIsWhole
PROPERTIES
    PoolDrains
