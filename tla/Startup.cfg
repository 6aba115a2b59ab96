SPECIFICATION FairSpec
CONSTANTS
    a = a
    b = b
    k1 = k1
    k2 = k2
    Instances = {i1, i2}
    Loops = {l1}
    Codes = {a, b}
    Files <- MCFiles
    Tables <- MCTables
    DefaultOpen = 3
    DefaultIdle = 2
    Latest = 3
    NULL = NULL
INVARIANTS
    TypeOK
    OneMigrator
    InService
PROPERTIES
    StartsUp
    StopsWhenTold
CHECK_DEADLOCK FALSE
