SPECIFICATION FairSpec
CONSTANTS
    Items = {n1}
    Syncs = {y1, y2}
    Scorers = {s1, s2}
    Generators = {g1}
    MaxRetries = 2
    MaxFaults = 1
    NULL = NULL
INVARIANTS
    TypeOK
    OneCreator
    OneVerdict
    NothingOrphaned
    NoticesMeanIt
PROPERTIES
    ReviewAnnounced
    AIStagesEnd
