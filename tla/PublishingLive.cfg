SPECIFICATION FairSpec
CONSTANTS
    Jobs = {j1}
    Choices = {c1}
    Generators = {g1, g2}
    Workers = {w1}
    PublishEnabled = {TRUE}
    Recoverers = {r1}
    Operators = {o1}
    StaleTimeout = 1
    Horizon = 2
    BatchLimit = 20
    MaxTime = 2
    MaxEdition = 2
    NULL = NULL
INVARIANT
    TypeOK
PROPERTIES
    ApprovedIsTaken
    PublishingIsResolved
    DueIsPromoted
    OutcomeIsNotified
