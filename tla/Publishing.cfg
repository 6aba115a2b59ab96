SPECIFICATION Spec
CONSTANTS
    Jobs = {j1}
    Choices = {c1}
    Generators = {g1}
    Workers = {w1, w2}
    PublishEnabled = {TRUE, FALSE}
    Recoverers = {r1}
    Operators = {o1}
    StaleTimeout = 1
    Horizon = 1
    BatchLimit = 20
    MaxTime = 2
    MaxEdition = 2
    NULL = NULL
SYMMETRY Symmetry
INVARIANTS
    AtMostOnePost
    PublishedIsPosted
    NoticeMatchesOutcome
    OwnedOnce
PROPERTIES
    ObeysTable
    ImplementsPublishOnce
