SPECIFICATION Spec
CONSTANTS
    Jobs = {j1}
    Choices = {c1, c2}
    Generators = {g1}
    Workers = {w1}
    PublishEnabled = {TRUE}
    Recoverers = {r1}
    Operators = {o1, o2}
    StaleTimeout = 1
    Horizon = 2
    BatchLimit = 20
    MaxTime = 2
    MaxEdition = 1
    NULL = NULL
SYMMETRY Symmetry
INVARIANT
    PostedIsSelected
PROPERTY
    PromotedWhenDue
