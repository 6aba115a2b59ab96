SPECIFICATION Spec
CONSTANTS
    Outcomes = {o1}
    Reviews = {r1}
    Senders = {s1, s2}
    MaxAttempts = 2
    Lookback = 0
    Retention = 1
    MaxRows = 2
    MaxMishaps = 1
    NULL = NULL
SYMMETRY Symmetry
INVARIANTS
    TypeOK
    DeadIsExhausted
    DuplicatesAreMishaps
    OutcomeWrittenOnce
PROPERTY
    ImplementsDelivery
