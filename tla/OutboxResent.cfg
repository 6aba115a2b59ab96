SPECIFICATION Spec
CONSTANTS
    Outcomes = {o1}
    Reviews = {r1}
    Senders = {s1}
    MaxAttempts = 2
    Lookback = 1
    Retention = 2
    MaxRows = 2
    MaxMishaps = 1
    NULL = NULL
INVARIANT PurgedStaysGone
