SPECIFICATION Spec
CONSTANTS
    Variants = {v1, v2}
    Captions = {c1, c2}
    Requests = {r1, r2, r3}
    NULL = NULL
SYMMETRY Symmetry
INVARIANTS
    TypeOK
    ArtworkMatches
    PreviewPending
PROPERTY ImplementsAtomicPost
CHECK_DEADLOCK FALSE
