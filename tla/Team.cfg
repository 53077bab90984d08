\* Four rows, two handlers at a time, two sign-ups.
SPECIFICATION Spec
CONSTANTS
    Row = {x1, x2, x3, x4}
    Handler = {h1, h2}
    Founder = {f1, f2}
SYMMETRY Symmetry
INVARIANTS
    TypeOK
    AdminLossNeedsOverlap
PROPERTY
    FoundersOverlap
CHECK_DEADLOCK FALSE
