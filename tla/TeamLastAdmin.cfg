\* Two handlers on a team of two rows.
SPECIFICATION Spec
CONSTANTS
    Row = {x1, x2}
    Handler = {h1, h2}
    Founder = {}
INVARIANT
    AlwaysAnAdmin
CHECK_DEADLOCK FALSE
