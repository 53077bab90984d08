\* What the join page promises about an approval.
SPECIFICATION Spec
CONSTANTS
    Seat = {s}
    Req = {i}
    Decision = {d}
    MaxFaults = 0
PROPERTY
    ApprovedReceives
CHECK_DEADLOCK FALSE
