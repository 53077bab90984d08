\* One address on one list: three submissions, two admins, one fault.
SPECIFICATION FairSpec
CONSTANTS
    Seat = {s}
    Req = {i, j, k}
    Decision = {d, e}
    MaxFaults = 1
INVARIANTS
    TypeOK
    OneDecision
    DuplicatesOverlap
    LinkLostOnlyToFaults
PROPERTIES
    KeepsConsent
    ApprovalTakesEffect
CHECK_DEADLOCK FALSE
