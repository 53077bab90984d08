\* The sender's comment on messages.status, with no fault at all.
SPECIFICATION Spec
CONSTANTS
    a = a
    b = b
    p = p
    q = q
    Outsider = outsider
    Msg = {p}
    Mail = {"x"}
    Member = {a, b}
    MailOf <- OneMail
    Author <- PostByA
    Role <- AllMembers
    Paused = {}
    Policy = "members"
    Malformed = {}
    MaxRetries = 1
    MaxFaults = 0
INVARIANT
    StatusConverges
CHECK_DEADLOCK FALSE
