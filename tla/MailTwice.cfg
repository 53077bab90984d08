\* The PRD's invariant 3 against the retry of a job whose copy went out.
SPECIFICATION Spec
CONSTANTS
    a = a
    b = b
    p = p
    q = q
    Outsider = outsider
    Msg = {p}
    Mail = {"x"}
    Member = {a, b}
    MailOf <- OneMail
    Author <- PostByA
    Role <- AllMembers
    Paused = {}
    Policy = "members"
    Malformed = {}
    MaxRetries = 1
    MaxFaults = 1
INVARIANT
    NoMemberReceivesTwice
CHECK_DEADLOCK FALSE
