\* One mail, which the MTA may hand over again, to a list of one: duplicates,
\* retries and dead letters under up to three faults.
SPECIFICATION Spec
CONSTANTS
    a = a
    b = b
    p = p
    q = q
    Outsider = outsider
    Msg = {p, q}
    Mail = {"x"}
    Member = {a}
    MailOf <- RetriedMail
    Author <- PostByA
    Role <- AIsModerator
    Paused = {}
    Policy = "announce_only"
    Malformed = {}
    MaxRetries = 1
    MaxFaults = 3
INVARIANTS
    DuplicatesNeedFaults
    DeadLetterNeedsFaults
    DeadLetterStaysQueued
CHECK_DEADLOCK FALSE
