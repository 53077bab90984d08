\* One post to a list of two: every interleaving of the fan-out, the jobs, and
\* people joining and leaving, with a fault anywhere.
SPECIFICATION FairSpec
CONSTANTS
    a = a
    b = b
    p = p
    q = q
    Outsider = outsider
    Msg = {p}
    Mail = {"x"}
    Member = {a, b}
    MailOf <- OneMail
    Author <- PostByA
    Role <- AllMembers
    Paused = {}
    Policy = "members"
    Malformed = {}
    MaxRetries = 1
    MaxFaults = 1
INVARIANTS
    TypeOK
    JobHasRow
    SentWasMailed
    OneCopyAfterLeaving
    QueuedMeansEnqueued
PROPERTIES
    SentRegressesOnlyAfterLeaving
    KeepsPromise
    JobsSettle
    QueuedIsMailed
CHECK_DEADLOCK FALSE
