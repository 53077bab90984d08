SPECIFICATION HubSpec
CONSTANTS
    Person = {p1}
    Link = {l1, l2}
    Visit = {v1, v2}
    Seats = 2
    Human = {h1}
    List = {g1, g2}
    Weeks = 2
    Group = {a1, a2}
    Name = {n1, n2}
    Change = {c1, c2}
    Draft = {k1, k2}
    Candidates = 2
    Cap = 2
    Days = 1
    Line = {x, y}
    MaxLines = 4
    Context = 1
    Files = 3
    Runner = {s1, s2}
    Edit = {e1, e2}
    Click = {u1, u2}
    Address = {m1, m2}
    Call = {r1, r2}
    MaxViews = 3
    Job = {j1, j2}
    MaxChanges = 1
INVARIANTS
    OneSessionPerLink
    WastedForAReason
    GroupLossNeedsOverlap
    CoversNeedOverlap
    WorkLostNeedsOverlap
    AsksForLastAddress
    PageNeedsQuiet
    DiffReplays
    RecordedIsWhole
PROPERTIES
    OptOutLasts
CHECK_DEADLOCK FALSE
