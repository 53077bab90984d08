\* A page is created while a draft for it is being written.
SPECIFICATION Spec
CONSTANTS
    o1 = o1
    o2 = o2
    o3 = o3
    Op = {o1, o2}
    Workload <- Sorted
    Reader = {}
    Nobody = nobody
    MaxFaults = 0
PROPERTY
    NeverOverwrites
CHECK_DEADLOCK FALSE
