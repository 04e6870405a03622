SPECIFICATION Spec
CONSTANTS
    p1 = p1
    p2 = p2
    Posts = {p1, p2}
    Generators = {g}
    Publishers = {s1}
    Requests = {r}
    Broken = {}
    Slot <- MCSlot
    BatchLimit = 1
    NoPost = NoPost
    MaxTime = 1
    MaxApprovals = 1
    MaxFaults = 0
PROPERTIES
    SendsOnlyApproved
