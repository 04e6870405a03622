SPECIFICATION Progress
CONSTANTS
    p1 = p1
    p2 = p2
    Posts = {p1, p2}
    Generators = {g}
    Publishers = {s1}
    Requests = {r}
    Broken = {p1}
    Slot <- MCSlot
    BatchLimit = 2
    NoPost = NoPost
    MaxTime = 1
    MaxApprovals = 1
    MaxFaults = 1
    daily = daily
    weekly = weekly
    onboard = onboard
    Jobs = {daily, onboard, weekly}
    JobKind <- MCJobKind
    Tiers = {"new", "mid"}
    MaxCrashes = 1
INVARIANTS
    RequestIsKept
    ActiveIsMeasured
PROPERTIES
    DuePostIsSent
    RequestIsAnswered
