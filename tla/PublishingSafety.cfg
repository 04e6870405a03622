SPECIFICATION Spec
SYMMETRY PublisherSymmetry
CONSTANTS
    p1 = p1
    p2 = p2
    Posts = {p1, p2}
    Generators = {g}
    Publishers = {s1, s2}
    Requests = {r}
    Broken = {}
    Slot <- MCSlot
    BatchLimit = 1
    NoPost = NoPost
    MaxTime = 1
    MaxApprovals = 1
    MaxFaults = 1
INVARIANTS
    TypeOK
    ManualReviewHolds
    OneCopyPerPublisher
    PublisherWaitsForSlot
PROPERTIES
    ImplementsDelivery
