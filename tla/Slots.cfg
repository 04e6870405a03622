SPECIFICATION Slots
CONSTANTS
    t1 = t1
    t2 = t2
    d1 = d1
    o1 = o1
    a1 = a1
    a2 = a2
    Tasks = {t1, t2}
    Deals = {t1, t2}
    Types = {"daily", "weekly"}
    Dispatchers = {d1}
    Onboarders = {o1}
    Planners = {a1, a2}
    Window <- MCWindow
    Priority <- MCPriority
    SeedLimit = 1
    NoTask = NoTask
    MaxTime = 1
    MaxPlans = 2
    MaxFaults = 1
INVARIANTS
    TypeOK
    OnePostPerHandling
    OneDealPlan
    OneActivePlanPerType
PROPERTIES
    KeepsLedger
    DueSlotIsFired
