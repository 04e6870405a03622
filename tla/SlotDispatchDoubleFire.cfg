SPECIFICATION Spec
CONSTANTS
    t1 = t1
    t2 = t2
    Tasks = {t1, t2}
    Deals = {t1, t2}
    Types = {"daily", "weekly"}
    Dispatchers = {d1, d2}
    Onboarders = {}
    Planners = {a1}
    Window <- MCWindow
    Priority <- MCPriority
    SeedLimit = 1
    NoTask = NoTask
    MaxTime = 0
    MaxPlans = 1
    MaxFaults = 0
INVARIANTS
    NeverDoubleFires
