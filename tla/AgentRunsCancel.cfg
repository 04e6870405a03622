SPECIFICATION Spec
SYMMETRY RunSymmetry
CONSTANTS
    strategy = strategy
    onboard = onboard
    daily = daily
    dnaAgent = dnaAgent
    strategyAgent = strategyAgent
    AgentName = {dnaAgent, strategyAgent}
    Runs = {r1, r2}
    Keys = {strategy, onboard}
    Cycles = {daily}
    Pipeline <- MCPipeline
    FullName <- MCFullName
    Telegram = {onboard, daily}
    NoAgent = NoAgent
    NoRun = NoRun
    NoKind = NoKind
    MaxStages = 2
    MaxFaults = 0
INVARIANTS
    RunsCanBeCancelled
