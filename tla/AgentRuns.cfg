SPECIFICATION AllAgents
SYMMETRY RunSymmetry
CONSTANTS
    strategy = strategy
    onboard = onboard
    daily = daily
    dnaAgent = dnaAgent
    strategyAgent = strategyAgent
    AgentName = {dnaAgent, strategyAgent}
    Runs = {r1, r2}
    Keys = {strategy, onboard}
    Cycles = {daily}
    Pipeline <- MCPipeline
    FullName <- MCFullName
    Telegram = {onboard, daily}
    NoAgent = NoAgent
    NoRun = NoRun
    NoKind = NoKind
    MaxStages = 2
    MaxFaults = 2
    p1 = p1
    p2 = p2
    Writers = {p1, p2}
    ByHand = {p2}
    Plan <- MCPlan
    Articles <- MCArticles
    ChannelTopics = {"ai", "tools", "data"}
    RivalWords <- MCRivalWords
    Threshold = 3
    TrialScores = 1
    MostRuns = 3
    MostTrouble = 1
    StartSources <- MCStartSources
    FeedType <- MCFeedType
    Seeders = {}
    CategoryFeeds = {"blog"}
    Clues = {}
    Stripped <- MCStripped
    Skipped = {}
    LeadsTo <- MCLeadsTo
    Precision = 10000
    MostSources = 2
    MostEdits = 1
INVARIANTS
    ArticleUsedOnce
    AverageIsOfScores
    SlotAnsweredOnce
    TypesOK
    WantedRunsAreRegistered
    RowsTellTheTruth
PROPERTIES
    KeepsLog
