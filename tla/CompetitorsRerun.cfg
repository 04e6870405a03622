SPECIFICATION Workspace
CONSTANTS
    daily = daily
    weekly = weekly
    onboard = onboard
    h1 = h1
    b1 = b1
    b2 = b2
    k = k
    p1 = p1
    p2 = p2
    r1 = r1
    r2 = r2
    c1 = c1
    c2 = c2
    Parts = {"competitors"}
    Pollers = {p1, p2}
    Runs = {daily, onboard}
    RunKind <- MCRunKind
    MaxTime = 2
    MaxRows = 2
    Agents = {r1}
    Refreshers = {c1}
    Handles = {h1, h2}
    Brands = {b1}
    Key <- MCKey
    Strength <- MCStrength
    TopN = 3
    Healthy = 2
    MaxRounds = 2
    Inputs <- MCInputs
    TopicLists <- MCTopicLists
    LootPerDay = 25
    SinglePerDay = 25
    AmazonPerDay = 15
    FlipkartPerDay = 10
    StartHour = 9
    EndHour = 23
    LeadMinutes = 20
    DispatchMinutes = 5
    ZoneOffset = 330
    Platforms = {"Amazon", "Flipkart", "Ajio"}
    Workers = {p1, p2}
    Offers <- MCOffers
    Categories <- MCCategories
    Bucket <- MCBucket
    AjioSells = {"Watches", "Jewellery"}
    Near <- MCNear
    Overlap <- MCOverlap
    Slots <- MCSlots
    Preferred <- MCPreferred
    Trending = {"Jewellery"}
    LastingWords = 1
    PrefDiscount = 80
    MinDiscount = 65
    MaxDiscount = 95
    BucketsPerLoot = 4
    LinesPerBucket = 3
    CacheTime = 1
    LinkWindow = 0
    TitleWindow = 1
    LastTick = 1
    MostPosts = 2
    Outages <- MCOutages
    Seeders = {r1, r2}
    FeedType <- MCFeedType
    CategoryFeeds = {"blog", "shop"}
    Clues <- MCClues
    Stripped <- MCStripped
    Skipped = {"t.me", "short", "dead"}
    LeadsTo <- MCLeadsTo
    Precision = 10000
    MostSources = 5
    MostEdits = 2
    Slugs = {"grabon", "acme"}
    Platform = "grabon"
    Emails = {"boss", "ann"}
    Usernames = {"c"}
    Targets = {9}
    Requesters = {r1, r2}
    MostCalls = 3
INVARIANTS
    RediscoveredIsKept
