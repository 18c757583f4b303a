\* Each part of MCServices with its own small instance.
CONSTANTS
    \* conduit: two requests of one session and one of another, one provider
    \* that shares data; the maps hold one session
    Requests = {"r1", "r2", "r3"}
    SessionOf <- MCSessionOf
    NoSession = NoSession
    Providers = {"safe", "open"}
    ConfigOrder <- MCConfigOrder
    QualityOrder <- MCQualityOrder
    Sharing = {"open"}
    ArbiterModel = "safe"
    Specialists = {"ada"}
    MaxConsents = 1
    MaxSticky = 1
    Nobody = Nobody
    \* turns
    Turns = {"t1"}
    MaxRounds = 2
    CallLists <- MCCallLists
    \* coins: a budget and two user wallets, two requests in flight, two days
    Clients = {client1, client2}
    Rates <- MCRates
    Tokens = {500, 1000}
    Wallets <- MCWallets
    Limits <- MCLimits
    Copper = "purse"
    Silver = "vault"
    Exchanged = 10000
    BankingRate = 40
    MaxCharges = 3
    MaxCycles = 1
    \* sessions
    Backends = {"memory", "redis", "postgres"}
    Writers = {writer1, writer2}
    Ttl = 2
    MaxMessages = 4
    MaxAppends = 3
    MaxClock = 3
    \* limiters
    Limiters = {"memory", "redis"}
    Callers = {caller1, caller2}
    Users = {"u1"}
    Rpm = 3
    Window = 3
    Burst = 2
    BurstWindow = 1
    EvictionAge = 3
    EvictionInterval = 2
    MaxTime = 5
    \* strikes
    Inputs = {input1, input2, input3}
    MaxStrikes = 5
    \* issues: two issues, two scans at a time, two assignments by hand
    Issues = {1, 2}
    Scans = {scan1, scan2}
    Assignments = {assign1, assign2}
    PageSize = 3
    MaxConcurrent = 2
    \* tasks
    Tasks = {task1, task2, task3}
    Workers = {worker1, worker2}
    MaxIdle = 2
    \* canaries
    Orgs = {"none", "acme"}
    NoOrg = "none"
    MinRequests = 2
    ErrorPercent = 10
    StageDuration = 1
    MaxRequests = 2
    \* builders: a run near the end of its stages
    Runs = {"run-1"}
    InitialStages = {"quality_checks_passed"}
    Versions = {1}
    Artifacts = {"art"}
    MaxEvents = 3
    MaxResults = 1
    NoRun = NoRun
    Listings <- MCListings
    \* fleet: two requests that create the agent, two reviews at a time
    Creators = {create1, create2}
    Reviewers = {review1, review2}
    Souls = {"soul"}
    MaxCreations = 2
    MaxReviews = 2
    \* accounts: one account, two browsers, tokens that last a tick
    Emails = {"ann"}
    Secrets = {"s1", "s2"}
    RoleSets = {"user", "admin"}
    DefaultRoles = "user"
    TeamOf <- MCTeamOf
    Browsers = {b1, b2}
    SessionMaxAge = 1
    MaxTicks = 2
    \* prompts: three editors of one prompt, three versions
    Managers = {"memory", "postgres"}
    Editors = {e1, e2, e3}
    MaxVersions = 3
    MaxUpserts = 4
    \* market: two requests, two versions of the plugin list, the items without a URL delisted
    PluginsOf <- MCPlugins
    HubAnswers <- MCHub
    DemoOf <- MCDemo
    BrowsedSources = {"all", "agents"}
    PerPage = 1
    Pages = {2}
    ListLife = 1
    DelistAfter = 1
    Shoppers = {"x", "y"}
    Flawed = {""}
    MaxBrowses = 2
    MaxFixes = 1
    MaxPushes = 1
    MaxMarketTime = 2
SPECIFICATION ServicesSpec
INVARIANTS
    ConsentIsOwn
    TurnsAreSettled
    SpendingIsControlled
    HistoryIsFaithful
    LimitsHold
    NoGhostAssignments
    TasksAreKept
    StagesAreEarned
    RecordsAgree
    TierIsJustified
    RevocationTakesHold
    ProductionIsMeant
PROPERTIES
    RegistrationStands
CHECK_DEADLOCK FALSE
