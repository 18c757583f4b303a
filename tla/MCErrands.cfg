\* Each part of MCErrands with its own small instance.
CONSTANTS
    \* shelf: one organisation, a clean text and a hopeless one
    SkillOrgs = {"o"}
    Texts = {1, 4}
    Quality <- MCQuality
    RepairOf <- MCRepairOf
    InstallTiers = {"t2"}
    MaxSkillVersions = 2
    MaxFailures = 1
    \* watch
    MaxWrites = 4
    \* mcp: two operators, two registrations of the name
    Operators = {"a", "b"}
    MaxServers = 2
    MaxOrders = 4
    MaxMishaps = 1
    \* tokens: two clients, one authorization, its three pairs
    OAuthClients = {"c", "d"}
    MaxCodes = 1
    MaxPairs = 3
    MaxNow = 2
    \* learnings: turns of two organisations, a store of one learning
    LearningStoreKinds = {"memory", "postgres"}
    LearningOrgs = {"o1", "o2"}
    Words = {"a"}
    Learners = {"t1", "t2"}
    LearningCap = 1
    Threshold = 1
    MaxLearnt = 2
    MaxOutcomes = 2
    \* peers: two tenants, one call
    Tenants = {"t1", "t2"}
    GuestAgents = {"a", "b"}
    PeerCalls = {"c1"}
    \* delegations, queue and pool: two agents, two tiers, five entries, two tasks for one worker
    A2aTasks = {"t1", "t2"}
    A2aAgents = {"a", "b"}
    Tiers <- MCTiers
    MaxQueued = 5
    A2aRuns = {"r1", "r2"}
    MaxWorkers = 1
    MaxTries = 2
    \* schedules: a user in each of two organisations
    ScheduleUsers = {"u1", "u2"}
    ScheduleOrg <- MCScheduleOrg
    MaxTasksPerUser = 1
    MaxSchedules = 2
    MaxRuns = 1
    \* tournament: three battles of two agents, in two organisations
    Fighters = {"f", "g"}
    FightOrgs = {"o1", "o2"}
    MaxSwing = 4
    Margin = 2
    MinBattles = 3
    MaxBattles = 2
    MaxFought = 3
    \* toolcalls
    ToolCallIds = {"c1"}
    MaxRegistrations = 2
    \* worktrees: two owners' repositories of one name
    Repos = {"p/x", "q/x"}
    CloneDir <- MCCloneDir
    GitIssues = {1, 2}
    MaxEdits = 2
    \* webhooks: two senders without nonces, one of them with a clock ahead
    Deliveries = {"d1", "d2"}
    NonceOf <- MCNonceOf
    Ahead <- MCAhead
    Age = 2
    MaxHookTime = 4
    \* reports: a daily and a monthly provider, two outcomes, two days
    Outcomes <- MCRecorded
    FreeTokens <- MCFree
    CycleOf <- MCCycle
    PayAsYouGo = {"q"}
    TokensPerPoint = 1
    TopLevel = 3
    MaxKept = 1
    MaxRecorded = 2
    MaxUses = 2
    MaxHalfDays = 3
    \* lifespan: two replicas of one database, started twice
    Processes = {"a", "b"}
    LastMigration = 3
    OneShot = {1, 2}
    InitScripts = {0, 1, 3}
    MaxStarts = 2
    MaxFalls = 1
    \* strategies: three rounds of up to two tool calls
    MaxPhases = 1
    MaxRetries = 0
    MaxCallsOfReply = 2
    CallArguments = {"fine", "oversized"}
    Workers = {"frank", "mason", "unknown"}
    \* reviews: two reviews of up to two findings each
    Authors = {"a", "b"}
    Categories = {"c", "d"}
    LowerKeys = {"d"}
    MaxReviews = 2
    MaxFindings = 2
SPECIFICATION ErrandsSpec
INVARIANTS
    CatalogsAreSound
    ErrandsAreSound
CHECK_DEADLOCK FALSE
