\* Each part of MCTuring with its own small instance.
CONSTANTS
    \* tick: one deadline, two chats, two pools, three ticks
    Deadlines = {"d1"}
    OpensAt <- MCOpens
    DeliverAt <- MCDeliver
    Chats = {"m1", "m2"}
    Pools = {"p", "q"}
    LastPool = "q"
    Cadence = 1
    TopX = 2
    Cooldown = 1
    MaxTick = 3
    MaxSchedules = 2
    \* lineage: six memories, one end of the process
    MaxMemories = 6
    MaxOf <- MCMaxOf
    MaxCrashes = 1
    \* dreamer: one intent, three nights
    Intents = {"i"}
    MinNewDurable = 2
    WisdomN = 2
    PolarityPercent = 60
    MaxCandidates = 1
    MaxDurable = 3
    MaxNights = 3
    \* bootstrap: two processes, two items, two facets, three launches
    Installers = {"i1", "i2"}
    BankSize = 2
    FacetCount = 2
    MaxLaunches = 3
    \* skills: one concept, one skill in two spellings
    ConceptNames = {"c"}
    SkillNames = {"run", "Run"}
    LowerCase <- MCLower
    FirstLevel = 1
    WeakBelow = 2
    TopLevel = 3
    MinAttempts = 2
    MaxAgenda = 2
    MaxAttempts = 3
    MaxCuts = 1
    \* nodes: two callers, two passions, four calls
    Hands = {"g", "h"}
    Passions = {"a", "b"}
    RankGap = 10
    RetestAnswers = 2
    MaxCalls = 4
    \* feed: two items, two polls
    FeedItems = {"i", "j"}
    MaxReadings = 2
    MaxEndings = 2
    \* notes: one writer beside the keeper, room for one note
    Writers = {"w"}
    Keeper = "k"
    Topics = {"a"}
    MaxNotes = 1
    MaxWritten = 3
    MaxVoice = 1
    MaxStops = 1
    \* views: three memories from two threads, one fault
    Inserters = {"main", "chat"}
    MainThread = "main"
    MaxRecords = 3
    MaxFaults = 1
    \* producers: two jobs, two ticks
    Urges = 1
    SeedCount = 2
    Subjects = {"s"}
    MaxJobs = 2
    MaxUrgeTick = 2
    MaxFalls = 1
    \* desk: one request, two ratings
    DeskChats = {"m"}
    Raters = {"f", "g"}
    BlockLists <- MCBlockLists
    RefreshEvery = 2
    MaxTurns = 1
    \* conduit: two requests, sections of no, one or two tokens
    Callers = {"r", "s"}
    PerceptionSeconds = 30
    LockSeconds = 55
    BlockCeiling = 4
    BlockSizes = {0, 1, 2}
    \* prompt: three memories
    MaxRows = 3
    WisdomShown = 1
    WisdomSkipped = 2
    TopDurable = 1
    TopRecent = 2
    TopCaptured = 1
    TopRead = 1
    CostOf <- MCCostOf
    DurableTokens = 2
    Budgets = {1, 3}
SPECIFICATION TuringSpec
INVARIANTS
    BacklogIsSound
    LineageIsSound
    NoContradictingWisdom
    SelfIsSound
    KnowledgeIsSound
CHECK_DEADLOCK FALSE
