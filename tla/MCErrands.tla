------------------------------ MODULE MCErrands ------------------------------
(***************************************************************************)
(* More parts of Stronghold, beside those of MCServices and checked in the *)
(* same way: `part' is chosen once, and only that part moves.              *)
(***************************************************************************)
EXTENDS SkillCatalog, McpAccess, Learnings, Delegation, TaskSources, Standings, Tooling,
        Lifespan

VARIABLE part

MCQuality == <<"clean", "clean", "leaky", "hopeless">>
MCRepairOf == <<1, 2, 3, 4>>
MCTiers == <<"P0", "P1">>
MCScheduleOrg == [u1 |-> "o1", u2 |-> "o2"]
MCCloneDir == [r \in Repos |-> "x"]
MCNonceOf == [d \in Deliveries |-> "none"]
MCRecorded == {[user |-> "u", org |-> "a", model |-> "m", ok |-> TRUE, tokens |-> 2],
               [user |-> "v", org |-> "", model |-> "n", ok |-> FALSE, tokens |-> 1]}
MCFree == [p |-> 1, q |-> 1]
MCCycle == [p |-> "daily", q |-> "monthly"]
MCAhead == [d1 |-> 0, d2 |-> 1]

ErrandsInit ==
    /\ part \in {"shelf", "watch", "mcp", "tokens", "learnings", "peers", "delegations",
                "queue", "pool", "schedules",
                "tournament", "toolcalls", "worktrees", "webhooks", "reports",
                "lifespan", "strategies", "reviews"}
    /\ ShelfInit /\ WatchInit /\ McpInit /\ TokensInit
    /\ LearningInit /\ (part = "learnings" \/ storeKind = "memory")
    /\ PeersInit /\ DelegationInit /\ QueueInit /\ PoolInit /\ SchedulesInit /\ TournamentInit /\ ToolCallsInit
    /\ WorktreesInit /\ WebhooksInit
    /\ ReportsInit /\ (part = "reports" \/ outcomeStore = "memory")
    /\ LifespanInit /\ (part = "lifespan" \/ executed[1] = 0)
    /\ StrategiesInit
    /\ \/ part = "strategies"
       \/ phase = "plan" /\ \A g \in DOMAIN guards : guards[g] = FALSE
    /\ ReviewInit /\ (part = "reviews" \/ lessonStore = "memory")

ErrandsNext ==
    /\ UNCHANGED part
    /\ IF part = "shelf" THEN ShelfNext ELSE UNCHANGED shelfVars
    /\ IF part = "watch" THEN WatchNext ELSE UNCHANGED watchVars
    /\ IF part = "mcp" THEN McpNext ELSE UNCHANGED mcpVars
    /\ IF part = "tokens" THEN TokensNext ELSE UNCHANGED tokenVars
    /\ IF part = "learnings" THEN LearningNext ELSE UNCHANGED learningVars
    /\ IF part = "peers" THEN PeersNext ELSE UNCHANGED peerVars
    /\ IF part = "delegations" THEN DelegationNext ELSE UNCHANGED delegationVars
    /\ IF part = "queue" THEN QueueNext ELSE UNCHANGED queueVars
    /\ IF part = "pool" THEN PoolNext ELSE UNCHANGED poolVars
    /\ IF part = "schedules" THEN SchedulesNext ELSE UNCHANGED scheduleVars
    /\ IF part = "tournament" THEN TournamentNext ELSE UNCHANGED tournamentVars
    /\ IF part = "toolcalls" THEN ToolCallsNext ELSE UNCHANGED toolCallVars
    /\ IF part = "worktrees" THEN WorktreesNext ELSE UNCHANGED gitVars
    /\ IF part = "webhooks" THEN WebhooksNext ELSE UNCHANGED hookVars
    /\ IF part = "reports" THEN ReportsNext ELSE UNCHANGED usageVars
    /\ IF part = "lifespan" THEN LifespanNext ELSE UNCHANGED lifeVars
    /\ IF part = "strategies" THEN StrategiesNext ELSE UNCHANGED strategyVars
    /\ IF part = "reviews" THEN ReviewNext ELSE UNCHANGED reviewVars

ErrandsSpec ==
    ErrandsInit
    /\ [][ErrandsNext]_<<part, shelfVars, watchVars, mcpVars, tokenVars, learningVars, peerVars,
                          delegationVars, queueVars, poolVars, scheduleVars, tournamentVars, toolCallVars, gitVars, hookVars,
                          usageVars, lifeVars, strategyVars, reviewVars>>

\* What is served is what its source has: a skill file passed the scan and an organisation's
\* history has no hopeless text; a watcher that caught up serves what was last written; a
\* server is what the cluster runs, while calls come one at a time and are answered; a code
\* leads to one line of tokens; a learning is shown to its own organisation; counts and lessons
\* agree with the reviews; and a process serves with every migration recorded, on open pools.
CatalogsAreSound ==
    ShelfIsSound /\ CatalogFollows /\ ClusterIsTracked /\ OneLineOfTokens /\ LearningsStayHome
    /\ StartsAreSound /\ ReviewsTeach

\* Work done for others leaves its trace: each answered call is audited, an entry of the queue
\* waits or was taken, one of the two and once, a pooled run keeps what was promised of it, no
\* schedule exceeds its owner's limit, standings and reports add up, no refused tool runs, no
\* commit is lost and none is on a branch made for another issue, no copy of a delivery is
\* taken for new while its nonce is remembered, and Mason is done only after his gates.
ErrandsAreSound ==
    /\ CallsAreAudited /\ DelegatesAreListed /\ QueueServesOnce /\ PoolKeepsWord /\ SchedulesAreHeld /\ StandingsAddUp
    /\ ToolsAreGuarded /\ CommitsAreKept /\ CopiesAreTold /\ ReportsAddUp
    /\ CodeRunsAreHonest
=============================================================================
