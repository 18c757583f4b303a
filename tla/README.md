# Stronghold in TLA+

A specification of Stronghold (`src/src/stronghold`), the agent platform of this
repository, and of Project Turing (`src/research/project-turing/sketches/turing`), the
experiment in autonomous selves beside it. The modules are translated from the Python
source. TLC checks small instances of all of them; TLAPS proves what matters most for
every instance. `PROJECT.json` lists the components, the runs with their properties, the
source lines behind each definition (`map`), the hazards the properties are aimed at, the
findings and the theorems. This file explains them.

## 1. The system

Stronghold is one asyncio process (FastAPI) with PostgreSQL and Redis behind it. Code
between two `await`s is atomic, so the concurrency of its parts is interleaving at awaits,
and in the database of single statements unless a transaction is opened. Project Turing is
a blocking loop on one thread, with a chat server whose handlers run in threads of their
own, over one SQLite file.

| Part | State it keeps | Operations | Interacts with |
|---|---|---|---|
| Orchestrator engine, `orchestrator/engine.py` | `_items`, a priority queue, `_running`, worker tasks | dispatch, cancel, start, stop, worker loop | agents (awaits `handle`), reactor (`emit`), API, pipeline |
| Reactor, `events.py` | triggers with their breakers, event queue, waiters' futures | emit, emit_and_wait, tick, register, unregister, enable, disable, stop | everything emits to it; gates run inline, other actions as tasks |
| Core triggers, `triggers.py` | closures over the container | ten actions; the backlog scanner starts pipelines | reactor, pipeline, GitHub, canaries, learnings |
| Builder pipeline, `orchestrator/pipeline.py` | one `PipelineRun` per issue | `execute` | engine, spec store, spec verifier |
| Builders, `builders/` | `RunState` per run, runtime versions | create, advance, apply result, retry, dump, load | a stateless runtime |
| Conduit, `conduit.py`, `api/litellm_client.py` | sticky agents, consents, questions, fallback models | `route_request` | classifier, router, quota, coins, agents |
| Agents, `agents/base.py`, `agents/strategies/`, `agents/artificer/` | the turn's messages and tool calls | `handle`, the loops of the strategies | sessions, tools, learnings, outcomes, coins |
| Fleet, `agents/store.py`, `agents/factory.py`, `api/routes/agents.py`, `admin.py` | live agents, their rows, reviews | create, import, update, delete, review, rebuild | prompts, audit trail |
| Mason queue, task queue, worker, `agents/mason_queue.py`, `task_queue.py`, `worker.py` | records of issues, tasks | assign, scan, claim, complete, fail | GitHub, API, pipelines |
| Sessions, `sessions/`, `persistence/pg_sessions.py`, `cache/session_store.py` | messages per session | append, read, expire, delete | agents |
| Guards, `security/rate_limiter.py`, `cache/rate_limiter.py`, `strikes.py`, `gate.py` | stamps per key; strikes, locks | check, record; violation, appeal, pardon | middleware, warden, admin API |
| Tools, `tools/`, `security/sentinel/` | registry, audit log, worktrees | dispatch, guard, commit, push | agents, git |
| Accounts, `api/routes/auth.py`, `security/auth_demo_cookie.py` | users, cookies | register, approve, login, revoke | every route |
| Coins and quota, `quota/` | wallets, entries, usage | quote, check, charge, exchange | conduit, agents, reports |
| Prompts, `persistence/pg_prompts.py`, `prompts/` | versions, labels, approvals | upsert, promote, approve, serve | agents |
| Skills, `skills/`, `api/routes/marketplace.py` | texts, versions, watch state, canaries, lists | install, forge, mutate, delist, reload, roll out, browse | disk, marketplaces |
| Learnings, outcomes, feedback, `memory/`, `feedback/` | learnings, counters, outcomes, reviews | store, hit, promote, report | agents, triggers |
| A2A, `a2a/` | peers, delegated tasks, tiers | register, call, delegate, execute | nothing constructs them |
| MCP, `mcp/` | servers, tokens | deploy, scale, remove; authorize, exchange, refresh, revoke | Kubernetes |
| Schedules, webhooks, tournament, `scheduling/`, `api/routes/webhooks.py`, `agents/tournament.py` | tasks and runs; nonces; ratings | create, record; accept, refuse; battle, promote | API |
| Lifespan, `api/app.py`, `container.py`, `persistence/__init__.py` | pools, migrations, workers | start, serve, shut down | all |
| Turing: tick, `motivation.py`, `scheduler.py`, `daydream.py` | backlog, deadlines, candidates | handlers of one tick | chats, producers |
| Turing: memories, `repo.py`, `write_paths.py`, `dreaming.py`, `tuning.py` | memories and their lineage | supersede, tune, dream | all producers |
| Turing: the self, `self_*.py`, `producers/` | bank, facets, nodes, todos, concepts, skills, mood | bootstrap, tools, retests, producers | memories |
| Turing: chat, `runtime/chat.py`, `runtime/main.py`, `self_conduit.py` | replies, ratings, summaries, prompts | chat, perceive, rate, prompt | backlog, memories |
| Turing: views, `runtime/embedding_index.py`, `journal.py`, `actor.py`, `working_memory.py`, `voice_section.py`, `rss` | index, journal, notes, readings | rebuild, follow, maintain, poll | memories |

What is hard in it:

* a name that stands for two things: work ids, issue numbers, trigger names, server names
  and skill names are taken again while the old holder is still queued, running or stored;
* decisions on what was read before an await: quota, coins, strikes, reviews, versions,
  sessions in PostgreSQL, rate limits in Redis;
* a scan interrupted in its middle: the reactor awaits a gate, a catalog is reloaded while
  its file is written, an index is rebuilt while threads insert;
* an answer that comes after its waiter gave up, a result applied twice or late, a request
  that is sent again;
* statements that belong together and are committed one by one, with a process that may
  end between any two of them;
* shutdown and restart at any point, with workers, writers and half-written rows about;
* two records that must agree over a whole run: a row and the live fleet, a counter and
  its log, a stage and its events, a lineage seen from both ends.

What makes each part correct is stated under its module below; `hazards` in
`PROJECT.json` names the line where each danger bites and the properties for it.

## 2. The modules

```
WorkBoard <--- EngineImplementsBoard ---> OrchestratorEngine <--- BuilderPipeline
Reactor

MCServices  = Conduit | AgentTurn | CoinLedger | SessionStores | RequestGuards | WorkQueues
              | Rollouts | BuildersRun | AgentFleet | Accounts | Marketplace
MCErrands   = SkillCatalog | McpAccess | Learnings | Delegation | TaskSources | Standings
              | Tooling | Lifespan
MCTuring    = TuringTick | MemoryWriters | SelfBootstrap | SelfGrowth | OwnAccord | MemoryViews
              | TuringChat | SelfConduit
```

The engine and the pipeline share state and are composed: `BuilderPipeline` extends
`OrchestratorEngine`, and a step of the pipeline may be a dispatch or a cancellation in it.
The parts beside them keep state of their own; where one calls another, the callee's
answer is a choice of the caller's module. A module may hold two parts that share no state:
each has its own variables, `...Init`, `...Next` and `...Spec`.

Definitions whose name begins with `X_` are faulty variants of the operation they stand
beside, each a plausible slip (a missing test, a late counter, a forgotten event). They
occur in no next-state relation: replacing the operation by its variant must make TLC
report the property they belong to, and `mutants` in `PROJECT.json` says which belongs to
which. Variables that only the properties read (`log`, `served`, `asked`, `blessed` and
the like) are marked by their comments; no guard depends on them.

### Stronghold: engine, reactor, pipeline

**OrchestratorEngine.** `cur` is `_items` (which object an id resolves to), `status` the
status of every object ever made, `queue` the priority queue, `running` is `_running`,
`wpc` and `hold` say what each worker task does. A dispatch under an id that is taken
replaces the object in the slot, so objects are written `<<id, gen>>`; queue entries carry
only the id. Actions are start, dispatch, cancel, stop and the pieces of `_worker` between
its awaits. The one-second timeout of the queue read changes nothing and is a stutter.
Properties: no queued item loses its entry (`NoLostWork`); `running` is backed by a worker
(`RunningIsExecuted`); with fresh ids one execution and one event per item
(`ExecutedOnce`, `OneEventPerOutcome`) along the documented transitions; everything queued
is finished (`WorkIsFinished`).

**WorkBoard, EngineImplementsBoard.** What the engine promises clients that use each id
once: waiting jobs, at most `Capacity` active ones, the best waiting job next, one outcome
per job. The refinement mapping makes waiting the entries whose item is still queued,
active what workers hold, and gives an item abandoned by `stop()` an outcome of its own.

**Reactor.** `loop` says where `start()` is; while it is `scan` nothing else runs. The scan
over `_triggers` is `todo`; it stops at `gate` when it awaits a blocking trigger, and then
emitters, timeouts, action tasks and administrators move. Python iterates over the live
list: `register()` lengthens the scan, `unregister()` makes a new list and the scan goes on
over the old one. Time is `due[t]`: the condition of a clock trigger holds when a tick
samples the clock. `Kill` is the shutdown of `api/app.py`. Left out: payloads, the event
log, `get_status`, and a trigger name registered again while an action of its former
state is in flight.

**BuilderPipeline.** `execute()` as a coroutine over the engine: `pc` is the await it is at,
`stage` the loop index, `stages` and `runStatus` the record it fills, `spec` its local
variable, `store` the spec store. Between dispatch and the end of a poll the engine and the
other runs move. The deadline is `MaxPolls` polls; the output of a stage is reduced to
whether it matches `_clean_signals`. `Exclusive` is the in-progress label that keeps the
scanner's runs for one issue apart.

### Stronghold: MCServices

| Module | Models | What must hold |
|---|---|---|
| `Conduit` | `route_request()` between its awaits, the session maps trimmed to their limits, the router's choice, the one list of fallback models | `ConsentIsOwn`: a session consents only to what it was asked about, its models are never of a data-sharing provider it was not asked about, the maps keep their limit |
| `AgentTurn` | one turn of `handle()` with the ReAct loop; turns of one session meet in its history, any awaited call may raise | `TurnsAreSettled`: every tool call has its result before the model is called again; an answered turn was remembered, charged, recorded and its learnings marked, once |
| `CoinLedger` | check before, charge after the agent runs; cycles of a day or longer; an exchange, which reads the copper wallet's own cycle and files its debit under the day | `SpendingIsControlled`: overdrafts need requests in flight together, or copper that was exchanged out of a wallet of a longer cycle; budgets see every spend |
| `SessionStores` | memory, Redis (one transaction), PostgreSQL (a query and two insertions) | `HistoryIsFaithful`: in memory and Redis a reader gets the latest live messages in order; in all three the question of a turn whose append returned is followed by its own answer |
| `RequestGuards` | rate limits in memory and Redis with eviction; strikes, gate, appeals, pardons | `NoWindowOverLimit`, `StrikesAreConsistent` (in `LimitsHold`) |
| `WorkQueues` | the issue queue with assignments, scans and pipelines; the task queue with its workers | `NoGhostAssignments`, `TasksAreKept` |
| `Rollouts` | skill canaries by organisation; versions and labels of a prompt, statement by statement | `StagesAreEarned`, `ProductionIsMeant` |
| `BuildersRun` | run records, a runtime whose results come late, twice or never, restarts from the last dump | `RecordsAgree`: stage, status, events, retries and artifacts tell one story |
| `AgentFleet` | live agents, rows, both reviews, an audit trail whose insertion may raise, rebuilding at startup | `TierIsJustified`: a tier was earned by reviews, and audited |
| `Accounts` | registration, login, logout, approval, roles, tokens believed until they expire | `RevocationTakesHold`, `RegistrationStands` |
| `Marketplace` | three searches with demo items and a cached list, delisting, scans | `MarketIsHonest` (in `LimitsHold`) |

### Stronghold: MCErrands

| Module | Models | What must hold |
|---|---|---|
| `SkillCatalog` | the shelf: install, forge, mutate, update, roll back, delist; the watcher of a skill's file, which is written and removed | `ShelfIsSound`, `CatalogFollows` |
| `McpAccess` | operators' calls against a cluster whose API fails before the effect or after it; codes and tokens | `ClusterIsTracked`, `OneLineOfTokens` |
| `Learnings` | learnings and outcomes in both stores, promotion; reviews, trends and their lessons | `LearningsStayHome`, `ReviewsTeach` |
| `Delegation` | calls of guest peers with their audit; the two ways of picking a delegate; the task queue with its tiers and the tries of a pooled run, each called freely as nothing connects them | `CallsAreAudited`, `DelegatesAreListed`, `QueueServesOnce`, `PoolKeepsWord` |
| `TaskSources` | schedules of users and organisations; webhooks with stamps and nonces | `SchedulesAreHeld`, `CopiesAreTold` |
| `Standings` | battles and ratings; usage, outcomes, reports and levels | `StandingsAddUp`, `ReportsAddUp` |
| `Tooling` | one tool call between the sentinel's checks; clones, worktrees on branches callers may name, commits, pushes, with git failing half way; the rounds of the Artificer, Frank's and Mason's reconnaissance and diagnosis | `ToolsAreGuarded`, `CommitsAreKept`, `CodeRunsAreHonest` |
| `Lifespan` | replicas that start, migrate, serve and shut down | `StartsAreSound` |

The run checks them as `CatalogsAreSound` (shelf, catalog, servers, tokens, learnings,
reviews, starts) and `ErrandsAreSound` (the others).

### Project Turing: MCTuring

| Module | Models | What must hold |
|---|---|---|
| `TuringTick` | handlers of a tick in their order, chats from threads, daydreams on an executor | `BacklogIsSound`: everything that waits is where the part that serves it looks |
| `MemoryWriters` | supersession, contradiction, tuning across crashes; dreams that make wisdom | `LineageIsSound`, `NoContradictingWisdom` |
| `SelfBootstrap` | bank, facets, answers and mood by processes that are cut, resumed and run twice | `BootstrapIsSound` |
| `SelfGrowth` | passions, todos, revisions, retests; concepts, skills and practice of the producers (`note_skill`, `practice_skill` and `downgrade_skill` of `self_nodes.py`, which also write levels, stand behind stubs and are left out) | `NodesAreSound`, `SkillsAreSound` |
| `OwnAccord` | feeds polled and read; producers, their jobs and steps | `FeedIsRead`, `OwnAccordIsSound` |
| `MemoryViews` | working memory, written in threads that insert, evict and delete beside the maintenance, and the voice; embedding index, journal, actor | `NotesAreKept`, `ViewsFollow` |
| `TuringChat` | a request, its reply, blocks and ratings; what a prompt shows | `DeskIsSound`, `PromptIsSound` |
| `SelfConduit` | perception under a lock, decision, recording, dispatch | `ConduitIsOrderly` |

The run checks them as `BacklogIsSound`, `LineageIsSound`, `NoContradictingWisdom`,
`SelfIsSound` (the self and its conduct) and `KnowledgeIsSound` (feeds, notes, views, prompts).

## 3. The runs

Every passing run explores its whole state space.

| Run | Instance | Distinct states |
|---|---|---|
| `engine_fresh` | 3 ids once each, 2 workers, 2 tiers; refinement of `WorkBoard` included | 4,754 |
| `engine_reuse` | 2 ids twice each, 2 workers, 2 tiers, fair | 67,860 |
| `reactor` | gate, listener, interval and daily trigger, 2 events of 2 names, breaker at 2 failures, 1 action in flight per clock trigger | 325,614 |
| `reactor_admin` | gate and interval trigger, both registered, removed, disabled and enabled at run time, 2 events, 2 actions in flight, fair | 321,206 |
| `pipeline` | 2 issues, one atomic, store and verifier, 2 polls per stage, 1 worker | 154,652 |
| `pipeline_again` | one issue, two runs one after the other under the same work ids, client cancels, two stages without agent, engine need not run, fair | 180,348 |
| `services` | the parts of `MCServices`, each with the instance its cfg describes | 926,918 |
| `errands` | the parts of `MCErrands` | 759,569 |
| `turing` | the parts of `MCTuring` | 1,572,664 |
| `reactor_survives`, `pipeline_cancelled`, `coins_monthly` | violations, see section 6 | |

`services`, `errands` and `turing` check many parts that share no state. A product of them
would be hopeless and would say nothing more, so the run is a sum: `part` is chosen in the
initial state and never changes, and only the part it names moves. A state of the run is a
state of one part beside the initial states of the others, so each part is explored as in
a run of its own.

Why the bounds are enough. Two workers and three ids give every order of reading,
cancelling and finishing, and a third job to be preferred or passed over. Two dispatches
of an id are what it takes for an entry and an object to disagree. Two events fill a batch
and leave one behind a gate; an action in flight finishes late, after its trigger was removed
or disabled, and with two of them a late success resets the count of a trigger whose breaker
the other has opened; two failures are the smallest limit at which counting matters.
Two runs, of two issues or of one, are what it takes to get in each other's way, and one worker
makes them queue for it. In the sum
runs the rule is the same: two of whatever can collide (requests of a session and one of
another, turns, editors and a third to overtake them, reviews, operators, callers, writers,
processes), limits of one or two so that they are reached, and clocks that run just past
the longest life of what they age. Three things are smaller than one would like, for time:
one turn of an agent, one guest call and one tool call, whose second instances add only
what the shared stores of the other parts already show. Bounds without counterpart in the
code are called `Max...` and marked "bound" in the modules.

`CHECK_DEADLOCK FALSE` stands in every configuration because these systems may stop:
the bounds on dispatches, events, runs, calls and ticks are used up, and a stopped engine
or a process that ended has no step left.

`engine_fresh` uses no symmetry although its workers are interchangeable: it also
checks temporal properties.

### Fairness

Fairness is assumed in `engine_reuse`, `reactor_admin` and `pipeline_again` only.

* Engine: weak fairness of `Start` and of each worker's step: the event loop runs
  ready tasks, and `agent.handle()` returns or raises. Nothing is assumed of
  clients, and `stop()` need not come.
* Reactor: weak fairness of the loop, of every action's end and of every waiter's
  timer. Nobody has to emit, and the clock promises nothing.
* Pipeline: weak fairness of the run's own steps only (its sleep ends, the store and
  the verifier answer or raise). The engine is not assumed to run: that the run
  ends all the same is the point of its deadline.

`FairCanarySpec` in `Rollouts` states the fairness under which one documented statement,
which no run checks, would have to hold (section 6).

## 4. What is proved

TLAPS checks the theorems below for every value of the constants that satisfies the
assumptions named in the modules; TLC evaluates those assumptions in the runs. A theorem
about a part is about that part's own specification (`TasksSpec`, `CoinSpec` and so on);
the sum runs check the same formula on small instances. Each rests on an inductive
invariant: the checked property alone does not survive a step, and what is added to it says
why the code keeps the property. `SetLemmas` holds what several proofs need of the community
modules: the least and the greatest element of a set of numbers, sums over finite sets (of a
sequence that grows, of groups, of ones that count), and induction over the naturals and over
the subsets of a finite set, stated for a set of good elements so that the provers can use it.

### Engine (`BuilderPipelineProofs`)

| Theorem | Says |
|---|---|
| `EngineTypeCorrect`, `EngineInvariance` | the types, and `EngineInv`, hold whatever is dispatched, cancelled and stopped |
| `NoWorkIsLost` | a queued item always has an entry that leads to it, also when its id was taken again |
| `RunningIsReal` | `running` items are executed by exactly one worker |
| `NeverExecutedTwice`, `EveryOutcomeIsAnnounced` | one execution and one event per item when ids are not reused |
| `FreshTransitions` | an item then moves along the documented states only |
| `EngineIsABoard` | with fresh ids the engine implements `WorkBoard`, step by step |

`EngineInv` adds to the checked invariants that a worker holds an item exactly while it
executes, that an entry names a filled slot and, with fresh ids (`FreshInv`), that an entry
is the only one of its id and leads to an item nobody has started. The refinement needs the
last part: picking up an entry must be the board's `Begin` of a waiting job, never a stutter.

### Reactor (`ReactorProofs`)

`ReactorLoopIsSound` (the types, and events are finalised in the order of emission),
`BreakersTrip` (once the failures in a row reach the limit the breaker is open),
`AnswersAreFinal` (a waiter's future is resolved once, a step property) and
`OnlyActiveTriggersStart` (a trigger that starts is enabled, its breaker is closed and its
failures are below the limit; and it is in the list, unless one was unregistered during the
gate, a step property). `ReactorInv`: a gate is at the head of the tick it interrupts, the
batch exists only in a tick, an event that was not emitted has no future, and queue and
batch keep the order of emission.

### Pipeline (`BuilderPipelineProofs`)

| Theorem | Under | Says |
|---|---|---|
| `RunsHaltOnFailure` | - | after a failed stage no later stage was touched, and a completed run left no stage undone |
| `EnrichmentIsKept` | `Exclusive` | no run overwrites the property tests another one added to a saved spec |
| `StagesAreAlwaysSound` | `~ReuseIds`, `IssuesAreApart`, `SpecIsEmitted` | stages run in order and do not overlap, and what is verified is a spec that was made |
| `CompletedOnWork` | `~ReuseIds`, `~ClientCancels`, `IssuesAreApart` | a completed stage has a completed work item behind it |
| `StageIdsAreFresh` | `~ReuseIds`, `IssuesAreApart` | the id under which a run dispatches a stage was never dispatched before |

The hypotheses are those the code needs. `~ReuseIds` and `IssuesAreApart` exclude two runs
of one issue at a time, which the in-progress label is for; `~ClientCancels` excludes a client
that cancels a stage's work, after which the stage does complete without output (section 6);
`SpecIsEmitted` holds when the decompose agent is loaded. `pipeline_again` explores runs whose
ids are taken again and whose work clients cancel; of two runs of one issue at a time only
`RunsHaltOnFailure`, which assumes nothing, says something. `HaltInv` relates the loop index to
the record, `SpecInv` the local spec to the store, `WorkInv` the stage to the engine's item:
it uses `EngineInv`, because work that is finished stays so only when no id is used twice.

### Services (`ServicesProofs`, `RequestProofs`)

| Theorem | Property of the run | What makes it inductive |
|---|---|---|
| `TasksSpecKeepsTasks` | `TasksAreKept` | a task is claimed by one worker and is in the queue or claimed |
| `NoAssignmentIsAGhost` | `NoGhostAssignments` | what a scan or assignment has read and not yet written |
| `StagesAreAlwaysEarned` | `StagesAreEarned` | `CountsAreOfTheStage`: a canary's counters are those of its present stage |
| `ProductionIsAlwaysMeant` | `ProductionIsMeant` | versions are numbered, a label is unique and not older than the version it was moved to |
| `RecordsAlwaysAgree` | `RecordsAgree` | every live and every dumped record is sound, for any artifacts and versions |
| `TierIsAlwaysJustified` | `TierIsJustified` | rows, live agents and the audit trail agree between the statements of a review; an entry that a restart or an error cut is the one exception |
| `ConsentIsAlwaysOwn` | `ConsentIsOwn` | a pending question was asked of its session; the selected model is routable; trimming keeps to the limit |
| `TurnsAreAlwaysSettled` | `TurnsAreSettled` | calls and results add up round by round; what is booked is what the turn got to |
| `SpendingIsAlwaysControlled` | `SpendingIsControlled` | of a wallet whose debits are filed under its own cycle, all but a monthly copper wallet: who may still take from it; there is room for each that has checked it, or for one of them and then for the others; the silver given counts the exchanges; ledger and budgets are sums over users |
| `HistoryIsAlwaysFaithful` | `HistoryIsFaithful` | memory and Redis: messages are numbered as stored, what is gone is too old or has `MaxMessages` after it, a key outlives its messages; PostgreSQL: a number is taken once, an append in flight is the only one of its turn, a returned turn has its answer next to its question |
| `WindowsAreAlwaysKept` | part of `LimitsHold` | what is kept is the tail of what was let through, and what was dropped is out of the window; admissions that are a limit apart in the row are a window apart in time; Redis counts what was let through and what is in flight |
| `StrikesAreAlwaysConsistent` | part of `LimitsHold` | late strikes are of inputs that were being scanned when the lock fell |
| `MarketIsAlwaysHonest` | part of `LimitsHold` | a cached list was current when it was asked for or later; what was hidden stays delisted |
| `LimitsAlwaysHold` | `LimitsHold` | the three above, in `ServicesSpec`, the system of all parts |
| `RevocationAlwaysTakesHold` | `RevocationTakesHold` | a refusal is final, the roles of a cookie were read from a row, cookies expire |
| `RegistrationAlwaysStands` | `RegistrationStands` | a step property: the insertion ignores a conflict |

### Project Turing (`TuringProofs`, `SelfProofs`)

| Theorem | Property of the run | What makes it inductive |
|---|---|---|
| `BacklogIsAlwaysSound` | `BacklogIsSound` | while something of a sweep is left its dispatch is at the head of the tick, so the scheduler does not deliver in between; what a sweep has in hand was noticed; a deadline is never both buffered and queued |
| `LineageIsAlwaysSound` | `LineageIsSound` | what a writer has still to mark stands, is in the lineage of the newest memory and is marked by nobody else; a lesson that is not torn has marked its claims or is about to; only commitments end commitments |
| `WisdomIsAtPeace` | `NoContradictingWisdom` | candidates are pairs of intent and polarity, whatever order the patterns come in |
| `KnowledgeIsAlwaysSound` | `KnowledgeIsSound` | in `TuringSpec`, the runtime of all parts. Feed: a thought in progress owes its opinion or its commitment. Notes: once every add has counted, some add is about to take what is too many; while adds do not cross, what one has chosen to evict is what is too many. Views: what a table read has returned is covered or still to do, and nothing told or noted is newer than what was seen. Prompt: what was found is no superseded row, only wisdom is superseded and only between prompts, what fits a budget is an end of the list |
| `SelfIsAlwaysSound` | `SelfIsSound` | in `TuringSpec`; the six theorems below together |

The parts of `SelfIsAlwaysSound`, each a theorem about its own specification:

| Theorem | What makes it inductive |
|---|---|
| `BootstrapIsAlwaysSound` | a process is at an item only after every item before it was answered; while nobody resumed, one process at most works after its checkpoint, the facets come before the answers and the answers in their order |
| `ConduitIsAlwaysOrderly` | the lock is of the request that is perceived; a request has its observation exactly when it was dispatched, and an opinion only beside it |
| `OwnAccordIsAlwaysSound` | where a job is tells what it has done; one job is in hand; a content that was reflected on had no snapshot before; a producer remembers its last job of this life |
| `DeskIsAlwaysSound` | a block that was looked at is under way or has one outcome, never both; a message is credited once; a rating that was let through saw none of its message |
| `NodesAreAlwaysSound` | while calls never overlapped at most one runs; a rerank has put in place those it came by; the tables are as far as the phase of the call says |
| `SkillsAreAlwaysSound` | only a skill is practised; a level that is still to be set is made of one that is off by the cuts alone, since adding the same gain to two levels never takes them further apart; what is untold is in hand or was cut |

What a skill's attempts make of its level is a fold over a sequence of any length, and what
was practised a sum over its skills. Both are defined recursively in the community modules.
`SetLemmas` and the first lemmas of `SelfProofs` unfold them without an induction theorem: the
recursive function exists on the sets of up to n elements for every n, because a least n for
which it does not would have one below it for which it does.

### Errands (`ErrandsProofs`)

| Theorem | Says |
|---|---|
| `CatalogsAreAlwaysSound` | `CatalogsAreSound`, in `ErrandsSpec`, the runtime of all parts |
| `ErrandsAreAlwaysSound` | `ErrandsAreSound`, in `ErrandsSpec` |

Their parts, the first seven of the catalogs, the others of the errands, each a theorem about
its own specification:

| Theorem | Property of the part | What makes it inductive |
|---|---|---|
| `ShelfIsAlwaysSound` | `ShelfIsSound` (files; a flagged text may be registered) | what a directory holds was scanned; until an administrator handles it, a shelf has the last version of its history |
| `CatalogAlwaysFollows` | `CatalogFollows` (a watcher at rest; a file that was removed stays served) | what the watcher has read is what the file holds, or the file is newer than the time it saw first; and that time is newer than the one noted |
| `ClusterIsAlwaysTracked` | `ClusterIsTracked` | while calls never crossed, nobody is at work and all is as the registry says, or one operator is and has done what its step says; a call of Kubernetes fails before its effect or after it, and only the status of a server whose scaling lost its answer may be wrong |
| `TokensAreAlwaysOneLine` | `OneLineOfTokens` | every pair is of a code that its client has used, and all but a code's last pair have their refresh token revoked |
| `LearningsAlwaysStayHome` | `LearningsStayHome` | a row is of its author's organisation, and its counts are no more than that organisation's outcomes; a turn holds only rows of its own |
| `ReviewsAlwaysTeach` | `ReviewsTeach` | the counts of an author are what its reviews have found, category by category and review by review; every finding dealt with has its row |
| `StartsAreAlwaysSound` | `StartsAreSound` | what lies before the file a start is at is recorded; what a process holds open is what its stage opened less what its end has closed |
| `CallsAreAlwaysAudited` | `CallsAreAudited` | an active peer's agents were allowed to it once; a call has posted, reached the agent and left an entry as far as its step says |
| `DelegatesAreAlwaysListed` | `DelegatesAreListed` | a task at work keeps the list its sender had when it was handed over |
| `QueueAlwaysServesOnce` | `QueueServesOnce` | what waits in a tier stands by its numbers, behind all that was taken of the tier, and is of that tier |
| `PoolAlwaysKeepsWord` | `PoolKeepsWord` | a call that still tries has not used up its tries; a call is always of one task |
| `SchedulesAreAlwaysHeld` | `SchedulesAreHeld` | a schedule that is there has a valid rule and was changed by its organisation; a number not given has no past |
| `StandingsAlwaysAddUp` | `StandingsAddUp` | a battle moves its first side, then its second by the opposite, also when both are one; a rating counts each fight at most twice |
| `ToolsAreAlwaysGuarded` | `ToolsAreGuarded` | how far a call is says what entries it has left; one is missing only if writing it failed |
| `CommitsAreAlwaysKept` | `CommitsAreKept` | a worktree is of a repository's clone and on a branch made for its issue, whatever branch a caller named; what was pushed is on the branch; a branch that is not there has no commits |
| `CopiesAreAlwaysTold` | `CopiesAreTold` | a copy taken is remembered for a nonce's life or that life is over; a nonce that lives came with a copy |
| `ReportsAlwaysAddUp` | `ReportsAddUp` | the store keeps the end of the history; the tracker has, cycle by cycle, the sum of the uses |
| `StrategiesAreAlwaysSound` | `CodeRunsAreHonest` | the answers are as many as the calls dealt with, in their order; what is flagged is under its banner; as many gates have spoken as the work's stage says |

That a report adds up is a fact about sums: grouped by any function of its elements, a finite
set's groups sum up to its sum, for whatever order the library's folds take. That a level is
the highest one reached needs `Log2` and `TwoTo` on all numbers. A recursive function is a
CHOOSE, and unfolds only once such a function is known to exist: `RecursionExists` builds it
from the initial segments, two of which agree where both are defined, for any recursion that
descends in the naturals; `Log2Bounds` then is a descent from a least counterexample.

### Assumptions

Each is what the code guarantees or its settings demand, and TLC evaluates it in the runs.

| Assumption | Says |
|---|---|
| `EngineAssumption` | finitely many workers; ids and tiers are numbers |
| `ReactorAssumption` | the initial list names each trigger once; the failure limit is positive |
| `PipelineAssumption`, `BuildersAssumption` | a run has one issue; runs begin at a stage that is not an end; versions have a greatest |
| `CanaryAssumption`, `AccountsAssumption` | a stage needs requests before it is left; a session lasts |
| `ConduitAssumption`, `TurnAssumption`, `StrikesAssumption` | finitely many requests, providers and inputs; some provider is configured and all are ranked by quality |
| `CoinAssumption` | finitely many users, models and sizes, prices and limits that are naturals; an exchange is of whole coppers, as `convert_coins` makes it |
| `RateAssumption` | limits and windows are naturals, the burst window is the shorter, and a key is not evicted before its window is over |
| `MarketAssumption`, `SessionAssumption` | lists are numbered, pages and lives positive, a session keeps at least one message |
| `TickAssumption`, `DreamerAssumption`, `NotesAssumption`, `ViewsAssumption` | finitely many pools and intents, the last pool's name and a cadence; bounds are naturals |
| `PromptAssumption` | costs are naturals; a prompt lists no more wisdom than its sections skip (3 and 5 in the code) |
| `BootstrapAssumption`, `UrgesAssumption` | sizes and distances are naturals |
| `PerceptionAssumption`, `DeskAssumption` | no request is called "free" and no chat "nobody"; a reply has blocks of the kinds the server knows |
| `NodesAssumption`, `SkillsAssumption` | finitely many passions, concepts and skills; a retest asks at least one question; a new skill's level is one of the levels |
| `ShelfAssumption`, `McpAssumption`, `TokensAssumption` | no organisation is called "global" and no client "none"; a repaired text is not a hopeless one, as the repair scans its own result; bounds are naturals |
| `LearningAssumption`, `ReviewAssumption` | the cap is positive; no organisation is called "none"; finitely many categories |
| `LifespanAssumption` | there are migrations, and they are numbered |
| `QueueAssumption`, `PoolAssumption`, `ScheduleAssumption`, `StrategiesAssumption` | limits and bounds are naturals; a pooled run has a try at least |
| `HooksAssumption` | the age is a natural, and a sender's clock is ahead by no more than time is followed |
| `WorktreesAssumption`, `TournamentAssumption` | no repository is called "none", no agent "none" or "draw"; finitely many agents; the K factor is a natural, and a record is kept |
| `ReportsAssumption` | tokens are naturals, free ones too; the store in memory keeps a record at least, as it would fail on the first one otherwise |

Numbers of dispatches, events, turns, clock ticks and crashes stay arbitrary.

### What stays with TLC

Liveness (`WorkIsFinished` and the like) and ENABLED are beyond the provers. Every safety
invariant of the runs is proved. Where a run's invariant is a sum of parts, the parts are
proved one by one and then together, in the specification the run checks.

## 5. Not modelled

`PROJECT.json` gives the reason for each component. In short: classification, prompt
building, model scoring, the warden's patterns and the Auditor's checks are functions over
text without protocol state; episodic memory, sandbox, GitHub tool and shell are one call
around a row or a process; the dashboard, configuration, tracing and most routes are I/O;
further modules of the self are data classes, stubs without a caller or functions over one
row. Of the parts that are modelled, texts, scores and formats are left out unless a
property tells them apart. Parts of `PROJECT.json` marked `partly` name what they lack:
among others changes of the cluster by others than the registry's operators, and the skill
tools of `self_nodes.py`, which no present caller reaches.

Some hazards have no property because nothing in the repository promises otherwise: `_items` of
the engine grows for ever (`engine.py:93`), a TIME trigger misses its minute when a tick
takes longer (`events.py:213`), runtime versions are sorted as strings
(`builders/orchestrator.py:94`).

## 6. Findings

Three runs show a sentence of the repository that the code does not keep:

| Run | What the repository says | What the code does |
|---|---|---|
| `reactor_survives` | `start()` blocks until `stop()` is called (`events.py:106`) | a gate that answers after its waiter's timeout raises twice and ends the loop |
| `pipeline_cancelled` | the pipeline halts when a stage fails (`pipeline.py:4`) | cancelled work completes its stage with an empty output |
| `coins_monthly` | an exchange debits the full copper from the wallet (`admin.py:1172`) | the debit is filed under the day, which a monthly wallet, the default of the wallet route, never reads: silver is credited and the copper stays |

More such sentences are stated as definitions of their module, in its last section or
beside the property they contrast with. TLC refutes each of them when it is checked with
the module's instance; no run of the project checks them.

| Module | Definition: where it is said |
|---|---|
| `OrchestratorEngine` | `DocumentedTransitions` when ids are reused: `engine.py:7` |
| `Conduit` | `SharingNeedsConsent`: `tests/routing/test_data_sharing.py:9`; `StickyMapBounded`: `conduit.py:150` |
| `AgentTurn` | `RejectedCallsAreNotRun`: `react.py:124` |
| `CoinLedger` | `SilverPersists`: `admin.py:1095` (two cycles needed) |
| `RequestGuards` | `RemovalNeverLocks`: `strikes.py:249` |
| `WorkQueues` | `OneScanPerIssue`: `triggers.py:202` |
| `Rollouts` | `FailingIsRolledBack`: `canary.py:61`; `FirstIsProduction`: `pg_prompts.py:93` |
| `BuildersRun` | `ReplayAddsNothing`: `tests/builders/resilience/test_stage_replay_idempotency.py:38` |
| `AgentFleet` | `RestartKeepsTheFleet`: `agents/factory.py:8`, `store.py:159`; `PromotionNeedsReview`: `admin.py:564` |
| `Marketplace` | `ItemsFailAlone`: `api/routes/marketplace.py:34` (items without a URL share a count); `SafeIsWhole`: `:212` |
| `SkillCatalog` | `BuiltinsStay`, `HistoryIsWhole`: `skills/registry.py:41`, `:4`; `ImportsAreRechecked`: `marketplace.py:411`; `VettedAreNotMutated`: `skills/forge.py:170`; `MutationReplacesWhatItRead`; `LoadsFollow`, `NothingPartialIsServed`, `NeverMissing`: `docs/adr/ADR-K8S-022-skill-catalog.md:116`, `:201`, `:111` |
| `McpAccess` | `AllAreTracked`: `mcp/registry.py:1`; `StatusIsTrue`: `mcp/deployer.py:215` (calls that cross, or a scaling that took effect without an answer) |
| `Learnings` | `NoTwins`, `OthersDoNotForget`: `memory/learnings/store.py:38`, `:26`; `CandidatesAreAsked`: `promoter.py:48`; `EachFindingTeaches`, `AuthorsAreTaught`: `feedback/extractor.py:4`, `:5`; `StoredAreCounted`, `MasonLearns`, `EveryCategoryTeaches`: `feedback/loop.py:43`, `:5`; `ThreeShowATrend`: `feedback/tracker.py:4` |
| `Delegation` | `OutboundIsAudited`: `a2a/guest_peers.py:5` (a cancelled call); `StatesGoForward`, `EndedTasksLeave`: `a2a/lifecycle.py:3`, `:4` |
| `TaskSources` | `IntervalIsKept`: `scheduling/store.py:5`; `ProcessedOnce`: `api/routes/webhooks.py:6` |
| `Standings` | `ZeroDaysIsAllTime`: `api/routes/profile.py:193`; `SnapshotCounts`: `triggers.py:62`; `FailuresAreTold`: `memory/outcomes.py:3`; `SectionsAgree` (two reports, no document) |
| `Tooling` | `RunArgumentsAreRight`: `security/sentinel/validator.py:4`; `PushedWhereAsked`: `tools/workspace.py:3`; `ExistingIsWorktree`, `CanBeTakenUpAgain`: `:10`; `CommitsAreGreen`, `RetriesAreBounded`: `artificer/strategy.py:42`, `:41`; `RunsAreDiagnosed`, `ErrorsCount`, `FrankIsHeard`: `builders_learning.py:25`, `:266`, `:146` |
| `Lifespan` | `RecordedIsExecuted`: `persistence/__init__.py:69`; `ShutdownCloses`: `api/app.py:67`; `HandlersHaveTheirPool`: `orchestrator/engine.py:110`; `StartsCanSucceed` (no document) |
| `TuringTick` | `QueuedCandidateExists`: `daydream.py:151`; `PointsForSeenReplies`: `runtime/main.py:1467` |
| `MemoryWriters` | `RegretsAreAtomic`: `repo.py:35`; `ResolvedPairsSubmitted`; `MarkersTellCommits`: `dreaming.py:11`; `SkipsOnlyWhenLittleIsNew`: `specs/dreaming.md:23` |
| `SelfBootstrap` | `AnsweredAtMostOnce`, `FinishedHasFacets`: `specs/self-bootstrap.md:52`, `:45` |
| `SelfGrowth` | `CompletedStays`: `specs/self-todos.md:52`; `RerankIsAtomic`: `specs/self-nodes.md:38`; `ReadyStaysReady`: `specs/self-write-preconditions.md:26`; `BuildingIsTold`: `specs/concepts-skills-goals.md:88` |
| `OwnAccord` | `NeverReprocessed`: `runtime/main.py:166`; `SnapshotsAreRemembered`: `producers/self_reflection_producer.py:6`; `HobbiesAreWhole`, `EveryProfileStarts`: `specs/autonomous-producers.md:112` |
| `MemoryViews` | `EvictsOnlyOverflow`: `specs/working-memory.md:30`; `EveryEventIsTold`: `specs/journal.md:14` |
| `TuringChat` | `WritesSurviveShutdown`: `runtime/main.py:1494`; `RatedOnce`, `PromptIsWhole`: `runtime/chat.py:299`, `:506`; `TopicsStay`: `runtime/conversation_summary.py:3`; `FoundIsShown`, `TellsOnce`: `main.py:727`, `:740`; `PrunedIsForgotten`; `QuotaIsHonored`: `specs/retrieval.md:22` |
| `SelfConduit` | `RequestsSerialize`, `BlockedAreRemembered`: `specs/conduit-runtime.md:54`, `:30`; `MemoriesAreTagged`: `specs/forensic-tagging.md:28` |

Seen while translating, and part of the modelled behaviour, without a definition of its own:

* Engine, reactor, pipeline: of two events in one batch that match the same gate the second
  is told `no_matching_trigger`; a stage that times out cancels its work item, which changes
  nothing for an item in execution; without a decompose agent there is no spec and nothing is
  verified; a failed or blocked Builders result that arrives after `completed` moves the run on.
* Requests: an ambiguous request bypasses quota and coins; `record_usage` is never called; the
  middleware's rate limiter is not the container's; `get_usage_pct` in memory creates the entry
  it asks for.
* Work: pipelines the scanner starts have no record in Mason's queue; a failing label post
  starves later issues; the in-progress label is never removed; the status of an unknown A2A
  task is `QUEUED`.
* Fleet and prompts: a stale AI review can demote; updating a soul resets no review; an
  import has no row and vanishes on restart, as do souls created through the API; two creations
  of one name mix provenance and tier; between clearing a label and inserting the version a
  reader gets the latest; the prompt routes use attributes the PostgreSQL manager lacks.
* Skills and learning: nothing calls `start_canary` and `record_result`; the skill registry is not on
  the container; PUT and DELETE of skills are stubs; agents get a promoter that is not the
  one of the admin routes; nothing emits `pr.reviewed`; searches show demo items for an
  empty answer (`connectors.py:586`), an empty plugin list is never cached and an older one is
  not used when fetching fails.
* Webhooks: a nonce is recorded before the request is checked further, so the retry of a refused
  request is answered 409.
* Lifespan: a failing start closes nothing; `create_app` adds its middleware twice; two replicas
  that start together race on the migrations; the seed said to run "on every boot" runs once.
* Turing: `delete_expired_*` and `compact_*` of `SelfRepo` use a lock that does not exist; a
  partly loaded bank blocks bootstrap for ever; a ready self stops being ready after a second
  answer; "goal" blocks of a chat are refused but shown as done; feedback accepts any message id;
  advisory locks that several specs ask for do not exist; `retrieve()` has no caller.

## 7. Plan

Every component above that has protocol state is modelled, and every safety invariant of
the runs is proved. What stays with TLC is liveness, the violations of section 6, and the
bounded numbers of what happens at once in a run.
