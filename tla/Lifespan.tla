------------------------------ MODULE Lifespan ------------------------------
(***************************************************************************)
(* The life of a Stronghold process (lifespan() of api/app.py), from the   *)
(* pools and migrations that create_container() starts with to the closing *)
(* of what was opened.  Several processes share a database, which may have *)
(* been set up before them by the same files as init scripts.  A failure   *)
(* on the way up ends the process and closes nothing.                      *)
(***************************************************************************)
EXTENDS Integers, FiniteSets

CONSTANTS
    Processes,      \* replicas that share the database
    LastMigration,  \* the files are numbered in the order of their names
    OneShot,        \* migrations that fail when they are executed again
    InitScripts,    \* bound: how many of the files the database was set up with
    MaxStarts,      \* bound: starts of a process
    MaxFalls        \* bound: processes that die on the way

ASSUME LifespanAssumption == LastMigration \in Nat \ {0} /\ InitScripts \subseteq Int

VARIABLES
    executed,       \* migration -> how often its file was executed
    recorded,       \* rows of _migrations
    marked,         \* those recorded as pre-existing, whoever executed them
    life,           \* process -> where it is
    known,          \* process -> the rows it read
    file,           \* process -> the file it is at
    handles,        \* process -> what it holds open: "pool", "engine", "redis"
    sessionsIn,     \* process -> "postgres", "redis", or "" before the stores are wired
    working,        \* processes whose reactor and workers run
    spawned,        \* processes in which a handler runs that the reactor has spawned
    closing,        \* process -> handles the shutdown has dealt with
    left,           \* process -> what its last orderly shutdown left open
    starts, falls   \* bound counters

lifeVars == <<executed, recorded, marked, life, known, file, handles, sessionsIn, working,
              spawned, closing, left, starts, falls>>
dbVars == <<executed, recorded, marked>>

Migrations == 1 .. LastMigration
Stages == {"down", "opened", "looking", "marking", "applying", "executed", "migrated", "wired",
           "serving", "stopping"}

LifespanInit ==
    /\ \E n \in InitScripts : executed = [m \in Migrations |-> IF m <= n THEN 1 ELSE 0]
    /\ recorded = {} /\ marked = {}
    /\ life = [p \in Processes |-> "down"] /\ known = [p \in Processes |-> {}]
    /\ file = [p \in Processes |-> 0] /\ handles = [p \in Processes |-> {}]
    /\ sessionsIn = [p \in Processes |-> ""] /\ working = {} /\ spawned = {}
    /\ closing = [p \in Processes |-> {}] /\ left = [p \in Processes |-> {}]
    /\ starts = [p \in Processes |-> 0] /\ falls = 0

\* A process ends, and with it what it held.
End(p) ==
    /\ life' = [life EXCEPT ![p] = "down"] /\ known' = [known EXCEPT ![p] = {}]
    /\ file' = [file EXCEPT ![p] = 0] /\ handles' = [handles EXCEPT ![p] = {}]
    /\ sessionsIn' = [sessionsIn EXCEPT ![p] = ""]
    /\ working' = working \ {p} /\ spawned' = spawned \ {p}
    /\ closing' = [closing EXCEPT ![p] = {}]
    /\ UNCHANGED starts

\* A step of the start: the stage, the rows and the file of p change.
Go(p, stage, rows, n) ==
    /\ life' = [life EXCEPT ![p] = stage] /\ known' = [known EXCEPT ![p] = rows]
    /\ file' = [file EXCEPT ![p] = n]
    /\ UNCHANGED <<handles, sessionsIn, working, spawned, closing, left, starts, falls>>

Rises(p) == starts' = [starts EXCEPT ![p] = @ + 1] /\ starts[p] < MaxStarts

\* get_pool()
OpenPool(p) ==
    /\ life[p] = "down" /\ Rises(p)
    /\ life' = [life EXCEPT ![p] = "opened"] /\ handles' = [handles EXCEPT ![p] = {"pool"}]
    /\ left' = [left EXCEPT ![p] = {}]
    /\ UNCHANGED <<dbVars, known, file, sessionsIn, working, spawned, closing, falls>>

\* run_migrations(): the rows are read ...
ReadRecords(p) ==
    /\ life[p] = "opened"
    /\ Go(p, IF recorded = {} THEN "looking" ELSE "applying", recorded, 1)
    /\ UNCHANGED dbVars

\* ... and without any, whether the first file's table is there: then all files are old.
LookForTables(p) ==
    /\ life[p] = "looking"
    /\ Go(p, IF executed[1] > 0 THEN "marking" ELSE "applying", {}, 1)
    /\ UNCHANGED dbVars

\* A row is inserted, or is there already and the start fails.
InsertRow(p, stage, old) ==
    LET m == file[p] IN
    IF m \in recorded THEN End(p) /\ UNCHANGED <<dbVars, left, falls>>
    ELSE /\ recorded' = recorded \union {m}
         /\ marked' = IF old THEN marked \union {m} ELSE marked
         /\ Go(p, IF m = LastMigration THEN "migrated" ELSE stage, known[p], m + 1)
         /\ UNCHANGED executed

Mark(p) == life[p] = "marking" /\ InsertRow(p, "marking", TRUE)

SkipFile(p) ==
    /\ life[p] = "applying" /\ file[p] \in known[p]
    /\ Go(p, IF file[p] = LastMigration THEN "migrated" ELSE "applying", known[p], file[p] + 1)
    /\ UNCHANGED dbVars

\* The file of a migration is one transaction; its row is another.
X_Execute(p) ==
    /\ life[p] = "applying" /\ file[p] \notin known[p]
    /\ \E m \in Migrations \ known[p] :
        /\ m \notin OneShot \/ executed[m] = 0
        /\ executed' = [executed EXCEPT ![m] = @ + 1]
        /\ Go(p, "executed", known[p], m)
    /\ UNCHANGED <<recorded, marked>>
Execute(p) ==
    /\ life[p] = "applying" /\ file[p] \notin known[p]
    /\ IF file[p] \in OneShot /\ executed[file[p]] > 0
       THEN End(p) /\ UNCHANGED <<dbVars, left, falls>>
       ELSE /\ executed' = [executed EXCEPT ![file[p]] = @ + 1]
            /\ Go(p, "executed", known[p], file[p])
            /\ UNCHANGED <<recorded, marked>>
Record(p) == life[p] = "executed" /\ InsertRow(p, "applying", FALSE)

\* get_engine() connects to nothing; get_redis() keeps its client and asks it for an
\* answer: without one the container has no client, and the sessions stay in PostgreSQL.
WireStores(p, answers) ==
    /\ life[p] = "migrated" /\ life' = [life EXCEPT ![p] = "wired"]
    /\ handles' = [handles EXCEPT ![p] = {"pool", "engine", "redis"}]
    /\ sessionsIn' = [sessionsIn EXCEPT ![p] = IF answers THEN "redis" ELSE "postgres"]
    /\ UNCHANGED <<dbVars, known, file, working, spawned, closing, left, starts, falls>>

\* The rest of create_container(), and the reactor and the engine start.
StartWork(p) ==
    /\ life[p] = "wired" /\ life' = [life EXCEPT ![p] = "serving"]
    /\ working' = working \union {p}
    /\ UNCHANGED <<dbVars, known, file, handles, sessionsIn, spawned, closing, left, starts, falls>>

Fall(p) ==
    /\ life[p] # "down" /\ falls < MaxFalls /\ falls' = falls + 1
    /\ End(p) /\ UNCHANGED <<dbVars, left>>

\* A handler of an event, which nobody cancels or waits for at the end.
Spawn(p) ==
    /\ p \in working /\ spawned' = spawned \union {p}
    /\ UNCHANGED <<dbVars, life, known, file, handles, sessionsIn, working, closing, left, starts,
                   falls>>
HandlerEnds(p) ==
    /\ spawned' = spawned \ {p} /\ p \in spawned
    /\ UNCHANGED <<dbVars, life, known, file, handles, sessionsIn, working, closing, left, starts,
                   falls>>

\* The shutdown: workers are cancelled and the reactor is told, ...
X_StopWork(p) ==
    /\ life[p] = "serving" /\ life' = [life EXCEPT ![p] = "stopping"]
    /\ UNCHANGED <<dbVars, known, file, handles, sessionsIn, working, spawned, closing, left,
                   starts, falls>>
StopWork(p) ==
    /\ life[p] = "serving" /\ life' = [life EXCEPT ![p] = "stopping"]
    /\ working' = working \ {p}
    /\ UNCHANGED <<dbVars, known, file, handles, sessionsIn, spawned, closing, left, starts, falls>>

\* ... then one thing after another is closed, of those the container has.
Closable(p) == {"pool", "engine"} \union (IF sessionsIn[p] = "redis" THEN {"redis"} ELSE {})
NextToClose(p) ==
    CASE "pool" \in handles[p] -> "pool"
      [] "pool" \notin handles[p] /\ "engine" \in handles[p] -> "engine"
      [] OTHER -> "redis"
Close(p) ==
    /\ life[p] = "stopping" /\ Closable(p) \ closing[p] # {}
    /\ handles' = [handles EXCEPT ![p] = @ \ {NextToClose(p)}]
    /\ closing' = [closing EXCEPT ![p] = @ \union {NextToClose(p)}]
    /\ UNCHANGED <<dbVars, life, known, file, sessionsIn, working, spawned, left, starts, falls>>

\* A close that raises ends the shutdown; so does the last one.
Leave(p) == left' = [left EXCEPT ![p] = handles[p]] /\ End(p) /\ UNCHANGED <<dbVars, falls>>
CloseFails(p) == life[p] = "stopping" /\ Closable(p) \ closing[p] # {} /\ Leave(p)
Exit(p) == life[p] = "stopping" /\ Closable(p) \subseteq closing[p] /\ Leave(p)

LifespanNext ==
    \E p \in Processes :
        \/ OpenPool(p) \/ ReadRecords(p) \/ LookForTables(p) \/ Mark(p)
        \/ SkipFile(p) \/ Execute(p) \/ Record(p)
        \/ \E answers \in BOOLEAN : WireStores(p, answers)
        \/ StartWork(p) \/ Fall(p) \/ Spawn(p) \/ HandlerEnds(p)
        \/ StopWork(p) \/ Close(p) \/ CloseFails(p) \/ Exit(p)

LifespanSpec == LifespanInit /\ [][LifespanNext]_lifeVars

-----------------------------------------------------------------------------
\* However starts and falls interleave, a migration is executed only after all the
\* earlier ones were executed or taken for executed, and recorded only after itself.
MigrationsInOrder ==
    /\ \A m \in Migrations : executed[m] > 0 =>
           \A k \in 1 .. m - 1 : executed[k] > 0 \/ k \in marked
    /\ \A m \in recorded : executed[m] > 0 \/ m \in marked

\* Whoever serves has a database in which every migration is recorded, and works on pools
\* that are open; none is closed under its workers, and the pools go in their order.
ServesWhatIsOpen ==
    \A p \in Processes :
        /\ life[p] \in {"wired", "serving", "stopping"} => recorded = Migrations
        /\ p \in working => life[p] = "serving" /\ {"pool", "engine"} \subseteq handles[p]
                            /\ (sessionsIn[p] = "redis" => "redis" \in handles[p])
        /\ closing[p] \in {{}, {"pool"}, {"pool", "engine"}, {"pool", "engine", "redis"}}

StartsAreSound == MigrationsInOrder /\ ServesWhatIsOpen

-----------------------------------------------------------------------------
\* Stated, and not so.
\* persistence/__init__.py:69 "mark init scripts as applied": all files are marked, those
\* too that are newer than the init scripts, or that another process has yet to execute.
RecordedIsExecuted == \A m \in recorded : executed[m] > 0

\* api/app.py:67 "Close ...": a Redis that did not answer is not closed, nor is
\* anything behind a close that raises.
ShutdownCloses == \A p \in Processes : left[p] = {}

\* orchestrator/engine.py:110 "gracefully": the handlers of the reactor outlive their pool.
HandlersHaveTheirPool == \A p \in spawned : "pool" \in handles[p]

\* A start can succeed: but a migration executed and not recorded, when its process
\* fell between, is executed again, and one of the OneShot ones fails every start.
StartsCanSucceed ==
    \A m \in OneShot : executed[m] > 0 /\ recorded # {} /\ m \notin recorded =>
        \E p \in Processes : life[p] \in {"executed", "marking"}
=============================================================================
