------------------------- MODULE OrchestratorEngine -------------------------
(***************************************************************************)
(* The agent execution engine of src/stronghold/orchestrator/engine.py: a  *)
(* priority queue of work items drained by a fixed pool of asyncio         *)
(* workers.                                                                *)
(*                                                                         *)
(* The engine runs on one event loop, so an action below is the code       *)
(* between two awaits.  The only awaits of a worker are the queue read and *)
(* agent.handle(), hence a worker is described by whether it is reading    *)
(* the queue or executing an item.                                         *)
(*                                                                         *)
(* A work id names a slot of _items; every dispatch puts a NEW WorkItem    *)
(* object in the slot.  Queue entries carry the id only, workers keep the  *)
(* object they took, so the two can disagree once an id is reused.  An     *)
(* object is written <<id, gen>>, gen counting the dispatches of id.       *)
(***************************************************************************)
EXTENDS Naturals, FiniteSets

CONSTANTS
    WorkIds,      \* work ids, as naturals that compare the way the strings do
    Workers,      \* the max_concurrent worker tasks
    Tiers,        \* values of _TIER_PRIORITY; a lower number runs first
    MaxGen,       \* bound: dispatches of one id
    ReuseIds,     \* do clients dispatch an id again ("gh-42") or always a fresh one
    None          \* "no object": the value of hold for a worker that has no item

ASSUME EngineAssumption ==
    /\ WorkIds \subseteq Nat
    /\ IsFiniteSet(Workers)
    /\ Tiers \subseteq Nat
    /\ MaxGen \in Nat \ {0}
    /\ ReuseIds \in BOOLEAN
    /\ None \notin WorkIds \X (1..MaxGen)

Gens == 1..MaxGen
Objs == WorkIds \X Gens
Entries == [tier : Tiers, id : WorkIds, gen : Gens]
Status == {"none", "queued", "running", "completed", "failed", "cancelled"}
Terminal == {"completed", "failed", "cancelled"}

VARIABLES
    cur,        \* _items: generation of the object in each slot, 0 when absent
    status,     \* WorkItem.status of every object ever made ("none": not made)
    queue,      \* _queue; gen tells entries apart and is never read by a worker
    running,    \* _running: ids shown as running by status()
    wpc,        \* where each worker task is
    hold,       \* the WorkItem a worker is executing
    shutdown,   \* _shutdown
    events      \* completion events emitted to the reactor, per object

engineVars == <<cur, status, queue, running, wpc, hold, shutdown, events>>

EngineTypeOK ==
    /\ cur \in [WorkIds -> 0..MaxGen]
    /\ status \in [Objs -> Status]
    /\ queue \subseteq Entries
    /\ running \subseteq WorkIds
    /\ wpc \in [Workers -> {"off", "reading", "executing", "gone"}]
    /\ hold \in [Workers -> Objs \cup {None}]
    /\ shutdown \in BOOLEAN
    /\ events \in [Objs -> Nat]

EngineInit ==
    /\ cur = [i \in WorkIds |-> 0]
    /\ status = [o \in Objs |-> "none"]
    /\ queue = {}
    /\ running = {}
    /\ wpc = [w \in Workers |-> "off"]
    /\ hold = [w \in Workers |-> None]
    /\ shutdown = FALSE
    /\ events = [o \in Objs |-> 0]

\* The object an id resolves to now.
Current(i) == <<i, cur[i]>>

\* Faulty variants (names in X_...) stand beside the operation they change:
\* the properties below have to tell them from the real one.

\* cancel() without the test for a queued item.
X_CancelAny(i) ==
    /\ cur[i] # 0
    /\ status' = [status EXCEPT ![Current(i)] = "cancelled"]
    /\ UNCHANGED <<cur, queue, running, wpc, hold, shutdown, events>>

-----------------------------------------------------------------------------
(* Operations of the API                                                   *)

\* start(): one task per worker.
Start ==
    /\ ~shutdown
    /\ \A w \in Workers : wpc[w] = "off"
    /\ wpc' = [w \in Workers |-> "reading"]
    /\ UNCHANGED <<cur, status, queue, running, hold, shutdown, events>>

\* dispatch(): overwrite the slot with a new object and queue its id.
Dispatch(i, t) ==
    /\ cur[i] < MaxGen
    /\ ReuseIds \/ cur[i] = 0
    /\ cur' = [cur EXCEPT ![i] = @ + 1]
    /\ status' = [status EXCEPT ![<<i, cur[i] + 1>>] = "queued"]
    /\ queue' = queue \cup {[tier |-> t, id |-> i, gen |-> cur[i] + 1]}
    /\ UNCHANGED <<running, wpc, hold, shutdown, events>>

\* cancel(): only a queued item; its queue entry stays behind.
Cancel(i) ==
    /\ cur[i] # 0
    /\ status[Current(i)] = "queued"
    /\ status' = [status EXCEPT ![Current(i)] = "cancelled"]
    /\ UNCHANGED <<cur, queue, running, wpc, hold, shutdown, events>>

\* stop(): set the flag and cancel every worker task.
Stop ==
    /\ ~shutdown
    /\ shutdown' = TRUE
    /\ UNCHANGED <<cur, status, queue, running, wpc, hold, events>>

-----------------------------------------------------------------------------
(* The worker loop                                                         *)

\* A queue of plain ids.
X_BeforeById(d, e) == d.id <= e.id

\* The order of the queued tuples (priority, work_id).
Before(d, e) == \/ d.tier < e.tier
                \/ d.tier = e.tier /\ d.id <= e.id

IsFirst(e) == e \in queue /\ \A d \in queue : Before(e, d)

\* The worker throws entries away without looking at the item.
X_SkipAny(w) ==
    /\ ~shutdown
    /\ wpc[w] = "reading"
    /\ \E e \in queue : IsFirst(e) /\ queue' = queue \ {e}
    /\ UNCHANGED <<cur, status, running, wpc, hold, shutdown, events>>

\* The entry of a cancelled item is thrown away and the worker reads on.
SkipCancelled(w) ==
    /\ ~shutdown
    /\ wpc[w] = "reading"
    /\ \E e \in queue :
        /\ IsFirst(e)
        /\ status[Current(e.id)] = "cancelled"
        /\ queue' = queue \ {e}
    /\ UNCHANGED <<cur, status, running, wpc, hold, shutdown, events>>

\* The worker looks at the queue without removing the entry.
X_PickUpPeek(w) ==
    /\ ~shutdown
    /\ wpc[w] = "reading"
    /\ \E e \in queue :
        /\ IsFirst(e)
        /\ status[Current(e.id)] # "cancelled"
        /\ running' = running \cup {e.id}
        /\ status' = [status EXCEPT ![Current(e.id)] = "running"]
        /\ hold' = [hold EXCEPT ![w] = Current(e.id)]
    /\ wpc' = [wpc EXCEPT ![w] = "executing"]
    /\ UNCHANGED <<cur, queue, shutdown, events>>

\* Any other entry is executed, whatever the status of the object its id
\* resolves to.
PickUp(w) ==
    /\ ~shutdown
    /\ wpc[w] = "reading"
    /\ \E e \in queue :
        /\ IsFirst(e)
        /\ status[Current(e.id)] # "cancelled"
        /\ queue' = queue \ {e}
        /\ running' = running \cup {e.id}
        /\ status' = [status EXCEPT ![Current(e.id)] = "running"]
        /\ hold' = [hold EXCEPT ![w] = Current(e.id)]
    /\ wpc' = [wpc EXCEPT ![w] = "executing"]
    /\ UNCHANGED <<cur, shutdown, events>>

\* The name of the outcome is the docstring's "done".
X_FinishDone(w, outcome) ==
    /\ ~shutdown
    /\ wpc[w] = "executing"
    /\ outcome \in {"completed", "failed"}
    /\ status' = [status EXCEPT ![hold[w]] = "done"]
    /\ events' = [events EXCEPT ![hold[w]] = @ + 1]
    /\ running' = running \ {hold[w][1]}
    /\ hold' = [hold EXCEPT ![w] = None]
    /\ wpc' = [wpc EXCEPT ![w] = "reading"]
    /\ UNCHANGED <<cur, queue, shutdown>>

\* The except branch forgets the status and the event.
X_FinishQuietFailure(w, outcome) ==
    /\ ~shutdown
    /\ wpc[w] = "executing"
    /\ outcome \in {"completed", "failed"}
    /\ IF outcome = "failed"
       THEN UNCHANGED <<status, events>>
       ELSE /\ status' = [status EXCEPT ![hold[w]] = outcome]
            /\ events' = [events EXCEPT ![hold[w]] = @ + 1]
    /\ running' = running \ {hold[w][1]}
    /\ hold' = [hold EXCEPT ![w] = None]
    /\ wpc' = [wpc EXCEPT ![w] = "reading"]
    /\ UNCHANGED <<cur, queue, shutdown>>

\* The except branch sets the status but emits no work_failed event.
X_FinishSilentFailure(w, outcome) ==
    /\ ~shutdown
    /\ wpc[w] = "executing"
    /\ outcome \in {"completed", "failed"}
    /\ status' = [status EXCEPT ![hold[w]] = outcome]
    /\ events' = [events EXCEPT ![hold[w]] = IF outcome = "failed" THEN @ ELSE @ + 1]
    /\ running' = running \ {hold[w][1]}
    /\ hold' = [hold EXCEPT ![w] = None]
    /\ wpc' = [wpc EXCEPT ![w] = "reading"]
    /\ UNCHANGED <<cur, queue, shutdown>>

\* No except clause: a failing agent ends the worker task.
X_FinishDies(w, outcome) ==
    /\ ~shutdown
    /\ wpc[w] = "executing"
    /\ outcome \in {"completed", "failed"}
    /\ status' = [status EXCEPT ![hold[w]] = outcome]
    /\ events' = [events EXCEPT ![hold[w]] = @ + 1]
    /\ running' = running \ {hold[w][1]}
    /\ hold' = [hold EXCEPT ![w] = None]
    /\ wpc' = [wpc EXCEPT ![w] = IF outcome = "failed" THEN "gone" ELSE "reading"]
    /\ UNCHANGED <<cur, queue, shutdown>>

\* agent.handle() returned or raised: record the outcome, emit the event and
\* leave _running.
Finish(w, outcome) ==
    /\ ~shutdown
    /\ wpc[w] = "executing"
    /\ outcome \in {"completed", "failed"}
    /\ status' = [status EXCEPT ![hold[w]] = outcome]
    /\ events' = [events EXCEPT ![hold[w]] = @ + 1]
    /\ running' = running \ {hold[w][1]}
    /\ hold' = [hold EXCEPT ![w] = None]
    /\ wpc' = [wpc EXCEPT ![w] = "reading"]
    /\ UNCHANGED <<cur, queue, shutdown>>

\* CancelledError is no Exception: only the finally clause runs, the item
\* keeps the status it had.
Cancelled(w) ==
    /\ shutdown
    /\ wpc[w] \in {"reading", "executing"}
    /\ running' = IF wpc[w] = "executing" THEN running \ {hold[w][1]} ELSE running
    /\ hold' = [hold EXCEPT ![w] = None]
    /\ wpc' = [wpc EXCEPT ![w] = "gone"]
    /\ UNCHANGED <<cur, status, queue, shutdown, events>>

-----------------------------------------------------------------------------
WorkerStep(w) ==
    \/ SkipCancelled(w)
    \/ PickUp(w)
    \/ \E outcome \in {"completed", "failed"} : Finish(w, outcome)
    \/ Cancelled(w)

EngineNext ==
    \/ Start
    \/ \E i \in WorkIds, t \in Tiers : Dispatch(i, t)
    \/ \E i \in WorkIds : Cancel(i)
    \/ Stop
    \/ \E w \in Workers : WorkerStep(w)

\* The event loop runs every ready task, start() follows start-up, and an
\* agent call returns or raises; clients promise nothing and stop() may
\* never come.
EngineFairness ==
    /\ WF_engineVars(Start)
    /\ \A w \in Workers : WF_engineVars(WorkerStep(w))

EngineSafety == EngineInit /\ [][EngineNext]_engineVars
EngineSpec == EngineSafety /\ EngineFairness

-----------------------------------------------------------------------------
(* Properties                                                              *)

\* A queued item is never lost: as long as its id resolves to it there is an
\* entry in the queue that leads a worker to it (dispatch, _worker, cancel).
NoLostWork ==
    \A i \in WorkIds :
        (cur[i] # 0 /\ status[Current(i)] = "queued") => \E e \in queue : e.id = i

\* An item is shown as running only while a worker really executes it; the
\* one exception is stop(), which abandons the items in execution.
RunningIsExecuted ==
    \A o \in Objs :
        status[o] = "running" => shutdown \/ \E w \in Workers : hold[w] = o

\* status() never counts an id as running that no worker executes: the
\* finally clause of _worker cleans up on every path, shutdown included.
RunningSetIsHeld ==
    \A i \in running : \E w \in Workers : hold[w] # None /\ hold[w][1] = i

\* With fresh ids an item is executed by at most one worker, however cancels,
\* picks and completions interleave.
ExecutedOnce ==
    ~ReuseIds => \A v, w \in Workers : v # w /\ hold[v] # None => hold[v] # hold[w]

\* With fresh ids the downstream reactors hear of every finished item exactly
\* once, and never of one that was cancelled, abandoned or not yet run.
OneEventPerOutcome ==
    ~ReuseIds =>
        \A o \in Objs : events[o] = IF status[o] \in {"completed", "failed"} THEN 1 ELSE 0

\* "Tracks state transitions (queued -> running -> done/failed)": no other
\* change of an item's status ever happens.
DocumentedTransitions ==
    [][\A o \in Objs : status'[o] # status[o] =>
         <<status[o], status'[o]>> \in
            { <<"none", "queued">>, <<"queued", "running">>, <<"queued", "cancelled">>,
              <<"running", "completed">>, <<"running", "failed">> }]_engineVars

\* Every dispatched item is executed to an outcome or cancelled, unless the
\* engine is stopped or the id is dispatched anew.
WorkIsFinished ==
    \A o \in Objs :
        status[o] = "queued" ~> status[o] \in Terminal \/ shutdown \/ cur[o[1]] # o[2]
=============================================================================
