----------------------------- MODULE BuildersRun -----------------------------
(***************************************************************************)
(* The run records of src/stronghold/builders/orchestrator.py: the core    *)
(* owns the stage of a run, the stateless runtime executes a request and   *)
(* returns a result, the core applies it.                                  *)
(*                                                                         *)
(* A stage may be executed again, and a result may be applied late, twice  *)
(* or never.  The core may restart from whatever it dumped last.           *)
(* Faulty variants (X_...) stand beside the operation they change.         *)
(***************************************************************************)
EXTENDS Naturals, Sequences, FiniteSets, Functions

CONSTANTS
    Runs,           \* run ids
    InitialStages,  \* initial_stage arguments of create_run()
    Versions,       \* runtime versions, numbered in the order of their names
    Artifacts,      \* artifact ids
    Listings,       \* the artifact lists a result may have: how often each artifact
    MaxEvents,      \* bound: events of one run
    MaxResults,     \* bound: results the runtime has returned
    NoRun           \* what _runs holds for an unknown id

StageGraph ==
    [ queued                 |-> {"issue_analyzed"},
      issue_analyzed         |-> {"acceptance_defined", "blocked"},
      acceptance_defined     |-> {"tests_written", "blocked"},
      tests_written          |-> {"implementation_started", "blocked"},
      implementation_started |-> {"implementation_ready", "blocked", "failed"},
      implementation_ready   |-> {"quality_checks_passed", "implementation_started",
                                  "acceptance_defined", "failed"},
      quality_checks_passed  |-> {"completed", "acceptance_defined", "failed"},
      blocked                |-> {},
      failed                 |-> {},
      completed              |-> {} ]

Stages == DOMAIN StageGraph
EndStages == {"blocked", "failed", "completed"}
RunStatus == {"queued", "running", "passed", "failed", "blocked"}
ResultStatus == {"passed", "failed", "blocked"}
EventKinds == {"run_created", "stage_advanced", "retry_scheduled",
               "runtime_passed", "runtime_failed", "runtime_blocked"}

Event == [kind : EventKinds, stage : Stages]
Run == [stage : Stages, status : RunStatus, version : Versions,
        artifacts : [Artifacts -> Nat], events : Seq(Event), retries : [Stages -> Nat]]
Result == [run : Runs, stage : Stages, status : ResultStatus, artifacts : Listings]

ASSUME BuildersAssumption ==
    /\ InitialStages \subseteq Stages \ EndStages
    /\ Versions \subseteq Nat
    /\ \E n \in Versions : \A v \in Versions : v <= n
    /\ MaxEvents \in Nat
    /\ MaxResults \in Nat
    /\ Listings \subseteq [Artifacts -> Nat]
    /\ NoRun \notin Run

VARIABLES
    runs,       \* _runs
    versions,   \* _runtime_versions
    results,    \* RunResults the runtime returned
    dump        \* the last payload of dump_runs()

buildersVars == <<runs, versions, results, dump>>

BuildersTypeOK ==
    /\ runs \in [Runs -> Run \cup {NoRun}]
    /\ versions \in [Versions -> {"absent", "ready", "draining", "retired"}]
    /\ results \subseteq Result
    /\ dump \in [Runs -> Run \cup {NoRun}]

\* "v1" is there from the start.
BuildersInit ==
    /\ runs = [r \in Runs |-> NoRun]
    /\ versions = [v \in Versions |-> IF v = 1 THEN "ready" ELSE "absent"]
    /\ results = {}
    /\ dump = [r \in Runs |-> NoRun]

Known(r) == runs[r] # NoRun
Room(r) == Len(runs[r].events) < MaxEvents

-----------------------------------------------------------------------------
(* Runtime versions                                                        *)

SetVersion(v, st) ==
    /\ versions' = [versions EXCEPT ![v] = st]
    /\ UNCHANGED <<runs, results, dump>>

Ready == { v \in Versions : versions[v] = "ready" }
SelectVersion == CHOOSE v \in Ready : \A u \in Ready : u <= v

-----------------------------------------------------------------------------
(* The core                                                                *)

\* create_run(), with a version of the caller's or the newest ready one; also
\* for an id that exists, whose record it replaces.
CreateRun(r, s, v) ==
    /\ runs' = [runs EXCEPT ![r] =
                 [stage |-> s, status |-> "queued", version |-> v,
                  artifacts |-> [a \in Artifacts |-> 0], events |-> <<[kind |-> "run_created", stage |-> s]>>,
                  retries |-> [u \in Stages |-> 0]]]
    /\ UNCHANGED <<versions, results, dump>>

StatusAt(s) ==
    CASE s = "completed" -> "passed"
      [] s = "failed" -> "failed"
      [] s = "blocked" -> "blocked"
      [] OTHER -> "running"

\* The record after advance_stage(), which raises unless the graph allows it.
X_AdvancedQuietly(run, s) == [run EXCEPT !.stage = s, !.status = StatusAt(s)]
Advanced(run, s) ==
    [run EXCEPT !.stage = s, !.status = StatusAt(s),
                !.events = Append(@, [kind |-> "stage_advanced", stage |-> s])]

AdvanceStage(r, s) ==
    /\ Known(r) /\ Room(r)
    /\ s \in StageGraph[runs[r].stage]
    /\ runs' = [runs EXCEPT ![r] = Advanced(@, s)]
    /\ UNCHANGED <<versions, results, dump>>

\* complete_run_if_ready(): gates are CI, quality and coverage together.
CompleteIfReady(r, gates) ==
    /\ Known(r) /\ Room(r)
    /\ runs[r].stage = "quality_checks_passed" /\ gates
    /\ runs' = [runs EXCEPT ![r] = Advanced(@, "completed")]
    /\ UNCHANGED <<versions, results, dump>>

\* The record after schedule_retry(), which asks nothing of the stage.
X_RetriedQuietly(run) ==
    [run EXCEPT !.retries[run.stage] = (@ + 1) % MaxEvents, !.status = "running"]
Retried(run) ==
    [run EXCEPT !.retries[run.stage] = @ + 1, !.status = "running",
                !.events = Append(@, [kind |-> "retry_scheduled", stage |-> run.stage])]

ScheduleRetry(r) ==
    /\ Known(r) /\ Room(r)
    /\ runs' = [runs EXCEPT ![r] = Retried(@)]
    /\ UNCHANGED <<versions, results, dump>>

\* The result's event; its stage is the one the result is for.
RuntimeKind == [passed |-> "runtime_passed", failed |-> "runtime_failed",
                blocked |-> "runtime_blocked"]
ResultEvent(res) == [kind |-> RuntimeKind[res.status], stage |-> res.stage]

\* What apply_result() records of res before it looks at the next stage: the
\* artifacts the run does not list yet, as often as the result lists them.
X_NewUnchecked(run, res) == [a \in Artifacts |-> run.artifacts[a] + res.artifacts[a]]
Listed(run, res) ==
    [a \in Artifacts |-> IF run.artifacts[a] = 0 THEN res.artifacts[a] ELSE run.artifacts[a]]
X_RecordedStatus(run, res) ==
    [run EXCEPT !.artifacts = Listed(run, res), !.events = Append(@, ResultEvent(res)),
                !.status = res.status,
                !.stage = IF res.status = "passed" THEN @ ELSE res.status]
X_RecordedStage(run, res) ==
    [run EXCEPT !.artifacts = Listed(run, res), !.events = Append(@, ResultEvent(res)),
                !.status = IF res.status = "passed" THEN "running" ELSE res.status,
                !.stage = res.status]
Recorded(run, res) ==
    [run EXCEPT !.artifacts = Listed(run, res),
                !.events = Append(@, ResultEvent(res)),
                !.status = IF res.status = "passed" THEN "running" ELSE res.status,
                !.stage = IF res.status = "passed" THEN @ ELSE res.status]

\* The event compared with the last one carries the time, so a replay is only
\* recognised when both were made in the same instant.
Replayed(run, res, sameInstant) ==
    sameInstant /\ run.events # <<>> /\ run.events[Len(run.events)] = ResultEvent(res)

\* apply_result() without a next stage.
ApplyResult(res, sameInstant) ==
    /\ Known(res.run) /\ Room(res.run)
    /\ ~Replayed(runs[res.run], res, sameInstant)
    /\ runs' = [runs EXCEPT ![res.run] = Recorded(@, res)]
    /\ UNCHANGED <<versions, results, dump>>

\* apply_result() with a next stage: when the graph forbids it the call raises
\* after everything else has been recorded.
ApplyAndAdvance(res, s, sameInstant) ==
    /\ Known(res.run) /\ Room(res.run)
    /\ Len(runs[res.run].events) + 1 < MaxEvents
    /\ ~Replayed(runs[res.run], res, sameInstant)
    /\ res.status = "passed"
    /\ LET run == Recorded(runs[res.run], res)
       IN  runs' = [runs EXCEPT ![res.run] =
                     IF s \in StageGraph[run.stage] THEN Advanced(run, s) ELSE run]
    /\ UNCHANGED <<versions, results, dump>>

-----------------------------------------------------------------------------
(* The runtime, the messages and the restart                               *)

\* build_request() for the stage the run is in, and BuildersRuntime.execute():
\* a handler's result, or FAILED without a handler.  The request names the
\* stage, so when the answer is given is told by when it is applied.
Execute(r, st, arts) ==
    /\ Known(r)
    /\ Cardinality(results) < MaxResults
    /\ results' = results \cup
         {[run |-> r, stage |-> runs[r].stage, status |-> st, artifacts |-> arts]}
    /\ UNCHANGED <<runs, versions, dump>>

DumpRuns ==
    /\ dump' = runs
    /\ UNCHANGED <<runs, versions, results>>

\* A new core object: load_runs() restores the runs, the versions are gone.
Restart ==
    /\ runs' = dump
    /\ versions' = [v \in Versions |-> IF v = 1 THEN "ready" ELSE "absent"]
    /\ UNCHANGED <<results, dump>>

-----------------------------------------------------------------------------
CoreStep ==
    \/ \E r \in Runs, s \in InitialStages, v \in Versions : CreateRun(r, s, v)
    \/ Ready # {} /\ \E r \in Runs, s \in InitialStages : CreateRun(r, s, SelectVersion)
    \/ \E r \in Runs, s \in Stages : AdvanceStage(r, s)
    \/ \E r \in Runs, gates \in BOOLEAN : CompleteIfReady(r, gates)
    \/ \E r \in Runs : ScheduleRetry(r)
    \/ \E res \in results, same \in BOOLEAN :
         ApplyResult(res, same) \/ \E s \in Stages : ApplyAndAdvance(res, s, same)
    \/ \E v \in Versions, st \in {"ready", "draining", "retired"} : SetVersion(v, st)

BuildersNext ==
    \/ CoreStep
    \/ \E r \in Runs, st \in ResultStatus, arts \in Listings : Execute(r, st, arts)
    \/ DumpRuns \/ Restart

BuildersSpec == BuildersInit /\ [][BuildersNext]_buildersVars

-----------------------------------------------------------------------------
(* Properties                                                              *)

\* The status of a run never contradicts its stage, whatever results come
\* late or twice and whenever the core restarts: a passed run is completed, a
\* failed or blocked one is at that stage, a queued one has not been touched.
StatusMatches(run) ==
    /\ run.status = "passed" => run.stage = "completed"
    /\ run.status \in {"failed", "blocked"} => run.stage = run.status
    /\ run.status = "queued" => run.stage \notin EndStages
StatusMatchesStage == \A r \in Runs : Known(r) => StatusMatches(runs[r])

\* The stage an event puts a run in; other events leave it where it is.
Puts(e) == CASE e.kind = "runtime_failed" -> "failed"
             [] e.kind = "runtime_blocked" -> "blocked"
             [] OTHER -> e.stage
Placing(e) == e.kind \in {"run_created", "stage_advanced", "runtime_failed", "runtime_blocked"}

\* The events of a run explain its stage: the last event that places it names
\* the stage it is in (apply_result, advance_stage, load_runs).
Explained(run) ==
    \E k \in DOMAIN run.events :
        /\ Placing(run.events[k])
        /\ \A l \in DOMAIN run.events : Placing(run.events[l]) => l <= k
        /\ Puts(run.events[k]) = run.stage
EventsExplainStage == \A r \in Runs : Known(r) => Explained(runs[r])

\* "Core retries are counted per stage": the counters agree with the events.
RetryEvent(s) == [kind |-> "retry_scheduled", stage |-> s]
Occurrences(q, e) == Cardinality({ k \in DOMAIN q : q[k] = e })
RetriesLogged(run) == \A s \in Stages : run.retries[s] = Occurrences(run.events, RetryEvent(s))
RetriesAreLogged == \A r \in Runs : Known(r) => RetriesLogged(runs[r])

\* However often and in whatever order results are delivered, a run lists an
\* artifact no oftener than one of its results does (apply_result).
ListedOnce(r, run) ==
    \A a \in Artifacts : run.artifacts[a] # 0 =>
        \E res \in results : res.run = r /\ res.artifacts[a] = run.artifacts[a]
RedeliveryAddsNoArtifact == \A r \in Runs : Known(r) => ListedOnce(r, runs[r])

\* The fields of a run record tell one story, and results are told once.
RecordsAgree ==
    /\ BuildersTypeOK /\ StatusMatchesStage /\ EventsExplainStage
    /\ RetriesAreLogged /\ RedeliveryAddsNoArtifact

\* Applying the result whose event is the last one of the run again adds no
\* event (test_replaying_same_runtime_result_does_not_corrupt_run_state).
LastEvent(run) == run.events[Len(run.events)]
ReplayAddsNothing ==
    [][\A r \in Runs : Known(r) /\ runs'[r] # NoRun =>
         ~ /\ Len(runs'[r].events) = Len(runs[r].events) + 1
           /\ LastEvent(runs'[r]).kind \in {"runtime_passed", "runtime_failed", "runtime_blocked"}
           /\ LastEvent(runs'[r]) = LastEvent(runs[r])]_buildersVars
=============================================================================
