----------------------------- MODULE WorkQueues -----------------------------
(***************************************************************************)
(* How work reaches those who do it: GitHub issues to the builders, and    *)
(* tasks of the API to the agent workers. The two share no state.          *)
(***************************************************************************)
EXTENDS Naturals, Sequences, FiniteSets, SequencesExt

(***************************************************************************)
(* Two ways in which a GitHub issue is given to the builders, and the      *)
(* limit they share: the queue of Mason (agents/mason_queue.py and         *)
(* api/routes/mason.py) and the backlog scanner (triggers.py).  A scan     *)
(* awaits GitHub and every pipeline it runs; the reactor starts the next   *)
(* one after five minutes whether or not the last has ended.               *)
(***************************************************************************)

CONSTANTS
    Issues,         \* issue numbers, in order of creation
    Scans,          \* scans at a time
    Assignments,    \* bound: requests to assign an issue to Mason
    PageSize,       \* issues a scan is shown
    MaxConcurrent   \* max_concurrent

VARIABLES
    open,       \* issues that are open on GitHub
    inProgress, \* issues labelled "in-progress" there (or "blocked", "wontfix", "duplicate")
    scan,       \* scan -> [at, todo]
    record,     \* issue -> status of its record in Mason's queue
    mason       \* assignment -> [at, issue]: the task _dispatch_mason()

issueVars == <<open, inProgress, scan, record, mason>>

IdleScan == [at |-> "idle", todo |-> <<>>]
NoTask == [at |-> "unused", issue |-> 0]

IssueInit ==
    /\ open = Issues
    /\ inProgress = {}
    /\ scan = [s \in Scans |-> IdleScan]
    /\ record = [i \in Issues |-> "none"]
    /\ mason = [a \in Assignments |-> NoTask]

-----------------------------------------------------------------------------
(* Mason's queue                                                            *)

\* assign() makes a new record whatever the old one says.
AssignIssue(a, i) ==
    /\ mason[a].at = "unused"
    /\ record' = [record EXCEPT ![i] = "queued"]
    /\ mason' = [mason EXCEPT ![a] = [at |-> "created", issue |-> i]]
    /\ UNCHANGED <<open, inProgress, scan>>

StartMason(a) ==
    /\ mason[a].at = "created"
    /\ record' = [record EXCEPT ![mason[a].issue] = "in_progress"]
    /\ mason' = [mason EXCEPT ![a].at = "workspace"]
    /\ UNCHANGED <<open, inProgress, scan>>

MakeWorkspace(a) ==
    /\ mason[a].at = "workspace"
    /\ mason' = [mason EXCEPT ![a].at = "building"]
    /\ UNCHANGED <<open, inProgress, scan, record>>

MasonCompletes(a) ==
    /\ mason[a].at = "building"
    /\ record' = [record EXCEPT ![mason[a].issue] = "completed"]
    /\ mason' = [mason EXCEPT ![a].at = "done"]
    /\ UNCHANGED <<open, inProgress, scan>>

\* No container, no workspace, or an exception.
X_MasonFails(a) ==
    /\ mason[a].at \in {"workspace", "building"}
    /\ record' = IF mason[a].at = "building"
                 THEN [record EXCEPT ![mason[a].issue] = "failed"] ELSE record
    /\ mason' = [mason EXCEPT ![a].at = "done"]
    /\ UNCHANGED <<open, inProgress, scan>>
MasonFails(a) ==
    /\ mason[a].at \in {"workspace", "building"}
    /\ record' = [record EXCEPT ![mason[a].issue] = "failed"]
    /\ mason' = [mason EXCEPT ![a].at = "done"]
    /\ UNCHANGED <<open, inProgress, scan>>

-----------------------------------------------------------------------------
(* The backlog scanner                                                      *)

Page == LET all == SetToSortSeq(open, <) IN SubSeq(all, 1, Min({PageSize, Len(all)}))
Slots ==
    LET busy == Cardinality({ i \in Issues : record[i] = "in_progress" })
    IN  IF busy < MaxConcurrent THEN MaxConcurrent - busy ELSE 0

\* What GitHub answers, and the labels it shows, are of the moment it was asked.
BeginScan(s) ==
    /\ scan[s].at = "idle"
    /\ scan' = [scan EXCEPT ![s] =
         [at |-> "asked", todo |-> SelectSeq(Page, LAMBDA i : i \notin inProgress)]]
    /\ UNCHANGED <<open, inProgress, record, mason>>

\* The answer is here: as many as there are slots now, one after the other.
TakeIssues(s) ==
    /\ scan[s].at = "asked"
    /\ LET todo == SubSeq(scan[s].todo, 1, Min({Slots, Len(scan[s].todo)}))
       IN  scan' = [scan EXCEPT ![s] =
                     IF todo = <<>> THEN IdleScan ELSE [at |-> "label", todo |-> todo]]
    /\ UNCHANGED <<open, inProgress, record, mason>>

\* GitHub cannot be reached, or answers with an error.
ScanFails(s) ==
    /\ scan[s].at = "asked"
    /\ scan' = [scan EXCEPT ![s] = IdleScan]
    /\ UNCHANGED <<open, inProgress, record, mason>>

\* Labelling is best effort; the pipeline starts in either case.
LabelIssue(s, done) ==
    /\ scan[s].at = "label"
    /\ inProgress' = IF done THEN inProgress \cup {Head(scan[s].todo)} ELSE inProgress
    /\ scan' = [scan EXCEPT ![s].at = "pipeline"]
    /\ UNCHANGED <<open, record, mason>>

\* execute() returns or raises: the next issue of the list.
PipelineEnds(s) ==
    /\ scan[s].at = "pipeline"
    /\ scan' = [scan EXCEPT ![s] =
         IF Len(scan[s].todo) = 1 THEN IdleScan
         ELSE [at |-> "label", todo |-> Tail(scan[s].todo)]]
    /\ UNCHANGED <<open, inProgress, record, mason>>

\* On GitHub: an issue is closed.
CloseIssue(i) ==
    /\ i \in open
    /\ open' = open \ {i}
    /\ UNCHANGED <<inProgress, scan, record, mason>>

-----------------------------------------------------------------------------
MasonStep(a) == StartMason(a) \/ MakeWorkspace(a) \/ MasonCompletes(a) \/ MasonFails(a)
ScanStep(s) ==
    BeginScan(s) \/ TakeIssues(s) \/ PipelineEnds(s) \/ \E done \in BOOLEAN : LabelIssue(s, done)

IssueNext ==
    \/ \E a \in Assignments : MasonStep(a) \/ \E i \in Issues : AssignIssue(a, i)
    \/ \E s \in Scans : ScanStep(s) \/ ScanFails(s)
    \/ \E i \in Issues : CloseIssue(i)

IssueSpec == IssueInit /\ [][IssueNext]_issueVars

-----------------------------------------------------------------------------
(* Properties                                                              *)

Working(i) == \E a \in Assignments : mason[a].issue = i /\ mason[a].at \in {"workspace", "building"}

\* An issue that Mason's queue reports as queued or in progress has a task that
\* will start it or works on it, although issues are assigned again while they
\* are worked on and a task ends the record of its successor (mason.py:81-141).
\* A record left behind would take a slot of the scanner for ever.
NoGhostAssignments ==
    \A i \in Issues :
        /\ record[i] = "in_progress" => Working(i)
        /\ record[i] = "queued" =>
               \E a \in Assignments : mason[a].at = "created" /\ mason[a].issue = i

Pipelines == { s \in Scans : scan[s].at = "pipeline" }

\* Issues "that are not already `in-progress`" are picked up (triggers.py:202):
\* no two pipelines for one issue.
OneScanPerIssue ==
    \A s, z \in Pipelines : s # z => Head(scan[s].todo) # Head(scan[z].todo)

-----------------------------------------------------------------------------
(***************************************************************************)
(* The task queue between the API and the agent workers:                   *)
(* agents/task_queue.py, agents/worker.py and api/routes/tasks.py.         *)
(***************************************************************************)

CONSTANTS
    Tasks,      \* task ids
    Workers,    \* workers with a run_loop()
    MaxIdle     \* empty polls after which a worker stops

VARIABLES
    status,     \* task -> "none", "pending", "working", "completed" or "failed"
    deque,      \* _pending
    worker,     \* worker -> [at, task, idle]
    taskRuns        \* task -> how often an agent was run for it

taskVars == <<status, deque, worker, taskRuns>>

Polling == [at |-> "polling", task |-> "none", idle |-> 0]

TasksInit ==
    /\ status = [t \in Tasks |-> "none"]
    /\ deque = <<>>
    /\ worker = [w \in Workers |-> Polling]
    /\ taskRuns = [t \in Tasks |-> 0]

\* submit(), for a goal the warden lets through.
SubmitTask(t) ==
    /\ status[t] = "none"
    /\ status' = [status EXCEPT ![t] = "pending"]
    /\ deque' = Append(deque, t)
    /\ UNCHANGED <<worker, taskRuns>>

\* claim() takes the first entry whose task is still pending.
X_Claim(w) ==
    /\ worker[w].at = "polling" /\ deque # <<>>
    /\ worker' = [worker EXCEPT ![w] = [at |-> "running", task |-> Head(deque), idle |-> 0]]
    /\ status' = [status EXCEPT ![Head(deque)] = "working"]
    /\ taskRuns' = [taskRuns EXCEPT ![Head(deque)] = @ + 1]
    /\ deque' = IF Len(deque) > 1 THEN Tail(deque) ELSE deque
Claim(w) ==
    /\ worker[w].at = "polling" /\ deque # <<>>
    /\ worker' = [worker EXCEPT ![w] = [at |-> "running", task |-> Head(deque), idle |-> 0]]
    /\ status' = [status EXCEPT ![Head(deque)] = "working"]
    /\ taskRuns' = [taskRuns EXCEPT ![Head(deque)] = @ + 1]
    /\ deque' = Tail(deque)

\* Nothing to claim: the worker sleeps, and stops after MaxIdle sleeps in a row.
PollEmpty(w) ==
    /\ worker[w].at = "polling" /\ deque = <<>>
    /\ IF worker[w].idle + 1 < MaxIdle
       THEN worker' = [worker EXCEPT ![w].idle = @ + 1]
       ELSE worker' = [worker EXCEPT ![w].at = "stopped"]
    /\ UNCHANGED <<status, deque, taskRuns>>

\* The agent answers or raises.
X_TaskEnds(w, good) ==
    /\ worker[w].at = "running"
    /\ status' = IF good THEN [status EXCEPT ![worker[w].task] = "completed"] ELSE status
    /\ worker' = [worker EXCEPT ![w] = Polling]
    /\ UNCHANGED <<deque, taskRuns>>
TaskEnds(w, good) ==
    /\ worker[w].at = "running"
    /\ status' = [status EXCEPT ![worker[w].task] = IF good THEN "completed" ELSE "failed"]
    /\ worker' = [worker EXCEPT ![w] = Polling]
    /\ UNCHANGED <<deque, taskRuns>>

\* The worker's process ends in the middle of a task: nothing hands it out again.
WorkerDies(w) ==
    /\ worker[w].at = "running"
    /\ worker' = [worker EXCEPT ![w].at = "dead"]
    /\ UNCHANGED <<status, deque, taskRuns>>

TasksNext ==
    \/ \E t \in Tasks : SubmitTask(t)
    \/ \E w \in Workers :
         Claim(w) \/ PollEmpty(w) \/ WorkerDies(w) \/ \E good \in BOOLEAN : TaskEnds(w, good)

TasksSpec == TasksInit /\ [][TasksNext]_taskVars

-----------------------------------------------------------------------------
(* Properties                                                              *)

\* No task is run by two workers, or twice (claim() pops and marks in one step).
ClaimedOnce == \A t \in Tasks : taskRuns[t] <= 1

\* A task reported as pending is in the queue, and one reported as working is
\* with the one worker that runs it, or with one that died: agents that raise
\* and workers that stop leave none behind (worker.py:30-46).
TasksAreAccounted ==
    \A t \in Tasks :
        /\ status[t] = "pending" <=> t \in Range(deque)
        /\ status[t] = "working" => \E w \in Workers :
             worker[w].task = t /\ worker[w].at \in {"running", "dead"}

\* Every task is somewhere, and never in two places.
TasksAreKept == ClaimedOnce /\ TasksAreAccounted
=============================================================================
