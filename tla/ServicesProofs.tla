--------------------------- MODULE ServicesProofs ---------------------------
(***************************************************************************)
(* The parts that keep records of work: the task queue and the mason's     *)
(* issues lose nothing and run nothing twice, canaries and prompt versions *)
(* move only as they were told to, a run of the builders' core has one     *)
(* story, and so has an agent's trust tier.  Then the limits: how often a  *)
(* user may ask, when it is locked out, what the marketplace may show.     *)
(* Each theorem is about its part's own specification, the last about the  *)
(* parts together, for any sets of the actors.                             *)
(***************************************************************************)
EXTENDS MCServices, SetLemmas, SequenceTheorems

-----------------------------------------------------------------------------
(* The task queue                                                           *)

TasksTypeOK ==
    /\ status \in [Tasks -> {"none", "pending", "working", "completed", "failed"}]
    /\ deque \in Seq(Tasks)
    /\ worker \in [Workers -> [at : {"polling", "running", "stopped", "dead"},
                               task : Tasks \cup {"none"}, idle : Nat]]
    /\ taskRuns \in [Tasks -> Nat]

\* No task is queued twice.
QueuedOnce == \A k, l \in DOMAIN deque : deque[k] = deque[l] => k = l

\* What no worker has claimed was never run.
UnclaimedNotRun == \A t \in Tasks : status[t] \in {"none", "pending"} => taskRuns[t] = 0

\* A worker runs what it has claimed.
RunningWasClaimed ==
    \A w \in Workers : worker[w].at = "running" =>
        worker[w].task \in Tasks /\ status[worker[w].task] \notin {"none", "pending"}

\* A task that is working is with a worker, alive or dead.
WorkingIsHeld ==
    \A t \in Tasks : status[t] = "working" =>
        \E w \in Workers : worker[w].task = t /\ worker[w].at \in {"running", "dead"}

PendingIsQueued == \A t \in Tasks : status[t] = "pending" <=> \E k \in DOMAIN deque : deque[k] = t

TasksInv ==
    /\ TasksTypeOK /\ QueuedOnce /\ UnclaimedNotRun /\ ClaimedOnce
    /\ RunningWasClaimed /\ WorkingIsHeld /\ PendingIsQueued

LEMMA TasksInitially == TasksInit => TasksInv
<1> SUFFICES ASSUME TasksInit PROVE TasksInv
  OBVIOUS
<1>1. TasksTypeOK
  BY DEF TasksInit, TasksTypeOK, Polling
<1>2. QED
  BY <1>1 DEF TasksInit, TasksInv, Polling, QueuedOnce, UnclaimedNotRun, ClaimedOnce,
              RunningWasClaimed, WorkingIsHeld, PendingIsQueued

\* submit() queues a task that was in no queue.
LEMMA SubmitTaskKeeps ==
  ASSUME TasksInv, NEW t \in Tasks, SubmitTask(t)
  PROVE  TasksInv'
<1> DEFINE n == Len(deque)
<1>1. n \in Nat /\ DOMAIN deque = 1..n
  BY DEF TasksInv, TasksTypeOK
<1>2. /\ deque' \in Seq(Tasks) /\ DOMAIN deque' = 1..(n + 1)
      /\ \A k \in 1..n : deque'[k] = deque[k]
      /\ deque'[n + 1] = t
  BY <1>1 DEF SubmitTask, TasksInv, TasksTypeOK
<1>3. status[t] = "none" /\ \A k \in 1..n : deque[k] # t
  BY <1>1 DEF SubmitTask, TasksInv, PendingIsQueued
<1>4. /\ worker' = worker /\ taskRuns' = taskRuns
      /\ \A u \in Tasks : status'[u] = IF u = t THEN "pending" ELSE status[u]
  BY DEF SubmitTask, TasksInv, TasksTypeOK
<1>5. TasksTypeOK'
  BY <1>2 DEF SubmitTask, TasksInv, TasksTypeOK
<1>6. QueuedOnce'
  BY <1>1, <1>2, <1>3 DEF TasksInv, QueuedOnce
<1>7. UnclaimedNotRun' /\ ClaimedOnce'
  BY <1>3, <1>4 DEF TasksInv, UnclaimedNotRun, ClaimedOnce
<1>8. RunningWasClaimed' /\ WorkingIsHeld'
  BY <1>3, <1>4 DEF TasksInv, RunningWasClaimed, WorkingIsHeld
<1>9. PendingIsQueued'
  BY <1>1, <1>2, <1>3, <1>4 DEF TasksInv, PendingIsQueued
<1>10. QED
  BY <1>5, <1>6, <1>7, <1>8, <1>9 DEF TasksInv

\* claim() takes the task at the head, which no other entry names.
LEMMA ClaimKeeps ==
  ASSUME TasksInv, NEW w \in Workers, Claim(w)
  PROVE  TasksInv'
<1> DEFINE n == Len(deque)
           t == deque[1]
<1>1. n \in Nat \ {0} /\ DOMAIN deque = 1..n /\ t \in Tasks /\ Head(deque) = t
  BY DEF Claim, TasksInv, TasksTypeOK
<1>2. /\ deque' \in Seq(Tasks) /\ DOMAIN deque' = 1..(n - 1)
      /\ \A k \in 1..(n - 1) : deque'[k] = deque[k + 1]
  BY <1>1 DEF Claim, TasksInv, TasksTypeOK
<1>3. status[t] = "pending" /\ \A k \in 2..n : deque[k] # t
  BY <1>1 DEF TasksInv, PendingIsQueued, QueuedOnce
<1> HIDE DEF t
<1>4. /\ \A u \in Tasks : status'[u] = IF u = t THEN "working" ELSE status[u]
      /\ \A u \in Tasks : taskRuns'[u] = IF u = t THEN taskRuns[u] + 1 ELSE taskRuns[u]
      /\ \A v \in Workers : worker'[v] =
           IF v = w THEN [at |-> "running", task |-> t, idle |-> 0] ELSE worker[v]
      /\ worker[w].at = "polling"
  BY <1>1 DEF Claim, TasksInv, TasksTypeOK
<1>5. TasksTypeOK'
  <2>1. status' \in [Tasks -> {"none", "pending", "working", "completed", "failed"}]
    BY <1>1 DEF Claim, TasksInv, TasksTypeOK
  <2>2. worker' = [worker EXCEPT ![w] = [at |-> "running", task |-> t, idle |-> 0]]
    BY <1>1 DEF Claim
  <2>3. [at |-> "running", task |-> t, idle |-> 0] \in
          [at : {"polling", "running", "stopped", "dead"}, task : Tasks \cup {"none"}, idle : Nat]
    BY <1>1
  <2>4. taskRuns' \in [Tasks -> Nat]
    BY <1>1 DEF Claim, TasksInv, TasksTypeOK
  <2>5. QED
    BY <1>2, <2>1, <2>2, <2>3, <2>4 DEF TasksInv, TasksTypeOK
<1>6. QueuedOnce'
  BY <1>1, <1>2 DEF TasksInv, QueuedOnce
<1>7. UnclaimedNotRun' /\ ClaimedOnce'
  <2>1. taskRuns[t] = 0
    BY <1>1, <1>3 DEF TasksInv, UnclaimedNotRun
  <2>2. UnclaimedNotRun'
    BY <1>4 DEF TasksInv, UnclaimedNotRun
  <2>3. ClaimedOnce'
    BY <1>4, <2>1 DEF TasksInv, ClaimedOnce
  <2>4. QED
    BY <2>2, <2>3
<1>8. RunningWasClaimed'
  BY <1>1, <1>4 DEF TasksInv, RunningWasClaimed
<1>9. WorkingIsHeld'
  <2> SUFFICES ASSUME NEW u \in Tasks, status'[u] = "working"
               PROVE  \E v \in Workers :
                        worker'[v].task = u /\ worker'[v].at \in {"running", "dead"}
    BY DEF WorkingIsHeld
  <2>1. CASE u = t
    BY <1>4, <2>1
  <2>2. CASE u # t
    BY <1>4, <2>2 DEF TasksInv, WorkingIsHeld
  <2>3. QED
    BY <2>1, <2>2
<1>10. PendingIsQueued'
  <2> SUFFICES ASSUME NEW u \in Tasks
               PROVE  status'[u] = "pending" <=> \E k \in 1..(n - 1) : deque[k + 1] = u
    BY <1>2 DEF PendingIsQueued
  <2>1. (\E k \in 1..(n - 1) : deque[k + 1] = u) <=> (\E k \in 2..n : deque[k] = u)
    <3>1. ASSUME NEW k \in 2..n, deque[k] = u PROVE k - 1 \in 1..(n - 1) /\ deque[(k - 1) + 1] = u
      BY <1>1, <3>1
    <3>2. ASSUME NEW k \in 1..(n - 1) PROVE k + 1 \in 2..n
      BY <1>1
    <3>3. QED
      BY <3>1, <3>2
  <2>2. CASE u = t
    BY <1>3, <1>4, <2>1, <2>2
  <2>3. CASE u # t
    <3>1. status[u] = "pending" <=> \E k \in 1..n : deque[k] = u
      BY <1>1 DEF TasksInv, PendingIsQueued
    <3>2. \A k \in 1..n : k = 1 \/ k \in 2..n
      BY <1>1
    <3>3. \A k \in 2..n : k \in 1..n
      BY <1>1
    <3>4. deque[1] # u
      BY <2>3 DEF t
    <3>5. QED
      BY <1>4, <2>1, <2>3, <3>1, <3>2, <3>3, <3>4
  <2>4. QED
    BY <2>2, <2>3
<1>11. QED
  BY <1>5, <1>6, <1>7, <1>8, <1>9, <1>10 DEF TasksInv

\* An agent's answer or exception ends the task its worker claimed.
LEMMA TaskEndsKeeps ==
  ASSUME TasksInv, NEW w \in Workers, NEW good \in BOOLEAN, TaskEnds(w, good)
  PROVE  TasksInv'
<1> DEFINE t == worker[w].task
           end == IF good THEN "completed" ELSE "failed"
<1>1. worker[w].at = "running" /\ t \in Tasks /\ status[t] \notin {"none", "pending"}
  BY DEF TaskEnds, TasksInv, RunningWasClaimed
<1>2. end \in {"completed", "failed"}
  OBVIOUS
<1>3. /\ deque' = deque /\ taskRuns' = taskRuns
      /\ status' = [status EXCEPT ![t] = end] /\ worker' = [worker EXCEPT ![w] = Polling]
  BY DEF TaskEnds
<1> HIDE DEF end, t
<1>4. /\ \A u \in Tasks : status'[u] = IF u = t THEN end ELSE status[u]
      /\ \A v \in Workers : worker'[v] = IF v = w THEN Polling ELSE worker[v]
  BY <1>1, <1>3 DEF TasksInv, TasksTypeOK
<1>5. TasksTypeOK'
  BY <1>1, <1>2, <1>3 DEF TasksInv, TasksTypeOK, Polling
<1>6. QueuedOnce' /\ ClaimedOnce'
  BY <1>3 DEF TasksInv, QueuedOnce, ClaimedOnce
<1>7. UnclaimedNotRun' /\ PendingIsQueued'
  BY <1>1, <1>2, <1>3, <1>4 DEF TasksInv, UnclaimedNotRun, PendingIsQueued
<1>8. RunningWasClaimed'
  BY <1>2, <1>4 DEF TasksInv, RunningWasClaimed, Polling
<1>9. WorkingIsHeld'
  <2> SUFFICES ASSUME NEW u \in Tasks, status'[u] = "working"
               PROVE  \E v \in Workers :
                        worker'[v].task = u /\ worker'[v].at \in {"running", "dead"}
    BY DEF WorkingIsHeld
  <2>1. u # t /\ status[u] = "working"
    BY <1>2, <1>4
  <2>2. PICK v \in Workers : worker[v].task = u /\ worker[v].at \in {"running", "dead"}
    BY <2>1 DEF TasksInv, WorkingIsHeld
  <2>3. v # w
    BY <2>1, <2>2 DEF t
  <2>4. QED
    BY <1>4, <2>2, <2>3
<1>10. QED
  BY <1>5, <1>6, <1>7, <1>8, <1>9 DEF TasksInv

\* A worker that sleeps, stops or dies keeps the task it had.
LEMMA WorkerIdlesOrDies ==
  ASSUME TasksInv, NEW w \in Workers, PollEmpty(w) \/ WorkerDies(w)
  PROVE  TasksInv'
<1>1. UNCHANGED <<status, deque, taskRuns>>
  BY DEF PollEmpty, WorkerDies
<1>2. /\ worker' \in [Workers -> [at : {"polling", "running", "stopped", "dead"},
                                  task : Tasks \cup {"none"}, idle : Nat]]
      /\ \A v \in Workers \ {w} : worker'[v] = worker[v]
      /\ worker[w].at = "running" => worker'[w].at = "dead" /\ worker'[w].task = worker[w].task
      /\ worker[w].at # "running" => worker[w].at = "polling"
      /\ worker'[w].at # "running"
  <2>1. CASE PollEmpty(w)
    <3>1. worker[w].at = "polling" /\ worker[w].idle \in Nat /\ worker[w].idle + 1 \in Nat
      BY <2>1 DEF PollEmpty, TasksInv, TasksTypeOK
    <3>2. CASE worker' = [worker EXCEPT ![w].idle = @ + 1]
      BY <3>1, <3>2 DEF TasksInv, TasksTypeOK
    <3>3. CASE worker' = [worker EXCEPT ![w].at = "stopped"]
      BY <3>1, <3>3 DEF TasksInv, TasksTypeOK
    <3>4. QED
      BY <2>1, <3>2, <3>3 DEF PollEmpty
  <2>2. CASE WorkerDies(w)
    BY <2>2 DEF WorkerDies, TasksInv, TasksTypeOK
  <2>3. QED
    BY <2>1, <2>2
<1>3. TasksTypeOK' /\ QueuedOnce' /\ ClaimedOnce' /\ UnclaimedNotRun' /\ PendingIsQueued'
  BY <1>1, <1>2 DEF TasksInv, TasksTypeOK, QueuedOnce, ClaimedOnce, UnclaimedNotRun,
                    PendingIsQueued
<1>4. RunningWasClaimed'
  BY <1>1, <1>2 DEF TasksInv, RunningWasClaimed
<1>5. WorkingIsHeld'
  <2> SUFFICES ASSUME NEW t \in Tasks, status[t] = "working"
               PROVE  \E v \in Workers :
                        worker'[v].task = t /\ worker'[v].at \in {"running", "dead"}
    BY <1>1 DEF WorkingIsHeld
  <2>1. PICK v \in Workers : worker[v].task = t /\ worker[v].at \in {"running", "dead"}
    BY DEF TasksInv, WorkingIsHeld
  <2>2. QED
    BY <1>2, <2>1
<1>6. QED
  BY <1>3, <1>4, <1>5 DEF TasksInv

\* However submissions, claims, failing agents and workers that stop or die
\* interleave: no task is run twice, a pending one is in the queue and a working
\* one with the worker that claimed it (task_queue.py, worker.py).
THEOREM TasksSpecKeepsTasks == TasksSpec => []TasksAreKept
<1>1. TasksInit => TasksInv
  BY TasksInitially
<1>2. TasksInv /\ [TasksNext]_taskVars => TasksInv'
  <2> SUFFICES ASSUME TasksInv, [TasksNext]_taskVars PROVE TasksInv'
    OBVIOUS
  <2>1. ASSUME NEW t \in Tasks, SubmitTask(t) PROVE TasksInv'
    BY <2>1, SubmitTaskKeeps
  <2>2. ASSUME NEW w \in Workers, Claim(w) PROVE TasksInv'
    BY <2>2, ClaimKeeps
  <2>3. ASSUME NEW w \in Workers, PollEmpty(w) \/ WorkerDies(w) PROVE TasksInv'
    BY <2>3, WorkerIdlesOrDies
  <2>4. ASSUME NEW w \in Workers, NEW good \in BOOLEAN, TaskEnds(w, good) PROVE TasksInv'
    BY <2>4, TaskEndsKeeps
  <2>5. CASE UNCHANGED taskVars
    BY <2>5 DEF taskVars, TasksInv, TasksTypeOK, QueuedOnce, UnclaimedNotRun, ClaimedOnce,
                RunningWasClaimed, WorkingIsHeld, PendingIsQueued
  <2>6. QED
    BY <2>1, <2>2, <2>3, <2>4, <2>5 DEF TasksNext
<1>3. TasksInv => TasksAreKept
  <2> SUFFICES ASSUME TasksInv PROVE TasksAreKept
    OBVIOUS
  <2>1. ASSUME NEW t \in Tasks PROVE status[t] = "pending" <=> t \in Range(deque)
    BY DEF TasksInv, PendingIsQueued, Range
  <2>2. QED
    BY <2>1 DEF TasksInv, TasksAreKept, TasksAreAccounted, WorkingIsHeld
<1>4. QED
  BY <1>1, <1>2, <1>3, PTL DEF TasksSpec

-----------------------------------------------------------------------------
(* Mason's queue                                                            *)

MasonTypeOK ==
    /\ record \in [Issues -> {"none", "queued", "in_progress", "completed", "failed"}]
    /\ mason \in [Assignments ->
         [at : {"unused", "created", "workspace", "building", "done"}, issue : Issues \cup {0}]]
    /\ \A a \in Assignments : mason[a].at # "unused" => mason[a].issue \in Issues

MasonInv == MasonTypeOK /\ NoGhostAssignments

\* A record says queued or in progress only while a task answers for it, however
\* often an issue is assigned while it is worked on, and whatever the scanner and
\* GitHub do (mason_queue.py, mason.py).
THEOREM NoAssignmentIsAGhost == IssueSpec => []NoGhostAssignments
<1>1. IssueInit => MasonInv
  BY DEF IssueInit, MasonInv, MasonTypeOK, NoTask, NoGhostAssignments
<1>2. MasonInv /\ [IssueNext]_issueVars => MasonInv'
  <2> SUFFICES ASSUME MasonInv, [IssueNext]_issueVars PROVE MasonInv'
    OBVIOUS
  <2>1. ASSUME NEW a \in Assignments, NEW i \in Issues, AssignIssue(a, i) PROVE MasonInv'
    <3>1. MasonTypeOK'
      BY <2>1 DEF AssignIssue, MasonInv, MasonTypeOK
    <3>2. NoGhostAssignments'
      BY <2>1 DEF AssignIssue, MasonInv, MasonTypeOK, NoGhostAssignments, Working
    <3>3. QED
      BY <3>1, <3>2 DEF MasonInv
  <2>2. ASSUME NEW a \in Assignments, MasonStep(a) PROVE MasonInv'
    <3>1. MasonTypeOK'
      BY <2>2 DEF MasonStep, StartMason, MakeWorkspace, MasonCompletes, MasonFails,
                  MasonInv, MasonTypeOK
    <3>2. NoGhostAssignments'
      BY <2>2 DEF MasonStep, StartMason, MakeWorkspace, MasonCompletes, MasonFails,
                  MasonInv, MasonTypeOK, NoGhostAssignments, Working
    <3>3. QED
      BY <3>1, <3>2 DEF MasonInv
  <2>3. ASSUME UNCHANGED <<record, mason>> PROVE MasonInv'
    BY <2>3 DEF MasonInv, MasonTypeOK, NoGhostAssignments, Working
  <2>4. ASSUME NEW s \in Scans, ScanStep(s) \/ ScanFails(s) PROVE UNCHANGED <<record, mason>>
    BY <2>4 DEF ScanStep, ScanFails, BeginScan, TakeIssues, PipelineEnds, LabelIssue
  <2>5. ASSUME NEW i \in Issues, CloseIssue(i) PROVE UNCHANGED <<record, mason>>
    BY <2>5 DEF CloseIssue
  <2>6. QED
    BY <2>1, <2>2, <2>3, <2>4, <2>5 DEF IssueNext, issueVars
<1>3. QED
  BY <1>1, <1>2, PTL DEF IssueSpec, MasonInv

-----------------------------------------------------------------------------
(* Stages                                                                   *)

Counts == [total : Nat, errors : Nat]

CanaryTypeOK ==
    /\ rollout \in [Orgs -> [stage : 0..4, age : Nat, total : Nat, errors : Nat]]
    /\ served \in [Orgs -> [CanaryStages -> Counts]]

\* The counters of a deployment are what its present stage has served, and
\* the stages it has not reached have served nothing.
CountsAreOfTheStage ==
    \A o \in Orgs : Deployed(o) =>
        /\ served[o][rollout[o].stage].total = rollout[o].total
        /\ served[o][rollout[o].stage].errors = rollout[o].errors
        /\ \A k \in CanaryStages :
             k > rollout[o].stage => served[o][k].total = 0 /\ served[o][k].errors = 0

CanaryInv == CanaryTypeOK /\ CountsAreOfTheStage /\ StagesAreEarned

LEMMA StartCanaryKeeps ==
  ASSUME CanaryInv, NEW o \in Orgs, StartCanary(o)
  PROVE  CanaryInv'
<1>1. /\ \A p \in Orgs : rollout'[p] = IF p = o THEN [NoRollout EXCEPT !.stage = 1] ELSE rollout[p]
      /\ \A p \in Orgs : served'[p] = IF p = o THEN NothingServed ELSE served[p]
  BY DEF StartCanary, CanaryInv, CanaryTypeOK
<1>2. CanaryTypeOK'
  BY DEF StartCanary, CanaryInv, CanaryTypeOK, NoRollout, NothingServed, Counts, CanaryStages
<1>3. /\ rollout'[o].stage = 1 /\ rollout'[o].total = 0 /\ rollout'[o].errors = 0
      /\ \A k \in CanaryStages : served'[o][k].total = 0 /\ served'[o][k].errors = 0
  BY <1>1 DEF NoRollout, NothingServed
<1>4. CountsAreOfTheStage'
  BY <1>1, <1>3 DEF CanaryInv, CountsAreOfTheStage, Deployed, CanaryStages
<1>5. StagesAreEarned'
  <2>1. \A k \in CanaryStages : ~(k < 1)
    BY DEF CanaryStages
  <2>2. QED
    BY <1>1, <1>3, <2>1 DEF CanaryInv, StagesAreEarned, Deployed, Enough, Tolerated
<1>6. QED
  BY <1>2, <1>4, <1>5 DEF CanaryInv

\* A result counts for the present stage, which no stage before it is.
LEMMA RecordResultKeeps ==
  ASSUME CanaryInv, NEW o \in Orgs, NEW success \in BOOLEAN, RecordResult(o, success)
  PROVE  CanaryInv'
<1> DEFINE s == rollout[o].stage
           more == IF success THEN 0 ELSE 1
<1>1. s \in CanaryStages /\ more \in Nat
  BY DEF RecordResult, Deployed, CanaryInv, CanaryTypeOK, CanaryStages
<1>2. /\ rollout[o].errors \in Nat /\ served[o][s].errors \in Nat
      /\ rollout[o].errors + more = IF success THEN rollout[o].errors ELSE rollout[o].errors + 1
      /\ served[o][s].errors + more =
           IF success THEN served[o][s].errors ELSE served[o][s].errors + 1
  BY <1>1 DEF CanaryInv, CanaryTypeOK, Counts
<1> DEFINE counts ==
             [total |-> served[o][s].total + 1, errors |-> served[o][s].errors + more]
<1> HIDE DEF more
<1>3. /\ rollout' = [rollout EXCEPT ![o].total = rollout[o].total + 1,
                                    ![o].errors = rollout[o].errors + more]
      /\ served' = [served EXCEPT ![o][s] = counts]
      /\ counts \in Counts /\ rollout[o].total + 1 \in Nat /\ rollout[o].errors + more \in Nat
  <2>1. rollout' = [rollout EXCEPT ![o].total = rollout[o].total + 1,
                                   ![o].errors = rollout[o].errors + more]
    BY <1>2 DEF RecordResult
  <2>2. served' = [served EXCEPT ![o][s] = counts]
    BY <1>2 DEF RecordResult
  <2>3. /\ served[o][s] \in Counts /\ rollout[o].total \in Nat
        /\ rollout[o].errors \in Nat /\ more \in Nat
    BY <1>1 DEF CanaryInv, CanaryTypeOK
  <2>4. QED
    BY <2>1, <2>2, <2>3 DEF Counts
<1>4. CanaryTypeOK'
  <2> HIDE DEF counts
  <2>1. served' \in [Orgs -> [CanaryStages -> Counts]]
    BY <1>1, <1>3 DEF CanaryInv, CanaryTypeOK
  <2>2. rollout' \in [Orgs -> [stage : 0..4, age : Nat, total : Nat, errors : Nat]]
    BY <1>3 DEF CanaryInv, CanaryTypeOK
  <2>3. QED
    BY <2>1, <2>2 DEF CanaryTypeOK
<1>5. /\ \A p \in Orgs \ {o} : rollout'[p] = rollout[p] /\ served'[p] = served[p]
      /\ rollout'[o].stage = s /\ rollout'[o].total = rollout[o].total + 1
      /\ rollout'[o].errors = rollout[o].errors + more
      /\ served'[o][s].total = served[o][s].total + 1
      /\ served'[o][s].errors = served[o][s].errors + more
      /\ \A k \in CanaryStages \ {s} : served'[o][k] = served[o][k]
  BY <1>1, <1>3 DEF CanaryInv, CanaryTypeOK
<1>6. CountsAreOfTheStage'
  <2> SUFFICES ASSUME NEW p \in Orgs, Deployed(p)'
               PROVE  /\ served'[p][rollout'[p].stage].total = rollout'[p].total
                      /\ served'[p][rollout'[p].stage].errors = rollout'[p].errors
                      /\ \A k \in CanaryStages : k > rollout'[p].stage =>
                           served'[p][k].total = 0 /\ served'[p][k].errors = 0
    BY DEF CountsAreOfTheStage
  <2>1. CASE p = o
    <3>1. Deployed(o)
      BY DEF RecordResult
    <3>2. \A k \in CanaryStages : k > s => k # s
      BY DEF CanaryStages
    <3>3. QED
      BY <1>5, <2>1, <3>1, <3>2 DEF CanaryInv, CountsAreOfTheStage
  <2>2. CASE p # o
    BY <1>5, <2>2 DEF CanaryInv, CountsAreOfTheStage, Deployed
  <2>3. QED
    BY <2>1, <2>2
<1>7. StagesAreEarned'
  <2> SUFFICES ASSUME NEW p \in Orgs, NEW k \in CanaryStages, Deployed(p)', k < rollout'[p].stage
               PROVE  Enough(served'[p][k]) /\ Tolerated(served'[p][k])
    BY DEF StagesAreEarned
  <2>1. rollout'[p].stage = rollout[p].stage
    BY <1>5
  <2>2. Deployed(p) /\ served'[p][k] = served[p][k]
    BY <1>1, <1>5, <2>1 DEF Deployed, CanaryStages
  <2>3. QED
    BY <2>1, <2>2 DEF CanaryInv, StagesAreEarned
<1>8. QED
  BY <1>4, <1>6, <1>7 DEF CanaryInv

\* The stage that is left has the counts the check looked at.
LEMMA AdvanceKeeps ==
  ASSUME CanaryInv, NEW o \in Orgs, Advance(o), served' = served
  PROVE  CanaryInv'
<1> DEFINE s == rollout[o].stage
<1>1. /\ s \in CanaryStages /\ Deployed(o) /\ Enough(rollout[o]) /\ Tolerated(rollout[o])
      /\ \A p \in Orgs \ {o} : rollout'[p] = rollout[p]
  BY DEF Advance, Due, Deployed, CanaryInv, CanaryTypeOK, CanaryStages
<1>2. Enough(served[o][s]) /\ Tolerated(served[o][s])
  BY <1>1 DEF CanaryInv, CountsAreOfTheStage, Enough, Tolerated
<1>3. CASE s = 4
  <2>1. rollout' = [rollout EXCEPT ![o] = NoRollout]
    BY <1>3 DEF Advance
  <2>2. rollout'[o].stage = 0
    BY <2>1 DEF CanaryInv, CanaryTypeOK, NoRollout
  <2>3. CanaryTypeOK'
    BY <2>1 DEF CanaryInv, CanaryTypeOK, NoRollout
  <2>4. CountsAreOfTheStage' /\ StagesAreEarned'
    BY <1>1, <2>2 DEF CanaryInv, CountsAreOfTheStage, StagesAreEarned, Deployed
  <2>5. QED
    BY <2>3, <2>4 DEF CanaryInv
<1>4. CASE s # 4
  <2>1. rollout' = [rollout EXCEPT ![o] = [NoRollout EXCEPT !.stage = s + 1]]
    BY <1>4 DEF Advance
  <2>2. rollout'[o].stage = s + 1 /\ rollout'[o].total = 0 /\ rollout'[o].errors = 0
    BY <2>1 DEF CanaryInv, CanaryTypeOK, NoRollout
  <2>3. s + 1 \in CanaryStages /\ s + 1 > s
    BY <1>1, <1>4 DEF CanaryStages
  <2>4. CanaryTypeOK'
    BY <2>1, <2>3 DEF CanaryInv, CanaryTypeOK, NoRollout, CanaryStages
  <2>5. CountsAreOfTheStage'
    <3>1. \A k \in CanaryStages : k > s + 1 => k > s
      BY <1>1 DEF CanaryStages
    <3>2. QED
      BY <1>1, <2>2, <2>3, <3>1 DEF CanaryInv, CountsAreOfTheStage, Deployed
  <2>6. StagesAreEarned'
    <3>1. \A k \in CanaryStages : k < s + 1 => k < s \/ k = s
      BY <1>1 DEF CanaryStages
    <3>2. QED
      BY <1>1, <1>2, <2>2, <3>1 DEF CanaryInv, StagesAreEarned, Deployed
  <2>7. QED
    BY <2>4, <2>5, <2>6 DEF CanaryInv
<1>5. QED
  BY <1>3, <1>4

LEMMA RollBackKeeps ==
  ASSUME CanaryInv, NEW o \in Orgs, RollBack(o), served' = served
  PROVE  CanaryInv'
<1>1. CanaryTypeOK'
  BY DEF RollBack, CanaryInv, CanaryTypeOK, NoRollout
<1>2. rollout'[o].stage = 0 /\ \A p \in Orgs \ {o} : rollout'[p] = rollout[p]
  BY DEF RollBack, CanaryInv, CanaryTypeOK, NoRollout
<1>3. QED
  BY <1>1, <1>2 DEF CanaryInv, CountsAreOfTheStage, StagesAreEarned, Deployed

LEMMA StageAgesKeeps ==
  ASSUME CanaryInv, NEW o \in Orgs, StageAges(o)
  PROVE  CanaryInv'
<1>1. rollout[o].age + 1 \in Nat
  BY DEF CanaryInv, CanaryTypeOK
<1>2. CanaryTypeOK'
  BY <1>1 DEF StageAges, CanaryInv, CanaryTypeOK
<1>3. /\ served' = served
      /\ \A p \in Orgs : /\ rollout'[p].stage = rollout[p].stage
                         /\ rollout'[p].total = rollout[p].total
                         /\ rollout'[p].errors = rollout[p].errors
  BY DEF StageAges, CanaryInv, CanaryTypeOK
<1>4. QED
  BY <1>2, <1>3 DEF CanaryInv, CountsAreOfTheStage, StagesAreEarned, Deployed

\* Every stage a deployment has left earned it with results of its own, whatever
\* the results, the checks and the deployments that replace one another
\* (record_result, check_promotion_or_rollback, start_canary of canary.py).
THEOREM StagesAreAlwaysEarned == CanarySpec => []StagesAreEarned
<1>1. CanaryInit => CanaryInv
  <2> SUFFICES ASSUME CanaryInit PROVE CanaryInv
    OBVIOUS
  <2>1. CanaryTypeOK
    BY DEF CanaryInit, CanaryTypeOK, NoRollout, NothingServed, Counts
  <2>2. \A o \in Orgs : ~Deployed(o)
    BY DEF CanaryInit, NoRollout, Deployed
  <2>3. QED
    BY <2>1, <2>2 DEF CanaryInv, CountsAreOfTheStage, StagesAreEarned
<1>2. CanaryInv /\ [CanaryNext]_canaryVars => CanaryInv'
  <2> SUFFICES ASSUME CanaryInv, [CanaryNext]_canaryVars PROVE CanaryInv'
    OBVIOUS
  <2>1. ASSUME UNCHANGED <<rollout, served>> PROVE CanaryInv'
    BY <2>1 DEF CanaryInv, CanaryTypeOK, CountsAreOfTheStage, StagesAreEarned, Deployed
  <2>2. CASE CanaryCheck
    <3>1. NoOrg \in Orgs /\ served' = served /\ (RollBack(NoOrg) \/ Advance(NoOrg) \/ Hold(NoOrg))
      BY <2>2, CanaryAssumption DEF CanaryCheck, CanaryAssumption
    <3>2. CASE RollBack(NoOrg)
      BY <3>1, <3>2, RollBackKeeps
    <3>3. CASE Advance(NoOrg)
      BY <3>1, <3>3, AdvanceKeeps
    <3>4. CASE Hold(NoOrg)
      BY <2>1, <3>1, <3>4 DEF Hold
    <3>5. QED
      BY <3>1, <3>2, <3>3, <3>4
  <2>3. ASSUME NEW o \in Orgs, StartCanary(o) PROVE CanaryInv'
    BY <2>3, StartCanaryKeeps
  <2>4. ASSUME NEW o \in Orgs, StageAges(o) PROVE CanaryInv'
    BY <2>4, StageAgesKeeps
  <2>5. ASSUME NEW o \in Orgs, NEW success \in BOOLEAN, RecordResult(o, success) PROVE CanaryInv'
    BY <2>5, RecordResultKeeps
  <2>6. QED
    BY <2>1, <2>2, <2>3, <2>4, <2>5 DEF CanaryNext, canaryVars
<1>3. QED
  BY <1>1, <1>2, PTL DEF CanarySpec, CanaryInv

-----------------------------------------------------------------------------
(* Prompt labels                                                            *)

LEMMA MaxOfTwo ==
  ASSUME NEW a \in Nat, NEW b \in Nat
  PROVE  Max({a, b}) = IF a >= b THEN a ELSE b
BY DEF Max

LEMMA MaxOfOne ==
  ASSUME NEW a \in Nat
  PROVE  Max({a}) = a
BY DEF Max

LEMMA MaxOfFirst ==
  ASSUME NEW n \in Nat \ {0}
  PROVE  Max(1..n) = n
<1>1. n \in 1..n /\ \A m \in 1..n : n >= m
  OBVIOUS
<1>2. ASSUME NEW k \in 1..n, \A m \in 1..n : k >= m PROVE k = n
  BY <1>1, <1>2
<1>3. QED
  BY <1>1, <1>2 DEF Max

\* Versions are numbered 1, 2, 3, ... and an upsert has read a number that is at
\* most the next one.
Numbered(n) ==
    /\ Numbers = 1..n /\ placed \in 0..n
    /\ \A e \in Editors : editor[e].at # "idle" => editor[e].version \in 1..(n + 1)

EditorsOK ==
    editor \in [Editors -> [at : {"idle", "unlabel", "latest", "insert", "first"},
                            version : Nat, label : Labels \cup {"none"}]]

\* One version at most has the production label, and none older than the one
\* that an upsert has put there.
LabelIsUnique ==
    \A v, w \in Numbers : labelled[v] = "production" /\ labelled[w] = "production" => v = w
LabelIsNotOlder == \A v \in Numbers : labelled[v] = "production" => v >= placed

\* In memory the production label points to a version put there on purpose.
PointerIsMeant ==
    /\ pointer \in [Labels -> Nat]
    /\ manager = "memory" /\ Numbers # {} =>
           pointer["production"] # 0 /\ pointer["production"] \in blessed

PromptInv ==
    /\ \E n \in Nat : Numbered(n)
    /\ EditorsOK /\ LabelIsUnique /\ LabelIsNotOlder /\ PointerIsMeant

LEMMA NextIsNext ==
  ASSUME NEW n \in Nat, Numbered(n)
  PROVE  NextVersion = n + 1
<1>1. CASE n = 0
  BY <1>1 DEF Numbered, NextVersion
<1>2. CASE n # 0
  BY <1>2, MaxOfFirst DEF Numbered, NextVersion
<1>3. QED
  BY <1>1, <1>2

LEMMA PromptInitially == PromptInit => PromptInv
<1> SUFFICES ASSUME PromptInit PROVE PromptInv
  OBVIOUS
<1>1. Numbers = {} /\ Numbers = 1..0 /\ placed \in 0..0
  BY DEF PromptInit, Numbers
<1>2. Numbered(0)
  BY <1>1 DEF PromptInit, Numbered, NotEditing
<1>3. EditorsOK
  BY DEF PromptInit, EditorsOK, NotEditing
<1>4. QED
  BY <1>1, <1>2, <1>3 DEF PromptInit, PromptInv, LabelIsUnique, LabelIsNotOlder, PointerIsMeant

\* What an upsert does before it inserts takes labels away, or none.
LEMMA BeforeInsertion ==
  ASSUME PromptInv, NEW e \in Editors,
         \/ \E l \in {"none", "production", "staging"} : ReadVersion(e, l)
         \/ RemoveLabel(e) \/ RemoveLatest(e) \/ InsertAgain(e) \/ GiveUp(e)
  PROVE  PromptInv'
<1>1. PICK n \in Nat : Numbered(n)
  BY DEF PromptInv
<1>2. /\ UNCHANGED <<manager, pointer, placed, blessed>>
      /\ Numbers' = Numbers
      /\ \A v \in Numbers : labelled'[v] = "production" => labelled[v] = "production"
  BY DEF ReadVersion, RemoveLabel, RemoveLatest, InsertAgain, GiveUp, Cleared, Numbers
<1>3. /\ EditorsOK'
      /\ \A d \in Editors : editor'[d].at # "idle" => editor'[d].version \in 1..(n + 1)
  <2>1. ASSUME NEW l \in {"none", "production", "staging"}, ReadVersion(e, l)
        PROVE  /\ EditorsOK' /\ editor'[e].version = n + 1
               /\ \A d \in Editors \ {e} : editor'[d] = editor[d]
    <3>1. NextVersion = n + 1 /\ n + 1 \in Nat
      BY <1>1, NextIsNext
    <3>2. editor' = [editor EXCEPT ![e] = [at |-> IF l = "none" THEN "latest" ELSE "unlabel",
                                           version |-> n + 1, label |-> l]]
      BY <2>1, <3>1 DEF ReadVersion
    <3>3. QED
      BY <3>1, <3>2 DEF PromptInv, EditorsOK, Labels
  <2>2. ASSUME RemoveLabel(e) \/ RemoveLatest(e)
        PROVE  /\ EditorsOK'
               /\ editor[e].at # "idle" /\ editor'[e].version = editor[e].version
               /\ \A d \in Editors \ {e} : editor'[d] = editor[d]
    BY <2>2 DEF RemoveLabel, RemoveLatest, At, MoveTo, PromptInv, EditorsOK
  <2>3. ASSUME InsertAgain(e) \/ GiveUp(e)
        PROVE  /\ EditorsOK' /\ editor'[e].at = "idle"
               /\ \A d \in Editors \ {e} : editor'[d] = editor[d]
    <3>1. editor' = [editor EXCEPT ![e] = NotEditing]
      BY <2>3 DEF InsertAgain, GiveUp
    <3>2. QED
      BY <3>1 DEF NotEditing, PromptInv, EditorsOK
  <2>4. \A d \in Editors : editor[d].at # "idle" => editor[d].version \in 1..(n + 1)
    BY <1>1 DEF Numbered
  <2>5. n + 1 \in 1..(n + 1)
    BY <1>1
  <2>6. QED
    BY <2>1, <2>2, <2>3, <2>4, <2>5
<1>4. Numbered(n)'
  BY <1>1, <1>2, <1>3 DEF Numbered
<1>5. LabelIsUnique' /\ LabelIsNotOlder' /\ PointerIsMeant'
  BY <1>2 DEF PromptInv, LabelIsUnique, LabelIsNotOlder, PointerIsMeant
<1>6. QED
  BY <1>3, <1>4, <1>5 DEF PromptInv

\* A number that is free is the next one, so what is inserted is the newest.
LEMMA InsertVersionKeeps ==
  ASSUME PromptInv, NEW e \in Editors, InsertVersion(e)
  PROVE  PromptInv'
<1>1. PICK n \in Nat : Numbered(n)
  BY DEF PromptInv
<1> DEFINE v == editor[e].version
           l == EffectiveLabel(e)
<1>2. manager = "postgres" /\ v = n + 1 /\ v \in Nat /\ \A w \in 1..n : labelled[w] # l
  BY <1>1 DEF InsertVersion, At, Free, Numbered
<1>3. /\ Numbers' = 1..(n + 1)
      /\ \A w \in 1..(n + 1) : labelled'[w] = IF w = n + 1 THEN l ELSE labelled[w]
  <2>1. Numbers \cup {v} = 1..(n + 1)
    BY <1>1, <1>2 DEF Numbered
  <2> HIDE DEF l, v
  <2>2. labelled' = [w \in 1..(n + 1) |-> IF w = v THEN l ELSE labelled[w]]
    BY <2>1 DEF InsertVersion, l, v
  <2>3. QED
    BY <1>2, <2>2 DEF Numbers
<1>4. placed \in 0..n /\ placed' = IF l = "production" THEN n + 1 ELSE placed
  BY <1>1, <1>2, MaxOfTwo DEF InsertVersion, Numbered
<1>5. /\ EditorsOK'
      /\ \A d \in Editors : editor'[d].at # "idle" => editor'[d].version \in 1..(n + 1)
  <2>1. /\ EditorsOK'
        /\ editor'[e].at # "idle" => editor'[e].version = v
        /\ \A d \in Editors \ {e} : editor'[d] = editor[d]
    <3>1. \/ editor' = [editor EXCEPT ![e].at = "first"]
          \/ editor' = [editor EXCEPT ![e] = NotEditing]
      BY DEF InsertVersion, MoveTo
    <3>2. CASE editor' = [editor EXCEPT ![e].at = "first"]
      BY <3>2 DEF PromptInv, EditorsOK
    <3>3. CASE editor' = [editor EXCEPT ![e] = NotEditing]
      BY <3>3 DEF NotEditing, PromptInv, EditorsOK
    <3>4. QED
      BY <3>1, <3>2, <3>3
  <2>2. \A d \in Editors : editor[d].at # "idle" => editor[d].version \in 1..(n + 1)
    BY <1>1 DEF Numbered
  <2>3. n + 1 \in 1..(n + 1)
    BY <1>1
  <2>4. QED
    BY <1>2, <2>1, <2>2, <2>3
<1> HIDE DEF l, v
<1>6. Numbered(n + 1)'
  <2>1. \A k \in 1..(n + 1) : k \in 1..((n + 1) + 1)
    BY <1>1
  <2>2. placed' \in 0..(n + 1)
    BY <1>4
  <2>3. QED
    BY <1>3, <1>5, <2>1, <2>2 DEF Numbered
<1>7. \A w \in 1..n : labelled[w] = "production" => l # "production" /\ w >= placed
  BY <1>1, <1>2 DEF PromptInv, LabelIsNotOlder, Numbered
<1>8. LabelIsUnique'
  <2> SUFFICES ASSUME NEW u \in 1..(n + 1), NEW w \in 1..(n + 1),
                      labelled'[u] = "production", labelled'[w] = "production"
               PROVE  u = w
    BY <1>3 DEF LabelIsUnique
  <2>1. \A k \in 1..(n + 1) : k = n + 1 \/ k \in 1..n
    BY <1>1
  <2>2. CASE l = "production"
    BY <1>3, <1>7, <2>1, <2>2
  <2>3. CASE l # "production"
    BY <1>1, <1>3, <2>1, <2>3 DEF PromptInv, LabelIsUnique, Numbered
  <2>4. QED
    BY <2>2, <2>3
<1>9. LabelIsNotOlder'
  <2> SUFFICES ASSUME NEW w \in 1..(n + 1), labelled'[w] = "production" PROVE w >= placed'
    BY <1>3 DEF LabelIsNotOlder
  <2>1. w = n + 1 \/ w \in 1..n
    BY <1>1
  <2>2. CASE w = n + 1
    BY <1>4, <2>2
  <2>3. CASE w # n + 1
    BY <1>3, <1>4, <1>7, <2>1, <2>3
  <2>4. QED
    BY <2>2, <2>3
<1>10. PointerIsMeant'
  BY <1>2 DEF InsertVersion, PromptInv, PointerIsMeant
<1>11. QED
  BY <1>5, <1>6, <1>8, <1>9, <1>10 DEF PromptInv

\* In memory the first version, and any that is asked for, gets the label.
LEMMA UpsertInMemoryKeeps ==
  ASSUME PromptInv, NEW label \in {"none", "production", "staging"}, UpsertInMemory(label)
  PROVE  PromptInv'
<1>1. PICK n \in Nat : Numbered(n)
  BY DEF PromptInv
<1>2. NextVersion = n + 1 /\ n + 1 \in Nat \ {0}
  BY <1>1, NextIsNext
<1>3. Numbers' = 1..(n + 1) /\ \A w \in 1..(n + 1) : labelled'[w] = "none"
  <2>1. Numbers \cup {n + 1} = 1..(n + 1)
    BY <1>1 DEF Numbered
  <2>2. labelled' = [w \in 1..(n + 1) |-> "none"]
    BY <1>2, <2>1 DEF UpsertInMemory
  <2>3. QED
    BY <2>2 DEF Numbers
<1>4. UNCHANGED <<manager, editor, placed>>
  BY DEF UpsertInMemory
<1>5. Numbered(n + 1)'
  <2>1. \A k \in 1..(n + 1) : k \in 1..((n + 1) + 1)
    BY <1>1
  <2>2. \A k \in 0..n : k \in 0..(n + 1)
    BY <1>1
  <2>3. QED
    BY <1>1, <1>3, <1>4, <2>1, <2>2 DEF Numbered
<1>6. EditorsOK' /\ LabelIsUnique' /\ LabelIsNotOlder'
  BY <1>3, <1>4 DEF PromptInv, EditorsOK, LabelIsUnique, LabelIsNotOlder
<1>7. PointerIsMeant'
  <2>1. /\ pointer' = [k \in Labels |->
              IF k \in {label, "latest"} \/ (k = "production" /\ n + 1 = 1)
              THEN n + 1 ELSE pointer[k]]
        /\ blessed' = IF pointer'["production"] = n + 1 THEN blessed \cup {n + 1} ELSE blessed
    BY <1>2 DEF UpsertInMemory
  <2>2. pointer' \in [Labels -> Nat]
    BY <1>2, <2>1 DEF PromptInv, PointerIsMeant
  <2>3. CASE pointer'["production"] = n + 1
    BY <1>2, <2>1, <2>2, <2>3 DEF PointerIsMeant
  <2>4. CASE pointer'["production"] # n + 1
    <3>1. pointer'["production"] = pointer["production"] /\ n + 1 # 1
      BY <2>1, <2>4 DEF Labels
    <3>2. n >= 1
      BY <1>1, <3>1
    <3>3. Numbers # {}
      <4>1. 1 \in 1..n
        BY <1>1, <3>2
      <4>2. QED
        BY <1>1, <4>1 DEF Numbered
    <3>4. QED
      BY <1>4, <2>1, <2>2, <2>4, <3>1, <3>3 DEF PromptInv, PointerIsMeant
  <2>5. QED
    BY <2>3, <2>4
<1>8. QED
  BY <1>5, <1>6, <1>7 DEF PromptInv

LEMMA RelabelKeeps ==
  ASSUME PromptInv,
         \/ \E from, to \in Labels : PromoteLabel(from, to)
         \/ \E v \in Numbers :
              RequestApproval(v) \/ Decide(v, "approved") \/ Decide(v, "rejected")
  PROVE  PromptInv'
<1>1. UNCHANGED <<manager, labelled, editor, placed>> /\ Numbers' = Numbers
  BY DEF PromoteLabel, RequestApproval, Decide, Numbers
<1>2. Numbers \subseteq Nat \ {0}
  BY DEF PromptInv, Numbered
<1>3. PointerIsMeant'
  <2>1. ASSUME NEW from \in Labels, NEW to \in Labels, PromoteLabel(from, to)
        PROVE  PointerIsMeant'
    BY <1>1, <2>1 DEF PromoteLabel, PromptInv, PointerIsMeant, Labels
  <2>2. ASSUME NEW v \in Numbers, Decide(v, "approved") PROVE PointerIsMeant'
    BY <1>1, <1>2, <2>2 DEF Decide, PromptInv, PointerIsMeant, Labels
  <2>3. ASSUME NEW v \in Numbers, RequestApproval(v) \/ Decide(v, "rejected")
        PROVE  PointerIsMeant'
    BY <1>1, <2>3 DEF RequestApproval, Decide, PromptInv, PointerIsMeant
  <2>4. QED
    BY <2>1, <2>2, <2>3
<1>4. QED
  BY <1>1, <1>3 DEF PromptInv, Numbered, EditorsOK, LabelIsUnique, LabelIsNotOlder

\* However many upserts overlap and wherever one is cut short, get() serves as
\* production nothing older than an upsert has put there; and in memory nothing
\* that nobody put there, promoted or approved (pg_prompts.py, store.py).
THEOREM ProductionIsAlwaysMeant == PromptSpec => []ProductionIsMeant
<1>1. PromptInv /\ [PromptNext]_promptVars => PromptInv'
  <2> SUFFICES ASSUME PromptInv, [PromptNext]_promptVars PROVE PromptInv'
    OBVIOUS
  <2>1. CASE UNCHANGED promptVars
    BY <2>1 DEF promptVars, PromptInv, Numbered, Numbers, EditorsOK, LabelIsUnique,
                LabelIsNotOlder, PointerIsMeant
  <2>2. ASSUME NEW e \in Editors, InsertVersion(e) PROVE PromptInv'
    BY <2>2, InsertVersionKeeps
  <2>3. ASSUME NEW e \in Editors,
               \/ \E l \in {"none", "production", "staging"} : ReadVersion(e, l)
               \/ RemoveLabel(e) \/ RemoveLatest(e) \/ InsertAgain(e) \/ GiveUp(e)
        PROVE  PromptInv'
    BY <2>3, BeforeInsertion
  <2>4. ASSUME NEW l \in {"none", "production", "staging"}, UpsertInMemory(l) PROVE PromptInv'
    BY <2>4, UpsertInMemoryKeeps
  <2>5. QED
    BY <2>1, <2>2, <2>3, <2>4, RelabelKeeps DEF PromptNext
<1>2. PromptInv => ProductionIsMeant
  <2> SUFFICES ASSUME PromptInv PROVE ProductionIsMeant
    OBVIOUS
  <2>1. PICK n \in Nat : Numbered(n)
    BY DEF PromptInv
  <2>2. ASSUME manager = "postgres" PROVE Served("production") >= placed
    <3> DEFINE marked == { v \in Numbers : labelled[v] = "production" }
    <3>1. manager # "memory" /\ Labelled("production") = marked
      BY <2>2 DEF Labelled
    <3>2. CASE marked = {}
      <4>1. Served("production") = IF Numbers = {} THEN 0 ELSE Max(Numbers)
        BY <3>1, <3>2 DEF Served
      <4>2. CASE n = 0
        BY <2>1, <4>1, <4>2 DEF Numbered
      <4>3. CASE n # 0
        BY <2>1, <4>1, <4>3, MaxOfFirst DEF Numbered
      <4>4. QED
        BY <4>2, <4>3
    <3>3. CASE marked # {}
      <4>1. PICK v \in Numbers : labelled[v] = "production"
        BY <3>3
      <4>2. marked = {v} /\ v >= placed /\ v \in Nat
        BY <2>1, <4>1 DEF PromptInv, LabelIsUnique, LabelIsNotOlder, Numbered
      <4>3. Served("production") = v
        BY <3>1, <4>2, MaxOfOne DEF Served
      <4>4. QED
        BY <4>2, <4>3
    <3>4. QED
      BY <3>2, <3>3
  <2>3. ASSUME manager = "memory", Numbers # {} PROVE Served("production") \in blessed
    <3>1. /\ pointer["production"] \in Nat \ {0} /\ pointer["production"] \in blessed
      BY <2>3 DEF PromptInv, PointerIsMeant, Labels
    <3>2. Labelled("production") = {pointer["production"]}
      BY <2>3, <3>1 DEF Labelled
    <3>3. QED
      BY <3>1, <3>2, MaxOfOne DEF Served
  <2>4. QED
    BY <2>2, <2>3 DEF ProductionIsMeant, ServedIsNotOlder, ServedWasMeant
<1>3. QED
  BY <1>1, <1>2, PromptInitially, PTL DEF PromptSpec

-----------------------------------------------------------------------------
(* The run records of the builders' core                                    *)

LEMMA StageNames ==
  /\ Stages = {"queued", "issue_analyzed", "acceptance_defined", "tests_written",
               "implementation_started", "implementation_ready", "quality_checks_passed",
               "blocked", "failed", "completed"}
  /\ EndStages \subseteq Stages
BY DEF Stages, StageGraph, EndStages

LEMMA NextStages ==
  ASSUME NEW s \in Stages, NEW t \in StageGraph[s]
  PROVE  t \in Stages
BY StageNames DEF StageGraph

LEMMA NewestReady == BuildersAssumption /\ Ready # {} => SelectVersion \in Versions
<1> SUFFICES ASSUME BuildersAssumption, Ready # {}
             PROVE  SelectVersion \in Versions
  OBVIOUS
<1> DEFINE Above == { n \in Nat : \A u \in Ready : u <= n }
<1>1. Ready \subseteq Versions /\ Ready \subseteq Nat
  BY DEF Ready, BuildersAssumption
<1>2. PICK b \in Above : TRUE
  BY <1>1 DEF BuildersAssumption
<1>3. PICK m \in Above : \A n \in Above : m <= n
  BY <1>2, LeastNatural
<1>4. m \in Ready
  <2> SUFFICES ASSUME m \notin Ready PROVE FALSE
    OBVIOUS
  <2>1. PICK u \in Ready : TRUE
    OBVIOUS
  <2>2. m > 0 /\ \A v \in Ready : v <= m - 1
    BY <1>1, <2>1
  <2>3. m - 1 \in Above
    BY <2>2
  <2>4. QED
    BY <1>3, <2>3
<1>5. SelectVersion \in Ready
  BY <1>1, <1>3, <1>4 DEF SelectVersion
<1>6. QED
  BY <1>1, <1>5

\* What a record shows of itself.
Sound(r, run) ==
    /\ run \in Run
    /\ StatusMatches(run) /\ Explained(run) /\ RetriesLogged(run) /\ ListedOnce(r, run)

BuildersInv ==
    /\ BuildersTypeOK
    /\ \A r \in Runs : runs[r] # NoRun => Sound(r, runs[r])
    /\ \A r \in Runs : dump[r] # NoRun => Sound(r, dump[r])

\* One more event: it places the run, or the run stays where it is.
LEMMA ExplainedByOneMore ==
  ASSUME NEW run \in Run, NEW new \in Run, NEW e \in Event, Explained(run),
         new.events = Append(run.events, e),
         IF Placing(e) THEN Puts(e) = new.stage ELSE new.stage = run.stage
  PROVE  Explained(new)
<1> DEFINE n == Len(run.events) + 1
<1>1. /\ run.events \in Seq(Event)
      /\ n \in Nat
      /\ DOMAIN run.events = 1 .. (n - 1)
      /\ DOMAIN new.events = 1 .. n
      /\ new.events[n] = e
      /\ \A k \in 1 .. (n - 1) : new.events[k] = run.events[k]
  BY DEF Run
<1> HIDE DEF n
<1>2. CASE Placing(e)
  <2>1. n \in DOMAIN new.events /\ \A l \in DOMAIN new.events : l <= n
    BY <1>1
  <2>2. QED
    BY <1>1, <1>2, <2>1 DEF Explained
<1>3. CASE ~Placing(e)
  <2>1. PICK k \in DOMAIN run.events :
            /\ Placing(run.events[k])
            /\ \A l \in DOMAIN run.events : Placing(run.events[l]) => l <= k
            /\ Puts(run.events[k]) = run.stage
    BY DEF Explained
  <2>2. /\ k \in DOMAIN new.events
        /\ new.events[k] = run.events[k]
    BY <1>1
  <2>3. \A l \in DOMAIN new.events : Placing(new.events[l]) => l <= k
    <3> SUFFICES ASSUME NEW l \in DOMAIN new.events, Placing(new.events[l])
                 PROVE  l <= k
      OBVIOUS
    <3>1. l # n
      BY <1>1, <1>3
    <3>2. l \in 1 .. (n - 1)
      BY <1>1, <3>1
    <3>3. QED
      BY <1>1, <2>1, <3>2
  <2>4. QED
    BY <1>3, <2>1, <2>2, <2>3 DEF Explained
<1>4. QED
  BY <1>2, <1>3

LEMMA EventsGrow ==
  ASSUME NEW run \in Run, NEW e \in Event
  PROVE  Append(run.events, e) \in Seq(Event)
BY DEF Run

\* One more event is counted where it is the event asked for.
LEMMA CountedByOneMore ==
  ASSUME NEW q \in Seq(Event), NEW e \in Event, NEW x
  PROVE  /\ Occurrences(q, x) \in Nat
         /\ Occurrences(Append(q, e), x) = Occurrences(q, x) + (IF e = x THEN 1 ELSE 0)
<1> DEFINE n == Len(q) + 1
           I == { k \in DOMAIN q : q[k] = x }
           J == { k \in DOMAIN Append(q, e) : Append(q, e)[k] = x }
<1>1. I \subseteq 1 .. Len(q) /\ IsFiniteSet(1 .. Len(q))
  BY FS_Interval
<1>2. IsFiniteSet(I) /\ n \notin I
  BY <1>1, FS_Subset
<1>3. J = IF e = x THEN I \cup {n} ELSE I
  OBVIOUS
<1>4. Cardinality(I) \in Nat
  BY <1>2, FS_CardinalityType
<1>5. Cardinality(I \cup {n}) = Cardinality(I) + 1
  BY <1>2, FS_AddElement
<1>6. /\ Occurrences(q, x) = Cardinality(I)
      /\ Occurrences(Append(q, e), x) = Cardinality(J)
  BY DEF Occurrences
<1> HIDE DEF I, J, n
<1>7. CASE e = x
  BY <1>3, <1>4, <1>5, <1>6, <1>7
<1>8. CASE e # x
  BY <1>3, <1>4, <1>6, <1>8
<1>9. QED
  BY <1>7, <1>8

\* A record that gets one more event, no retry, keeps its counts.
LEMMA LoggedByOneMore ==
  ASSUME NEW run \in Run, NEW new \in Run, NEW e \in Event, RetriesLogged(run),
         new.events = Append(run.events, e),
         new.retries = run.retries, e.kind # "retry_scheduled"
  PROVE  RetriesLogged(new)
<1>1. \A s \in Stages : e # RetryEvent(s)
  BY DEF RetryEvent
<1>2. run.events \in Seq(Event)
  BY DEF Run
<1>3. QED
  BY <1>1, <1>2, CountedByOneMore DEF RetriesLogged

LEMMA AdvancedIsSound ==
  ASSUME NEW r, NEW run, Sound(r, run), NEW s \in Stages
  PROVE  Sound(r, Advanced(run, s))
<1>1. PICK e \in Event : e = [kind |-> "stage_advanced", stage |-> s]
  BY DEF Event, EventKinds
<1>2. PICK new : new = Advanced(run, s)
  OBVIOUS
<1>3. StatusAt(s) \in RunStatus
  BY DEF StatusAt, RunStatus
<1>4. PICK events \in Seq(Event) : run \in Run /\ events = Append(run.events, e)
  BY EventsGrow DEF Sound
<1>4a. new = [stage |-> s, status |-> StatusAt(s), version |-> run.version,
              artifacts |-> run.artifacts, events |-> events, retries |-> run.retries]
  BY <1>1, <1>2, <1>4 DEF Advanced, Run
<1>4b. run.artifacts \in [Artifacts -> Nat] /\ run.retries \in [Stages -> Nat]
  BY <1>4 DEF Run
<1>5. /\ new \in Run
      /\ new.stage = s /\ new.status = StatusAt(s)
      /\ new.events = Append(run.events, e)
      /\ new.retries = run.retries /\ new.artifacts = run.artifacts
  <2>1. new \in Run
    BY <1>3, <1>4, <1>4a, <1>4b DEF Run
  <2>2. QED
    BY <1>4, <1>4a, <2>1
<1>6. StatusMatches(new)
  BY <1>5, StageNames DEF StatusMatches, StatusAt, EndStages
<1>7. Placing(e) /\ Puts(e) = s
  BY <1>1 DEF Placing, Puts
<1>8. Explained(new)
  BY <1>4, <1>5, <1>7, ExplainedByOneMore DEF Sound
<1>9. RetriesLogged(new)
  <2>1. e.kind # "retry_scheduled"
    BY <1>1
  <2>2. QED
    BY <1>4, <1>5, <2>1, LoggedByOneMore DEF Sound
<1>10. ListedOnce(r, new)
  BY <1>5 DEF ListedOnce, Sound
<1>11. QED
  BY <1>2, <1>5, <1>6, <1>8, <1>9, <1>10 DEF Sound

LEMMA RetriedIsSound ==
  ASSUME NEW r, NEW run, Sound(r, run)
  PROVE  Sound(r, Retried(run))
<1>0. run \in Run /\ run.stage \in Stages /\ run.retries \in [Stages -> Nat]
  BY DEF Sound, Run
<1>1. PICK e \in Event : e = RetryEvent(run.stage)
  BY <1>0 DEF Event, EventKinds, RetryEvent
<1>2. PICK new : new = Retried(run)
  OBVIOUS
<1>3. PICK counts :
          counts = [run.retries EXCEPT ![run.stage] = run.retries[run.stage] + 1]
  OBVIOUS
<1>3a. /\ counts \in [Stages -> Nat]
       /\ \A s \in Stages : counts[s] = run.retries[s] + (IF s = run.stage THEN 1 ELSE 0)
  BY <1>0, <1>3
<1>3b. PICK events \in Seq(Event) : events = Append(run.events, e)
  BY <1>0, EventsGrow
<1>4. new = [stage |-> run.stage, status |-> "running", version |-> run.version,
             artifacts |-> run.artifacts, events |-> events, retries |-> counts]
  BY <1>0, <1>1, <1>2, <1>3, <1>3b DEF Retried, RetryEvent, Run
<1>4a. run.artifacts \in [Artifacts -> Nat] /\ "running" \in RunStatus
  BY <1>0 DEF Run, RunStatus
<1>5. /\ new \in Run
      /\ new.stage = run.stage /\ new.status = "running"
      /\ new.events = Append(run.events, e)
      /\ new.retries = counts /\ new.artifacts = run.artifacts
  <2>1. new \in Run
    BY <1>0, <1>3a, <1>4, <1>4a DEF Run
  <2>2. QED
    BY <1>3b, <1>4, <2>1
<1>6. StatusMatches(new)
  BY <1>5 DEF StatusMatches
<1>7. ~Placing(e)
  BY <1>1 DEF Placing, RetryEvent
<1>8. Explained(new)
  BY <1>0, <1>5, <1>7, ExplainedByOneMore DEF Sound
<1>9. RetriesLogged(new)
  <2> SUFFICES ASSUME NEW s \in Stages
               PROVE  counts[s] = Occurrences(new.events, RetryEvent(s))
    BY <1>5 DEF RetriesLogged
  <2>1. run.events \in Seq(Event) /\ run.retries[s] = Occurrences(run.events, RetryEvent(s))
    BY <1>0 DEF Run, Sound, RetriesLogged
  <2>2. Occurrences(new.events, RetryEvent(s))
          = run.retries[s] + (IF e = RetryEvent(s) THEN 1 ELSE 0)
    BY <1>5, <2>1, CountedByOneMore
  <2>3. e = RetryEvent(s) <=> s = run.stage
    BY <1>1 DEF RetryEvent
  <2>4. QED
    BY <1>3a, <2>1, <2>2, <2>3
<1>10. ListedOnce(r, new)
  BY <1>5 DEF ListedOnce, Sound
<1>11. QED
  BY <1>2, <1>5, <1>6, <1>8, <1>9, <1>10 DEF Sound

LEMMA RecordedIsSound ==
  ASSUME BuildersAssumption, BuildersTypeOK, NEW res \in results, NEW run, Sound(res.run, run)
  PROVE  Sound(res.run, Recorded(run, res))
<1>0. /\ run \in Run /\ run.stage \in Stages
      /\ run.artifacts \in [Artifacts -> Nat] /\ res.artifacts \in [Artifacts -> Nat]
      /\ res.stage \in Stages /\ res.status \in ResultStatus
  BY DEF Sound, Run, BuildersTypeOK, BuildersAssumption, Result
<1>1. /\ ResultEvent(res) \in Event
      /\ ResultEvent(res).kind = RuntimeKind[res.status]
      /\ ResultEvent(res).kind \in {"runtime_passed", "runtime_failed", "runtime_blocked"}
  BY <1>0 DEF Event, EventKinds, ResultEvent, RuntimeKind, ResultStatus
<1>2. PICK e \in Event : e = ResultEvent(res)
  BY <1>1
<1>3. PICK new : new = Recorded(run, res)
  OBVIOUS
<1>4. PICK stage \in Stages : stage = IF res.status = "passed" THEN run.stage ELSE res.status
  BY <1>0, StageNames DEF ResultStatus, EndStages
<1>5. PICK st \in RunStatus :
          st = IF res.status = "passed" THEN "running" ELSE res.status
  BY <1>0 DEF ResultStatus, RunStatus
<1>6. PICK arts \in [Artifacts -> Nat] : arts = Listed(run, res)
  BY <1>0 DEF Listed
<1>6a. PICK events \in Seq(Event) : events = Append(run.events, e)
  BY <1>0, EventsGrow
<1>7. new = [stage |-> stage, status |-> st, version |-> run.version,
             artifacts |-> arts, events |-> events, retries |-> run.retries]
  BY <1>0, <1>2, <1>3, <1>4, <1>5, <1>6, <1>6a DEF Recorded, Run
<1>7a. run.retries \in [Stages -> Nat]
  BY <1>0 DEF Run
<1>8. /\ new \in Run
      /\ new.stage = stage /\ new.status = st
      /\ new.events = Append(run.events, e)
      /\ new.retries = run.retries /\ new.artifacts = arts
  <2>1. new \in Run
    BY <1>0, <1>7, <1>7a DEF Run
  <2>2. QED
    BY <1>6a, <1>7, <2>1
<1>9. StatusMatches(new)
  BY <1>0, <1>4, <1>5, <1>8 DEF StatusMatches, ResultStatus
<1>10. IF Placing(e) THEN Puts(e) = new.stage ELSE new.stage = run.stage
  BY <1>0, <1>1, <1>2, <1>4, <1>8 DEF Placing, Puts, RuntimeKind, ResultStatus
<1>11. Explained(new)
  BY <1>0, <1>8, <1>10, ExplainedByOneMore DEF Sound
<1>12. RetriesLogged(new)
  BY <1>0, <1>1, <1>2, <1>8, LoggedByOneMore DEF Sound
<1>13. ListedOnce(res.run, new)
  <2> SUFFICES ASSUME NEW a \in Artifacts, arts[a] # 0
               PROVE  \E q \in results : q.run = res.run /\ q.artifacts[a] = arts[a]
    BY <1>8 DEF ListedOnce
  <2>1. CASE run.artifacts[a] = 0
    BY <1>6, <2>1 DEF Listed
  <2>2. CASE run.artifacts[a] # 0
    <3>1. arts[a] = run.artifacts[a]
      BY <1>6, <2>2 DEF Listed
    <3>2. QED
      BY <2>2, <3>1 DEF Sound, ListedOnce
  <2>3. QED
    BY <2>1, <2>2
<1>14. QED
  BY <1>3, <1>8, <1>9, <1>11, <1>12, <1>13 DEF Sound

Created(s, v) ==
    [stage |-> s, status |-> "queued", version |-> v,
     artifacts |-> [a \in Artifacts |-> 0], events |-> <<[kind |-> "run_created", stage |-> s]>>,
     retries |-> [u \in Stages |-> 0]]

LEMMA CreatedIsSound ==
  ASSUME BuildersAssumption, NEW r, NEW s \in InitialStages, NEW v \in Versions
  PROVE  Sound(r, Created(s, v))
<1>0. s \in Stages /\ s \notin EndStages
  BY DEF BuildersAssumption
<1>1. PICK e \in Event : e = [kind |-> "run_created", stage |-> s]
  BY <1>0 DEF Event, EventKinds
<1>2. PICK new : new = Created(s, v)
  OBVIOUS
<1>3. /\ new.stage = s /\ new.status = "queued" /\ new.version = v
      /\ new.artifacts = [a \in Artifacts |-> 0]
      /\ new.events = <<e>>
      /\ new.retries = [u \in Stages |-> 0]
  BY <1>1, <1>2 DEF Created
<1>4. new \in Run
  BY <1>0, <1>1, <1>2 DEF Created, Run, RunStatus
<1>5. StatusMatches(new)
  BY <1>0, <1>3 DEF StatusMatches
<1>6. Explained(new)
  <2>1. 1 \in DOMAIN new.events /\ \A l \in DOMAIN new.events : l <= 1 /\ new.events[1] = e
    BY <1>3
  <2>2. Placing(e) /\ Puts(e) = new.stage
    BY <1>1, <1>3 DEF Placing, Puts
  <2>3. QED
    BY <2>1, <2>2 DEF Explained
<1>7. RetriesLogged(new)
  <2> SUFFICES ASSUME NEW u \in Stages PROVE new.retries[u] = Occurrences(new.events, RetryEvent(u))
    BY DEF RetriesLogged
  <2>1. e # RetryEvent(u)
    BY <1>1 DEF RetryEvent
  <2>2. { k \in DOMAIN new.events : new.events[k] = RetryEvent(u) } = {}
    BY <1>3, <2>1
  <2>3. QED
    BY <1>3, <2>2, FS_EmptySet DEF Occurrences
<1>8. ListedOnce(r, new)
  BY <1>3 DEF ListedOnce
<1>9. QED
  BY <1>2, <1>4, <1>5, <1>6, <1>7, <1>8 DEF Sound

\* Results are never taken back.
LEMMA SoundStays ==
  ASSUME NEW r, NEW run, Sound(r, run), results \subseteq results'
  PROVE  Sound(r, run)'
BY DEF Sound, ListedOnce

LEMMA BuildersInitially == BuildersAssumption /\ BuildersInit => BuildersInv
BY DEF BuildersInit, BuildersInv, BuildersTypeOK, BuildersAssumption

\* One record changes, and stays sound.
LEMMA OneRecordChanges ==
  ASSUME BuildersInv, NEW r \in Runs, NEW new, Sound(r, new),
         runs' = [runs EXCEPT ![r] = new], UNCHANGED <<versions, results, dump>>
  PROVE  BuildersInv'
<1>1. \A q \in Runs : runs'[q] = IF q = r THEN new ELSE runs[q]
  BY DEF BuildersInv, BuildersTypeOK
<1>2. BuildersTypeOK'
  <2>1. new \in Run
    BY DEF Sound
  <2>2. QED
    BY <2>1 DEF BuildersInv, BuildersTypeOK
<1>3. \A q \in Runs : runs'[q] # NoRun => Sound(q, runs'[q])
  BY <1>1 DEF BuildersInv
<1>4. ASSUME NEW q \in Runs, NEW run, Sound(q, run) PROVE Sound(q, run)'
  BY <1>4, SoundStays
<1>5. ASSUME NEW q \in Runs, runs'[q] # NoRun PROVE Sound(q, runs[q])'
  <2>1. PICK run : run = runs'[q]
    OBVIOUS
  <2>2. Sound(q, run)'
    BY <1>3, <1>4, <1>5, <2>1
  <2>3. QED
    BY <2>1, <2>2
<1>6. ASSUME NEW q \in Runs, dump'[q] # NoRun PROVE Sound(q, dump[q])'
  <2>1. PICK run : run = dump'[q]
    OBVIOUS
  <2>2. Sound(q, run)'
    BY <1>4, <1>6, <2>1 DEF BuildersInv
  <2>3. QED
    BY <2>1, <2>2
<1>7. QED
  BY <1>2, <1>5, <1>6 DEF BuildersInv

LEMMA BuildersStepByStep ==
  BuildersAssumption /\ BuildersInv /\ [BuildersNext]_buildersVars => BuildersInv'
<1> SUFFICES ASSUME BuildersAssumption, BuildersInv, [BuildersNext]_buildersVars
             PROVE  BuildersInv'
  OBVIOUS
<1>1. ASSUME NEW r \in Runs, NEW s \in InitialStages, NEW v \in Versions, CreateRun(r, s, v)
      PROVE  BuildersInv'
  <2>1. PICK new : new = Created(s, v) /\ Sound(r, new)
    BY CreatedIsSound
  <2>2. QED
    BY <1>1, <2>1, OneRecordChanges DEF CreateRun, Created
<1>2. ASSUME NEW r \in Runs, NEW s \in Stages, Known(r),
             runs' = [runs EXCEPT ![r] = Advanced(runs[r], s)],
             UNCHANGED <<versions, results, dump>>
      PROVE  BuildersInv'
  <2>1. PICK new : new = Advanced(runs[r], s) /\ Sound(r, new)
    BY <1>2, AdvancedIsSound DEF BuildersInv, Known
  <2>2. QED
    BY <1>2, <2>1, OneRecordChanges
<1>3. ASSUME NEW r \in Runs, ScheduleRetry(r) PROVE BuildersInv'
  <2>1. PICK new : new = Retried(runs[r]) /\ Sound(r, new)
    BY <1>3, RetriedIsSound DEF ScheduleRetry, BuildersInv, Known
  <2>2. QED
    BY <1>3, <2>1, OneRecordChanges DEF ScheduleRetry
<1>4. ASSUME NEW res \in results, Known(res.run)
      PROVE  res.run \in Runs /\ Sound(res.run, Recorded(runs[res.run], res))
  <2>1. BuildersTypeOK /\ res.run \in Runs /\ Sound(res.run, runs[res.run])
    BY <1>4 DEF BuildersInv, BuildersTypeOK, Result, Known
  <2>2. QED
    BY <2>1, RecordedIsSound
<1>5. ASSUME NEW res \in results, NEW same \in BOOLEAN, ApplyResult(res, same)
      PROVE  BuildersInv'
  <2>1. PICK new : new = Recorded(runs[res.run], res) /\ Sound(res.run, new)
    BY <1>4, <1>5 DEF ApplyResult
  <2>2. QED
    BY <1>4, <1>5, <2>1, OneRecordChanges DEF ApplyResult
<1>6. ASSUME NEW res \in results, NEW same \in BOOLEAN, NEW s \in Stages,
             ApplyAndAdvance(res, s, same)
      PROVE  BuildersInv'
  <2>1. PICK run : run = Recorded(runs[res.run], res) /\ Sound(res.run, run)
    BY <1>4, <1>6 DEF ApplyAndAdvance
  <2>2. PICK new : /\ new = IF s \in StageGraph[run.stage] THEN Advanced(run, s) ELSE run
                   /\ Sound(res.run, new)
    BY <2>1, AdvancedIsSound
  <2>3. QED
    BY <1>4, <1>6, <2>1, <2>2, OneRecordChanges DEF ApplyAndAdvance
<1>7. ASSUME results \subseteq results', BuildersTypeOK', dump' \in {dump, runs},
             runs' \in {runs, dump}
      PROVE  BuildersInv'
  <2>1. ASSUME NEW r \in Runs, NEW run, Sound(r, run) PROVE Sound(r, run)'
    BY <1>7, <2>1, SoundStays
  <2>2. ASSUME NEW r \in Runs, runs'[r] # NoRun PROVE Sound(r, runs[r])'
    <3>1. PICK run : run = runs'[r]
      OBVIOUS
    <3>2. Sound(r, run)'
      BY <1>7, <2>1, <2>2, <3>1 DEF BuildersInv
    <3>3. QED
      BY <3>1, <3>2
  <2>3. ASSUME NEW r \in Runs, dump'[r] # NoRun PROVE Sound(r, dump[r])'
    <3>1. PICK run : run = dump'[r]
      OBVIOUS
    <3>2. Sound(r, run)'
      BY <1>7, <2>1, <2>3, <3>1 DEF BuildersInv
    <3>3. QED
      BY <3>1, <3>2
  <2>4. QED
    BY <1>7, <2>2, <2>3 DEF BuildersInv
<1>8. ASSUME NEW v \in Versions, NEW st \in {"ready", "draining", "retired"}, SetVersion(v, st)
      PROVE  BuildersInv'
  <2>1. BuildersTypeOK'
    BY <1>8 DEF SetVersion, BuildersInv, BuildersTypeOK
  <2>2. QED
    BY <1>7, <1>8, <2>1 DEF SetVersion
<1>9. ASSUME NEW r \in Runs, NEW st \in ResultStatus, NEW arts \in Listings, Execute(r, st, arts)
      PROVE  BuildersInv'
  <2>1. runs[r].stage \in Stages
    BY <1>9 DEF Execute, Known, BuildersInv, Sound, Run
  <2>2. [run |-> r, stage |-> runs[r].stage, status |-> st, artifacts |-> arts] \in Result
    BY <2>1 DEF Result
  <2>3. BuildersTypeOK'
    BY <1>9, <2>2 DEF Execute, BuildersInv, BuildersTypeOK
  <2>4. QED
    BY <1>7, <1>9, <2>3 DEF Execute
<1>10. CASE DumpRuns \/ Restart
  <2>1. BuildersTypeOK'
    BY <1>10 DEF DumpRuns, Restart, BuildersInv, BuildersTypeOK
  <2>2. QED
    BY <1>7, <1>10, <2>1 DEF DumpRuns, Restart
<1>11. CASE UNCHANGED buildersVars
  <2>1. BuildersTypeOK'
    BY <1>11 DEF buildersVars, BuildersInv, BuildersTypeOK
  <2>2. QED
    BY <1>7, <1>11, <2>1 DEF buildersVars
<1>12. CASE CoreStep
  <2>1. ASSUME NEW r \in Runs, NEW s \in InitialStages, Ready # {}, CreateRun(r, s, SelectVersion)
        PROVE  BuildersInv'
    BY <1>1, <2>1, NewestReady
  <2>2. ASSUME NEW r \in Runs, NEW s \in Stages, AdvanceStage(r, s) PROVE BuildersInv'
    BY <1>2, <2>2 DEF AdvanceStage
  <2>3. ASSUME NEW r \in Runs, NEW gates \in BOOLEAN, CompleteIfReady(r, gates)
        PROVE  BuildersInv'
    BY <1>2, <2>3, StageNames DEF CompleteIfReady
  <2>4. QED
    BY <1>1, <1>3, <1>5, <1>6, <1>8, <1>12, <2>1, <2>2, <2>3 DEF CoreStep
<1>13. QED
  BY <1>9, <1>10, <1>11, <1>12 DEF BuildersNext

LEMMA BuildersAlways == BuildersSpec => []BuildersInv
BY BuildersAssumption, BuildersInitially, BuildersStepByStep, PTL DEF BuildersSpec

\* Whatever results come late, twice or never and whenever the core restarts, the stage, the
\* status, the events, the retries and the artifacts of a run tell one story
\* (builders/orchestrator.py).
THEOREM RecordsAlwaysAgree == BuildersSpec => []RecordsAgree
<1>1. BuildersInv => RecordsAgree
  BY DEF BuildersInv, RecordsAgree, Sound, Known, StatusMatchesStage, EventsExplainStage,
         RetriesAreLogged, RedeliveryAddsNoArtifact
<1>2. QED
  BY <1>1, BuildersAlways, PTL

-----------------------------------------------------------------------------
(* The fleet                                                                *)

AgentTiers == {"none", "t0", "t1", "t2", "t3", "t4", "skull"}
Provenances == {"builtin", "admin", "user"}

LEMMA PromotionOfUsers ==
  ASSUME NEW t \in AgentTiers
  PROVE  /\ t \in DOMAIN Promotion["user"] <=> t \in {"t3", "t4"}
         /\ t = "t4" => Promotion["user"][t] = "t3"
         /\ t = "t3" => Promotion["user"][t] = "t2"
BY DEF Promotion, AgentTiers

LEMMA PromotionGivesTiers ==
  ASSUME NEW p \in Provenances, NEW t \in AgentTiers, t \in DOMAIN Promotion[p]
  PROVE  Promotion[p][t] \in AgentTiers
<1>1. Promotion["builtin"] = [x \in {} |-> x]
  BY DEF Promotion
<1>2. Promotion["admin"] = [t2 |-> "t1"]
  BY DEF Promotion
<1>3. CASE p = "builtin"
  BY <1>1, <1>3
<1>4. CASE p = "admin"
  BY <1>2, <1>4 DEF AgentTiers
<1>5. CASE p = "user"
  BY <1>5, PromotionOfUsers DEF AgentTiers
<1>6. QED
  BY <1>3, <1>4, <1>5 DEF Provenances

FleetTypeOK ==
    /\ live \in [soul : Souls \cup {"none", "seed"}, tier : AgentTiers]
    /\ row \in [tier : AgentTiers, provenance : Provenances \cup {"none"}, reviewed : BOOLEAN,
                clean : BOOLEAN, soul : {"none", "seed"}]
    /\ creator \in [Creators -> [at : {"idle", "upsert", "insert"}, soul : Souls \cup {"none"},
                                 who : {"none", "admin", "user", "import"}]]
    /\ review \in [Reviewers -> [at : {"idle", "scanned", "decided", "updated"},
                                 kind : {"none", "ai", "admin"}, clean : BOOLEAN,
                                 tier : AgentTiers]]
    /\ creations \in Nat

\* A row has somebody who asked for it, and without one nothing was passed.
RowIsWhole ==
    /\ row = NoRow => evidence = {}
    /\ row # NoRow => row.provenance \in Provenances

\* As long as there was one creation at most, it is under way or it left its row.
Own(c) == creator[c].at # "idle" /\ creator[c].who # "import"
OneCreation ==
    /\ \A c \in Creators : creator[c].at = "idle" \/ creator[c].who # "none"
    /\ \A c \in Creators : creator[c].at = "insert" => creator[c].who # "import"
    /\ creations = 0 => row = NoRow /\ \A c \in Creators : ~Own(c)
    /\ creations = 1 => \A c \in Creators : Own(c) =>
                           row = NoRow /\ \A d \in Creators : Own(d) => d = c

\* Nobody but one user asked for the name, imports aside.
ByUser ==
    \/ creations = 0
    \/ /\ creations = 1
       /\ row.provenance = "user" \/ \E c \in Creators : Own(c) /\ creator[c].who = "user"

Earned(tier, reviewed) ==
    /\ tier \in {"t4", "t3", "t2"}
    /\ tier # "t4" => "ai" \in reviewed
    /\ tier = "t2" => "admin" \in reviewed

\* What will have been passed once the review has written its row.
Passing(r) == IF review[r].clean THEN evidence \cup {review[r].kind} ELSE evidence

\* The tier of a user's agent is earned wherever it is found: in the row, in the
\* live agent a review may start from, and in the reviews that are under way.
TiersAreEarned == ByUser =>
    /\ row # NoRow => Earned(row.tier, evidence) /\ (row.clean => "ai" \in evidence)
    /\ live # NoAgent => Earned(live.tier, evidence)
    /\ \A r \in Reviewers :
          /\ review[r].at = "scanned" => review[r].kind = "ai" /\ Earned(review[r].tier, evidence)
          /\ review[r].at = "decided" =>
                review[r].kind \in {"ai", "admin"} /\ Earned(review[r].tier, Passing(r))

FleetInv == FleetTypeOK /\ RowIsWhole /\ OneCreation /\ TiersAreEarned /\ TierIsAudited

LEMMA FleetInitially == FleetInit => FleetInv
<1> SUFFICES ASSUME FleetInit PROVE FleetInv
  OBVIOUS
<1>1. FleetTypeOK
  <2>1. /\ creator \in [Creators -> [at : {"idle", "upsert", "insert"}, soul : Souls \cup {"none"},
                                    who : {"none", "admin", "user", "import"}]]
        /\ review \in [Reviewers -> [at : {"idle", "scanned", "decided", "updated"},
                                    kind : {"none", "ai", "admin"}, clean : BOOLEAN,
                                    tier : AgentTiers]]
        /\ creations \in Nat
    BY DEF FleetInit, Resting, NoReview, AgentTiers
  <2>2. /\ live \in [soul : Souls \cup {"none", "seed"}, tier : AgentTiers]
        /\ row \in [tier : AgentTiers, provenance : Provenances \cup {"none"}, reviewed : BOOLEAN,
                    clean : BOOLEAN, soul : {"none", "seed"}]
    <3>1. CASE live = NoAgent /\ row = NoRow
      BY <3>1 DEF NoAgent, NoRow, AgentTiers
    <3>2. CASE /\ live = [soul |-> "none", tier |-> "t0"]
               /\ row = [tier |-> "t0", provenance |-> "builtin", reviewed |-> TRUE,
                         clean |-> TRUE, soul |-> "seed"]
      BY <3>2 DEF AgentTiers, Provenances
    <3>3. QED
      BY <3>1, <3>2 DEF FleetInit
  <2>3. QED
    BY <2>1, <2>2 DEF FleetTypeOK
<1>2. RowIsWhole
  BY DEF FleetInit, RowIsWhole, NoRow, Provenances
<1>3. OneCreation
  BY DEF FleetInit, OneCreation, Own, NoRow, Resting
<1>4. TiersAreEarned
  BY DEF FleetInit, TiersAreEarned, ByUser, Own, Resting, NoReview, NoRow
<1>5. TierIsAudited
  BY DEF FleetInit, TierIsAudited
<1>6. QED
  BY <1>1, <1>2, <1>3, <1>4, <1>5 DEF FleetInv

\* More is earned by having passed more.
LEMMA EarnedStays ==
  ASSUME NEW tier, NEW p, NEW q, p \subseteq q, Earned(tier, p)
  PROVE  Earned(tier, q)
BY DEF Earned

LEMMA BeginCreateKeeps ==
  ASSUME FleetInv, NEW c \in Creators, NEW who \in {"admin", "user", "import"}, NEW s \in Souls,
         BeginCreate(c, who, s)
  PROVE  FleetInv'
<1> DEFINE begun == [at |-> "upsert", who |-> who, soul |-> s]
<1>1. /\ creator' = [creator EXCEPT ![c] = begun]
      /\ begun.at = "upsert" /\ begun.who = who
      /\ begun \in [at : {"idle", "upsert", "insert"}, soul : Souls \cup {"none"},
                    who : {"none", "admin", "user", "import"}]
  BY DEF BeginCreate
<1> HIDE DEF begun
<1>2. /\ live' = live /\ row' = row /\ review' = review /\ evidence' = evidence
      /\ trail' = trail /\ torn' = torn /\ live = NoAgent
      /\ creations' = IF who = "import" THEN creations ELSE creations + 1
      /\ creator[c].at = "idle"
  BY DEF BeginCreate, Resting
<1>3. FleetTypeOK'
  BY <1>1, <1>2 DEF FleetInv, FleetTypeOK
<1>4. /\ creator'[c] = begun
      /\ \A d \in Creators : d # c => creator'[d] = creator[d]
      /\ creations \in Nat
  BY <1>1 DEF FleetInv, FleetTypeOK
<1>5. OneCreation'
  BY <1>1, <1>2, <1>4 DEF FleetInv, OneCreation, Own
<1>6. ByUser' => ByUser
  BY <1>1, <1>2, <1>4 DEF ByUser, Own
<1>7. TiersAreEarned'
  BY <1>2, <1>6 DEF FleetInv, TiersAreEarned, Passing
<1>8. RowIsWhole' /\ TierIsAudited'
  BY <1>2 DEF FleetInv, RowIsWhole, TierIsAudited
<1>9. QED
  BY <1>3, <1>5, <1>7, <1>8 DEF FleetInv

LEMMA RegisterKeeps ==
  ASSUME FleetInv, NEW c \in Creators, Register(c)
  PROVE  FleetInv'
<1>1. PICK after : /\ creator' = [creator EXCEPT ![c] = after]
                   /\ after.at = IF creator[c].who = "import" THEN "idle" ELSE "insert"
                   /\ creator[c].who # "import" => after.who = creator[c].who
                   /\ after \in [at : {"idle", "upsert", "insert"}, soul : Souls \cup {"none"},
                                 who : {"none", "admin", "user", "import"}]
  <2>1. CASE creator[c].who = "import"
    <3>1. creator' = [creator EXCEPT ![c] = Resting]
      BY <2>1 DEF FleetInv, FleetTypeOK, Register
    <3>2. QED
      <4>1. /\ Resting.at = "idle"
            /\ Resting \in [at : {"idle", "upsert", "insert"}, soul : Souls \cup {"none"},
                            who : {"none", "admin", "user", "import"}]
        BY DEF Resting
      <4>2. QED
        BY <2>1, <3>1, <4>1
  <2>2. CASE creator[c].who # "import"
    <3>1. creator' = [creator EXCEPT ![c] = [creator[c] EXCEPT !.at = "insert"]]
      BY <2>2 DEF FleetInv, FleetTypeOK, Register
    <3>2. PICK a \in [at : {"idle", "upsert", "insert"}, soul : Souls \cup {"none"},
                     who : {"none", "admin", "user", "import"}] : a = creator[c]
      BY DEF FleetInv, FleetTypeOK
    <3>3. /\ [a EXCEPT !.at = "insert"].at = "insert" /\ [a EXCEPT !.at = "insert"].who = a.who
          /\ [a EXCEPT !.at = "insert"] \in
               [at : {"idle", "upsert", "insert"}, soul : Souls \cup {"none"},
                who : {"none", "admin", "user", "import"}]
      OBVIOUS
    <3>4. QED
      BY <2>2, <3>1, <3>2, <3>3
  <2>3. QED
    BY <2>1, <2>2
<1>2. /\ row' = row /\ review' = review /\ evidence' = evidence
      /\ trail' = trail /\ torn' = torn /\ creations' = creations
      /\ live' = [soul |-> creator[c].soul, tier |-> StartingTier(creator[c].who)]
      /\ creator[c].at = "upsert"
  BY DEF Register
<1>3. FleetTypeOK'
  BY <1>1, <1>2 DEF FleetInv, FleetTypeOK, StartingTier, AgentTiers
<1>4. /\ creator'[c] = after
      /\ \A d \in Creators : d # c => creator'[d] = creator[d]
  BY <1>1 DEF FleetInv, FleetTypeOK
<1>5. \A d \in Creators : Own(d)' <=> Own(d)
  BY <1>1, <1>2, <1>4 DEF Own, FleetInv, OneCreation
<1>6. OneCreation'
  BY <1>1, <1>2, <1>4, <1>5 DEF FleetInv, OneCreation
<1>7. ByUser' => ByUser /\ creator[c].who \in {"user", "import"}
  <2> SUFFICES ASSUME ByUser' PROVE ByUser /\ creator[c].who \in {"user", "import"}
    OBVIOUS
  <2>1. \A d \in Creators : Own(d) => creator'[d].who = creator[d].who
    BY <1>1, <1>4 DEF Own
  <2>2. ByUser
    BY <1>2, <1>5, <2>1 DEF ByUser
  <2>3. creator[c].who \in {"admin", "user", "import"}
    BY <1>2 DEF FleetInv, FleetTypeOK, OneCreation
  <2>4. CASE creator[c].who = "admin"
    <3>1. Own(c)
      BY <1>2, <2>4 DEF Own
    <3>2. row = NoRow /\ \A d \in Creators : Own(d) => d = c
      BY <2>2, <3>1 DEF FleetInv, OneCreation, ByUser
    <3>3. QED
      BY <2>2, <2>4, <3>1, <3>2 DEF ByUser, FleetInv, OneCreation, NoRow
  <2>5. QED
    BY <2>2, <2>3, <2>4
<1>8. ByUser' => Earned(live'.tier, evidence)
  BY <1>2, <1>7 DEF StartingTier, Earned
<1>9. TiersAreEarned'
  BY <1>2, <1>7, <1>8 DEF FleetInv, TiersAreEarned, Passing
<1>10. RowIsWhole' /\ TierIsAudited'
  BY <1>2 DEF FleetInv, RowIsWhole, TierIsAudited
<1>11. QED
  BY <1>3, <1>6, <1>9, <1>10 DEF FleetInv

LEMMA InsertRowKeeps ==
  ASSUME FleetInv, NEW c \in Creators, InsertRow(c)
  PROVE  FleetInv'
<1>1. /\ live' = live /\ review' = review /\ torn' = torn /\ creations' = creations
      /\ creator' = [creator EXCEPT ![c] = Resting] /\ creator[c].at = "insert"
      /\ evidence' = {} /\ trail' = trail \cup {row'.tier}
      /\ row' = [row EXCEPT !.tier = StartingTier(creator[c].who),
                           !.provenance = creator[c].who]
  BY DEF InsertRow
<1>2. creator[c].who \in {"admin", "user"} /\ Own(c)
  BY <1>1 DEF FleetInv, FleetTypeOK, OneCreation, Own
<1>3. /\ row'.tier = StartingTier(creator[c].who) /\ row'.provenance = creator[c].who
      /\ row'.clean = row.clean /\ row' # NoRow
  BY <1>1, <1>2 DEF FleetInv, FleetTypeOK, NoRow
<1>4. FleetTypeOK'
  <2>1. StartingTier(creator[c].who) \in AgentTiers /\ creator[c].who \in Provenances
    BY <1>2 DEF StartingTier, AgentTiers, Provenances
  <2>2. row' \in [tier : AgentTiers, provenance : Provenances \cup {"none"}, reviewed : BOOLEAN,
                  clean : BOOLEAN, soul : {"none", "seed"}]
    BY <1>1, <2>1 DEF FleetInv, FleetTypeOK
  <2>3. QED
    BY <1>1, <2>2 DEF FleetInv, FleetTypeOK, Resting
<1>5. /\ creator'[c] = Resting /\ Resting.at = "idle"
      /\ \A d \in Creators : d # c => creator'[d] = creator[d]
  BY <1>1 DEF FleetInv, FleetTypeOK, Resting
<1>6. OneCreation'
  BY <1>1, <1>2, <1>5 DEF FleetInv, OneCreation, Own
<1>7. ByUser' => ByUser /\ creator[c].who = "user" /\ row = NoRow
  <2> SUFFICES ASSUME ByUser' PROVE ByUser /\ creator[c].who = "user" /\ row = NoRow
    OBVIOUS
  <2>1. creations = 1
    BY <1>1, <1>2 DEF ByUser, FleetInv, OneCreation
  <2>2. row = NoRow /\ \A d \in Creators : Own(d) => d = c
    BY <1>2, <2>1 DEF FleetInv, OneCreation
  <2>3. \A d \in Creators : ~Own(d)'
    BY <1>5, <2>2 DEF Own
  <2>4. row'.provenance = "user"
    BY <1>1, <2>1, <2>3 DEF ByUser
  <2>5. QED
    BY <1>2, <1>3, <2>1, <2>2, <2>4 DEF ByUser
<1>8. TiersAreEarned'
  <2> SUFFICES ASSUME ByUser' PROVE TiersAreEarned'
    BY DEF TiersAreEarned
  <2>1. ByUser /\ row'.tier = "t4" /\ evidence' = evidence /\ row'.clean = FALSE
    BY <1>1, <1>3, <1>7 DEF StartingTier, FleetInv, RowIsWhole, NoRow
  <2>2. QED
    BY <1>1, <2>1 DEF FleetInv, TiersAreEarned, Earned, Passing
<1>9. RowIsWhole' /\ TierIsAudited'
  BY <1>1, <1>2, <1>3 DEF RowIsWhole, TierIsAudited, Provenances
<1>10. QED
  BY <1>4, <1>6, <1>8, <1>9 DEF FleetInv

\* What ends a creation, or changes the live agent but not its tier.
LEMMA FleetAloneKeeps ==
  ASSUME FleetInv, (\E c \in Creators : RowFails(c)) \/ (\E s \in Souls : Update(s)) \/ Delete
  PROVE  FleetInv'
<1>1. /\ row' = row /\ review' = review /\ evidence' = evidence /\ trail' = trail /\ torn' = torn
      /\ creations' = creations
      /\ live' = NoAgent \/ live'.tier = live.tier
      /\ live' # NoAgent => live # NoAgent
      /\ \A d \in Creators : creator'[d] = creator[d] \/ creator'[d] = Resting
  BY DEF RowFails, Update, Delete, FleetInv, FleetTypeOK
<1>2. FleetTypeOK'
  BY DEF FleetInv, FleetTypeOK, RowFails, Update, Delete, Resting, NoAgent, AgentTiers
<1>3. \A d \in Creators : Own(d)' => Own(d) /\ creator'[d] = creator[d]
  BY <1>1 DEF Own, Resting
<1>4. OneCreation'
  BY <1>1, <1>3 DEF FleetInv, OneCreation, Resting
<1>5. ByUser' => ByUser
  BY <1>1, <1>3 DEF ByUser
<1>6. TiersAreEarned'
  BY <1>1, <1>5 DEF FleetInv, TiersAreEarned, Passing
<1>7. RowIsWhole' /\ TierIsAudited'
  BY <1>1 DEF FleetInv, RowIsWhole, TierIsAudited
<1>8. QED
  BY <1>2, <1>4, <1>6, <1>7 DEF FleetInv

-----------------------------------------------------------------------------
(* Reviews                                                                  *)

FleetReview == [at : {"idle", "scanned", "decided", "updated"}, kind : {"none", "ai", "admin"},
                clean : BOOLEAN, tier : AgentTiers]

\* A review that begins, or goes on to its decision, writes no row.
LEMMA ReviewBegins ==
  ASSUME FleetInv, NEW r \in Reviewers, NEW v \in FleetReview,
         review' = [review EXCEPT ![r] = v], review[r].at # "updated",
         UNCHANGED <<live, row, creator, evidence, trail, torn, creations>>,
         v.at \in {"scanned", "decided"},
         ByUser /\ v.at = "scanned" => v.kind = "ai" /\ Earned(v.tier, evidence),
         ByUser /\ v.at = "decided" =>
             /\ v.kind \in {"ai", "admin"}
             /\ Earned(v.tier, IF v.clean THEN evidence \cup {v.kind} ELSE evidence)
  PROVE  FleetInv'
<1>1. /\ review'[r] = v
      /\ \A q \in Reviewers : q # r => review'[q] = review[q]
  BY DEF FleetInv, FleetTypeOK
<1>2. FleetTypeOK'
  BY DEF FleetInv, FleetTypeOK, FleetReview
<1>3. RowIsWhole' /\ OneCreation' /\ (ByUser' <=> ByUser)
  BY DEF FleetInv, RowIsWhole, OneCreation, ByUser, Own
<1>4. TierIsAudited'
  BY <1>1 DEF FleetInv, TierIsAudited
<1>5. TiersAreEarned'
  BY <1>1, <1>3 DEF FleetInv, TiersAreEarned, Passing
<1>6. QED
  BY <1>2, <1>3, <1>4, <1>5 DEF FleetInv

\* With a row the only one who asked for the name has it.
LEMMA RowOfUser ==
  ASSUME FleetInv, ByUser, row # NoRow
  PROVE  row.provenance = "user"
BY DEF FleetInv, OneCreation, ByUser

LEMMA ReadForAiReviewKeeps ==
  ASSUME FleetInv, NEW r \in Reviewers, ReadForAiReview(r)
  PROVE  FleetInv'
<1>1. PICK old \in FleetReview : old = review[r]
  BY DEF FleetInv, FleetTypeOK, FleetReview
<1>2. PICK found : found = Read(old.tier)
  OBVIOUS
<1>3. PICK tier : tier = IF old.clean /\ Promotes("ai", found)
                         THEN Promotion[found.provenance][found.tier] ELSE found.tier
  OBVIOUS
<1>4. /\ review' = [review EXCEPT ![r].at = "decided", ![r].tier = tier]
      /\ old.at = "scanned"
      /\ UNCHANGED <<live, row, creator, evidence, trail, torn, creations>>
  BY <1>1, <1>2, <1>3 DEF ReadForAiReview
<1>5. /\ found.tier \in AgentTiers /\ found.provenance \in Provenances
      /\ found.tier = IF row = NoRow THEN old.tier ELSE row.tier
      /\ found.provenance = IF row = NoRow THEN "user" ELSE row.provenance
  BY <1>1, <1>2 DEF Read, FleetInv, FleetTypeOK, RowIsWhole, FleetReview, Provenances
<1>6. tier \in AgentTiers
  BY <1>3, <1>5, PromotionGivesTiers DEF Promotes
<1> DEFINE v == [old EXCEPT !.at = "decided", !.tier = tier]
<1>7. /\ v \in FleetReview /\ v.at = "decided" /\ v.tier = tier /\ v.kind = old.kind
      /\ v.clean = old.clean /\ review' = [review EXCEPT ![r] = v]
  BY <1>1, <1>4, <1>6 DEF FleetReview, FleetInv, FleetTypeOK
<1> HIDE DEF v
<1>8. ByUser => v.kind = "ai" /\ Earned(tier, IF v.clean THEN evidence \cup {"ai"} ELSE evidence)
  <2> SUFFICES ASSUME ByUser PROVE v.kind = "ai" /\ Earned(tier, IF v.clean THEN evidence \cup {"ai"}
                                                                 ELSE evidence)
    OBVIOUS
  <2>1. old.kind = "ai" /\ Earned(old.tier, evidence)
    BY <1>1, <1>4 DEF FleetInv, TiersAreEarned
  <2>2. Earned(found.tier, evidence) /\ found.provenance = "user"
    BY <1>5, <2>1, RowOfUser DEF FleetInv, TiersAreEarned
  <2>3. old.clean /\ Promotes("ai", found) => tier = "t3"
    BY <1>3, <1>5, <2>2, PromotionOfUsers DEF Promotes
  <2>4. ~(old.clean /\ Promotes("ai", found)) => tier = found.tier
    BY <1>3
  <2>5. QED
    BY <1>7, <2>1, <2>2, <2>3, <2>4 DEF Earned
<1>9. QED
  BY <1>1, <1>4, <1>7, <1>8, ReviewBegins

LEMMA BeginReviewKeeps ==
  ASSUME FleetInv, NEW r \in Reviewers,
         BeginAdminReview(r) \/ \E clean \in BOOLEAN : BeginAiReview(r, clean)
  PROVE  FleetInv'
<1>1. CASE \E clean \in BOOLEAN : BeginAiReview(r, clean)
  <2>1. PICK clean \in BOOLEAN : BeginAiReview(r, clean)
    BY <1>1
  <2> DEFINE v == [at |-> "scanned", kind |-> "ai", clean |-> clean, tier |-> live.tier]
  <2>2. /\ v \in FleetReview /\ v.at = "scanned" /\ v.kind = "ai" /\ v.tier = live.tier
        /\ review' = [review EXCEPT ![r] = v] /\ review[r].at # "updated" /\ live # NoAgent
        /\ UNCHANGED <<live, row, creator, evidence, trail, torn, creations>>
    BY <2>1 DEF BeginAiReview, NoReview, FleetReview, FleetInv, FleetTypeOK
  <2> HIDE DEF v
  <2>3. ByUser => Earned(v.tier, evidence)
    BY <2>2 DEF FleetInv, TiersAreEarned
  <2>4. QED
    BY <2>2, <2>3, ReviewBegins
<1>2. CASE BeginAdminReview(r)
  <2>1. row # NoRow /\ row.clean
    BY <1>2 DEF BeginAdminReview, AiPassed, NoRow
  <2>2. row.provenance \in Provenances /\ row.tier \in AgentTiers
        /\ row.tier \in DOMAIN Promotion[row.provenance]
    BY <1>2, <2>1 DEF BeginAdminReview, Promotes, Read, FleetInv, FleetTypeOK, RowIsWhole
  <2>3. PICK tier \in AgentTiers : tier = Promotion[row.provenance][row.tier]
    BY <2>2, PromotionGivesTiers
  <2> DEFINE v == [at |-> "decided", kind |-> "admin", clean |-> TRUE, tier |-> tier]
  <2>4. /\ v \in FleetReview /\ v.at = "decided" /\ v.kind = "admin" /\ v.tier = tier /\ v.clean
        /\ review' = [review EXCEPT ![r] = v] /\ review[r].at # "updated"
        /\ UNCHANGED <<live, row, creator, evidence, trail, torn, creations>>
    BY <1>2, <2>3 DEF BeginAdminReview, NoReview, FleetReview
  <2> HIDE DEF v
  <2>5. ByUser => Earned(tier, evidence \cup {"admin"})
    <3> SUFFICES ASSUME ByUser PROVE Earned(tier, evidence \cup {"admin"})
      OBVIOUS
    <3>1. row.provenance = "user"
      BY <2>1, RowOfUser
    <3>2. (row.tier = "t4" /\ tier = "t3") \/ (row.tier = "t3" /\ tier = "t2")
      <4>1. row.tier \in DOMAIN Promotion["user"] /\ tier = Promotion["user"][row.tier]
        BY <2>2, <2>3, <3>1
      <4>2. row.tier \in {"t3", "t4"}
        BY <2>2, <4>1, PromotionOfUsers
      <4>3. QED
        BY <2>2, <4>1, <4>2, PromotionOfUsers
    <3>3. "ai" \in evidence
      BY <2>1 DEF FleetInv, TiersAreEarned
    <3>4. QED
      BY <3>2, <3>3 DEF Earned
  <2>6. QED
    BY <2>4, <2>5, ReviewBegins
<1>3. QED
  BY <1>1, <1>2

LEMMA UpdateRowKeeps ==
  ASSUME FleetInv, NEW r \in Reviewers, UpdateRow(r)
  PROVE  FleetInv'
<1>1. /\ review' = [review EXCEPT ![r].at = "updated"] /\ review[r].at = "decided"
      /\ UNCHANGED <<live, creator, trail, torn, creations>>
  BY DEF UpdateRow
<1>2. /\ \A q \in Reviewers : /\ review'[q].kind = review[q].kind /\ review'[q].tier = review[q].tier
                              /\ review'[q].clean = review[q].clean
                              /\ q # r => review'[q] = review[q]
      /\ review'[r].at = "updated"
  BY <1>1 DEF FleetInv, FleetTypeOK
<1>3. review[r].tier \in AgentTiers /\ review[r].clean \in BOOLEAN
  BY DEF FleetInv, FleetTypeOK
<1>4. CASE row = NoRow
  <2>1. row' = row /\ evidence' = evidence
    BY <1>4 DEF UpdateRow
  <2>2. FleetTypeOK'
    BY <1>1, <2>1 DEF FleetInv, FleetTypeOK
  <2>3. RowIsWhole' /\ OneCreation' /\ (ByUser' => ByUser) /\ TierIsAudited'
    BY <1>1, <1>4, <2>1 DEF FleetInv, RowIsWhole, OneCreation, ByUser, Own, TierIsAudited
  <2>4. TiersAreEarned'
    BY <1>1, <1>2, <2>1, <2>3 DEF FleetInv, TiersAreEarned, Passing
  <2>5. QED
    BY <2>2, <2>3, <2>4 DEF FleetInv
<1>5. CASE row # NoRow
  <2> DEFINE clean == IF review[r].kind = "ai" THEN review[r].clean ELSE row.clean
  <2>1. /\ row' = [row EXCEPT !.tier = review[r].tier, !.reviewed = TRUE, !.clean = clean]
        /\ evidence' = Passing(r)
        /\ clean \in BOOLEAN
    BY <1>3, <1>5 DEF UpdateRow, FleetInv, FleetTypeOK, Passing
  <2> HIDE DEF clean
  <2>2. /\ row'.tier = review[r].tier /\ row'.provenance = row.provenance /\ row'.clean = clean
        /\ row' # NoRow
    BY <1>5, <2>1 DEF FleetInv, FleetTypeOK, RowIsWhole, Provenances, NoRow
  <2>3. FleetTypeOK'
    <3>1. row' \in [tier : AgentTiers, provenance : Provenances \cup {"none"}, reviewed : BOOLEAN,
                    clean : BOOLEAN, soul : {"none", "seed"}]
      BY <1>3, <2>1 DEF FleetInv, FleetTypeOK
    <3>2. QED
      BY <1>1, <3>1 DEF FleetInv, FleetTypeOK
  <2>4. RowIsWhole'
    BY <1>5, <2>2 DEF FleetInv, RowIsWhole
  <2>5. OneCreation'
    BY <1>1, <1>5 DEF FleetInv, OneCreation, Own
  <2>6. TierIsAudited'
    BY <1>2, <2>2 DEF TierIsAudited
  <2>7. ByUser' => ByUser
    BY <1>1, <2>2 DEF ByUser, Own
  <2>8. TiersAreEarned'
    <3> SUFFICES ASSUME ByUser' PROVE TiersAreEarned'
      BY DEF TiersAreEarned
    <3>1. evidence \subseteq evidence' /\ \A q \in Reviewers : Passing(q) \subseteq Passing(q)'
      BY <1>2, <2>1 DEF Passing
    <3>2. Earned(row'.tier, evidence') /\ review[r].kind \in {"ai", "admin"}
      BY <1>1, <2>1, <2>2, <2>7 DEF FleetInv, TiersAreEarned
    <3>3. row'.clean => "ai" \in evidence'
      BY <1>5, <2>1, <2>2, <2>7, <3>1, <3>2 DEF FleetInv, TiersAreEarned, Passing, clean
    <3>4. live' # NoAgent => Earned(live'.tier, evidence')
      BY <1>1, <2>7, <3>1, EarnedStays DEF FleetInv, TiersAreEarned
    <3>5. ASSUME NEW q \in Reviewers
          PROVE  /\ review'[q].at = "scanned" =>
                       review'[q].kind = "ai" /\ Earned(review'[q].tier, evidence')
                 /\ review'[q].at = "decided" =>
                       review'[q].kind \in {"ai", "admin"} /\ Earned(review'[q].tier, Passing(q)')
      BY <1>2, <2>7, <3>1, EarnedStays DEF FleetInv, TiersAreEarned
    <3>6. QED
      BY <3>2, <3>3, <3>4, <3>5 DEF TiersAreEarned
  <2>9. QED
    BY <2>3, <2>4, <2>5, <2>6, <2>8 DEF FleetInv
<1>6. QED
  BY <1>4, <1>5

\* A review ends, with its entry in the trail or torn from it.
LEMMA ReviewsEnd ==
  ASSUME FleetInv, (\E r \in Reviewers : Audit(r) \/ AuditFails(r)) \/ CreateAgents
  PROVE  FleetInv'
<1>1. row' = row /\ evidence' = evidence /\ creations' = creations
  BY DEF Audit, AuditFails, CreateAgents
<1>2. \A q \in Reviewers : review'[q] = review[q] \/ review'[q] = NoReview
  BY DEF Audit, AuditFails, CreateAgents, FleetInv, FleetTypeOK
<1>3. \A c \in Creators : creator'[c] = creator[c] \/ creator'[c] = Resting
  BY DEF Audit, AuditFails, CreateAgents, FleetInv, FleetTypeOK
<1>4. FleetTypeOK'
  <2>1. CASE \E r \in Reviewers : Audit(r) \/ AuditFails(r)
    <3>1. PICK r \in Reviewers : Audit(r) \/ AuditFails(r)
      BY <2>1
    <3>2. review' = [review EXCEPT ![r] = NoReview] /\ NoReview \in FleetReview
      BY <3>1 DEF Audit, AuditFails, NoReview, FleetReview, AgentTiers
    <3>3. review' \in [Reviewers -> FleetReview]
      BY <3>2 DEF FleetInv, FleetTypeOK, FleetReview
    <3>4. live' = live /\ creator' = creator
      BY <3>1 DEF Audit, AuditFails
    <3>5. QED
      BY <1>1, <3>3, <3>4 DEF FleetInv, FleetTypeOK, FleetReview
  <2>2. CASE CreateAgents
    <3>1. live' \in [soul : Souls \cup {"none", "seed"}, tier : AgentTiers]
      BY <2>2 DEF CreateAgents, FleetInv, FleetTypeOK, NoAgent, AgentTiers
    <3>2. creator' \in [Creators -> [at : {"idle", "upsert", "insert"}, soul : Souls \cup {"none"},
                                     who : {"none", "admin", "user", "import"}]]
      BY <2>2 DEF CreateAgents, Resting
    <3>3. review' \in [Reviewers -> FleetReview]
      BY <2>2 DEF CreateAgents, NoReview, FleetReview, AgentTiers
    <3>4. QED
      BY <1>1, <3>1, <3>2, <3>3 DEF FleetInv, FleetTypeOK, FleetReview
  <2>3. QED
    BY <2>1, <2>2
<1>5. \A c \in Creators : Own(c)' => Own(c) /\ creator'[c] = creator[c]
  BY <1>3 DEF Own, Resting
<1>6. RowIsWhole' /\ OneCreation' /\ (ByUser' => ByUser)
  BY <1>1, <1>3, <1>5 DEF FleetInv, RowIsWhole, OneCreation, ByUser, Resting
<1>7. TiersAreEarned'
  <2>1. live' # NoAgent => \/ live'.tier = live.tier /\ live # NoAgent
                           \/ live'.tier = row.tier /\ row # NoRow
    BY DEF Audit, AuditFails, CreateAgents
  <2>2. QED
    BY <1>1, <1>2, <1>6, <2>1 DEF FleetInv, TiersAreEarned, Passing, NoReview
<1>8. TierIsAudited'
  <2>1. CASE \E r \in Reviewers : Audit(r) \/ AuditFails(r)
    <3>1. PICK r \in Reviewers : Audit(r) \/ AuditFails(r)
      BY <2>1
    <3>2. /\ \A q \in Reviewers : q # r => review'[q] = review[q]
          /\ trail' \cup torn' = trail \cup torn \cup {review[r].tier}
      BY <3>1 DEF Audit, AuditFails, FleetInv, FleetTypeOK
    <3>3. QED
      BY <1>1, <3>2 DEF FleetInv, TierIsAudited
  <2>2. CASE CreateAgents
    BY <2>2 DEF CreateAgents, FleetInv, TierIsAudited
  <2>3. QED
    BY <2>1, <2>2
<1>9. QED
  BY <1>4, <1>6, <1>7, <1>8 DEF FleetInv

\* However reviews overlap and wherever a restart or an error cuts them: the tier of an agent
\* that one user asked for was earned, and the audit trail tells of every tier but of those
\* whose entry was cut.
THEOREM TierIsAlwaysJustified == FleetSpec => []TierIsJustified
<1>1. FleetInv => TierIsJustified
  <2> SUFFICES ASSUME FleetInv PROVE TrustIsEarned
    BY DEF FleetInv, TierIsJustified
  <2>1. creations = 1 /\ row.provenance = "user" => ByUser /\ row # NoRow
    BY DEF ByUser, NoRow
  <2>2. QED
    BY <2>1 DEF FleetInv, TiersAreEarned, TrustIsEarned, Earned
<1>2. FleetInv /\ [FleetNext]_fleetVars => FleetInv'
  <2> SUFFICES ASSUME FleetInv, [FleetNext]_fleetVars PROVE FleetInv'
    OBVIOUS
  <2>1. CASE \E c \in Creators, who \in {"admin", "user", "import"}, s \in Souls :
               BeginCreate(c, who, s)
    BY <2>1, BeginCreateKeeps
  <2>2. CASE \E c \in Creators : Register(c)
    BY <2>2, RegisterKeeps
  <2>3. CASE \E c \in Creators : InsertRow(c)
    BY <2>3, InsertRowKeeps
  <2>4. CASE (\E c \in Creators : RowFails(c)) \/ (\E s \in Souls : Update(s)) \/ Delete
    BY <2>4, FleetAloneKeeps
  <2>5. CASE \E r \in Reviewers :
               BeginAdminReview(r) \/ \E clean \in BOOLEAN : BeginAiReview(r, clean)
    BY <2>5, BeginReviewKeeps
  <2>6. CASE \E r \in Reviewers : ReadForAiReview(r)
    BY <2>6, ReadForAiReviewKeeps
  <2>7. CASE \E r \in Reviewers : UpdateRow(r)
    BY <2>7, UpdateRowKeeps
  <2>8. CASE (\E r \in Reviewers : Audit(r) \/ AuditFails(r)) \/ CreateAgents
    BY <2>8, ReviewsEnd
  <2>9. CASE UNCHANGED fleetVars
    <3>1. FleetTypeOK' /\ RowIsWhole' /\ OneCreation' /\ TierIsAudited'
      BY <2>9 DEF fleetVars, FleetInv, FleetTypeOK, RowIsWhole, OneCreation, TierIsAudited, Own
    <3>2. TiersAreEarned'
      BY <2>9 DEF fleetVars, FleetInv, TiersAreEarned, ByUser, Own, Passing
    <3>3. QED
      BY <3>1, <3>2 DEF FleetInv
  <2>10. QED
    BY <2>1, <2>2, <2>3, <2>4, <2>5, <2>6, <2>7, <2>8, <2>9 DEF FleetNext
<1>3. QED
  BY <1>1, <1>2, FleetInitially, PTL DEF FleetSpec

-----------------------------------------------------------------------------
(* The rate limiters                                                        *)

MostInWindow == IF limiter = "memory" THEN Rpm ELSE Rpm + Cardinality(Callers) - 1
InFlight(u) == {c \in Callers : passed[c] = u}

\* What is kept of a user's requests are the last of those let through, in order; what was
\* dropped has left the window.
Ordered(a) == \A i, j \in 1 .. Len(a) : i <= j => a[i] <= a[j]
LastOf(w, a) ==
    /\ Len(w) <= Len(a)
    /\ \A i \in 1 .. Len(w) : w[i] = a[Len(a) - Len(w) + i]
DroppedIsOld(w, a) == \A i \in 1 .. Len(a) - Len(w) : a[i] + Window <= second

\* Requests so many places apart are that far apart in time.
Spaced(a, places, apart) ==
    \A i \in 1 .. Len(a) : i > places => a[i - places] + apart <= a[i]

\* With the requests that passed the check and are not recorded, no more than the limit
\* are in the window.
Foreseen(a, n) == \A i \in 1 .. Len(a) : i <= Len(a) + n - MostInWindow => a[i] + Window <= second

RateTypeOK ==
    /\ limiter \in Limiters /\ second \in Nat
    /\ windows \in [Users -> Seq(Nat)] /\ admitted \in [Users -> Seq(Nat)]
    /\ passed \in [Callers -> Users \cup {"none"}]

UserOK(u) ==
    /\ \A i \in 1 .. Len(admitted[u]) : admitted[u][i] <= second
    /\ Ordered(admitted[u])
    /\ LastOf(windows[u], admitted[u]) /\ DroppedIsOld(windows[u], admitted[u])
    /\ Spaced(admitted[u], MostInWindow, Window)
    /\ limiter = "memory" /\ Burst > 0 => Spaced(admitted[u], Burst, BurstWindow)
    /\ limiter = "redis" => Foreseen(admitted[u], Cardinality(InFlight(u)))

RateInv ==
    /\ RateTypeOK
    /\ limiter = "memory" => \A c \in Callers : passed[c] = "none"
    /\ \A c \in Callers : passed[c] # "none" => Rpm > 0
    /\ \A u \in Users : UserOK(u)

-----------------------------------------------------------------------------
(* Counting                                                                 *)

\* Places less than k apart are at most k.
LEMMA CloseAreFew ==
  ASSUME NEW S \in SUBSET Nat, NEW k \in Nat, S # {}, \A i, j \in S : j < i + k
  PROVE  IsFiniteSet(S) /\ Cardinality(S) <= k
<1>1. PICK m \in S : \A n \in S : m <= n
  BY LeastNatural
<1>2. m \in Nat /\ m + k - 1 \in Int
  OBVIOUS
<1>3. S \subseteq m .. m + k - 1
  BY <1>1, <1>2
<1>4. k > 0
  BY <1>1, <1>2
<1>5. IsFiniteSet(m .. m + k - 1) /\ Cardinality(m .. m + k - 1) = k
  <2>1. IsFiniteSet(m .. m + k - 1)
        /\ Cardinality(m .. m + k - 1) = IF m > m + k - 1 THEN 0 ELSE m + k - 1 - m + 1
    BY <1>2, FS_Interval
  <2>2. ~ (m > m + k - 1) /\ m + k - 1 - m + 1 = k
    BY <1>2, <1>4
  <2> QED
    BY <2>1, <2>2
<1> QED
  BY <1>3, <1>5, FS_Subset

\* In no window is more than the requests are spaced for.
LEMMA SpacedIsFew ==
  ASSUME NEW a \in Seq(Nat), NEW k \in Nat, NEW w \in Nat, NEW from \in Nat,
         Ordered(a), Spaced(a, k, w)
  PROVE  Cardinality({i \in DOMAIN a : from <= a[i] /\ a[i] < from + w}) <= k
<1> DEFINE S == {i \in DOMAIN a : from <= a[i] /\ a[i] < from + w}
<1>1. Len(a) \in Nat /\ DOMAIN a = 1 .. Len(a)
  BY LenProperties
<1>2. S \in SUBSET Nat
  BY <1>1
<1>3. ASSUME NEW i \in S, NEW j \in S, ~ (j < i + k) PROVE FALSE
  <2>1. /\ i \in 1 .. Len(a) /\ j \in 1 .. Len(a)
        /\ from <= a[i] /\ a[j] < from + w /\ a[i] \in Nat /\ a[j] \in Nat
    BY <1>1, ElementOfSeq
  <2>2. j - k \in 1 .. Len(a) /\ i <= j - k /\ j > k
    BY <1>1, <1>3, <2>1
  <2>3. a[i] <= a[j - k] /\ a[j - k] + w <= a[j]
    BY <2>1, <2>2 DEF Ordered, Spaced
  <2>4. a[j - k] \in Nat
    BY <2>2, ElementOfSeq
  <2> QED
    BY <2>1, <2>3, <2>4
<1> HIDE DEF S
<1>4. CASE S = {}
  <2>1. Cardinality(S) = 0
    BY <1>4, FS_EmptySet
  <2>2. Cardinality(S) <= k
    BY <2>1
  <2> QED
    BY <2>2 DEF S
<1>5. CASE S # {}
  <2>1. \A i, j \in S : j < i + k
    BY <1>3
  <2>2. Cardinality(S) <= k
    BY <1>2, <1>5, <2>1, CloseAreFew
  <2> QED
    BY <2>2 DEF S
<1> QED
  BY <1>4, <1>5

LEMMA RateInvHolds == ASSUME RateAssumption, RateInv PROVE NoWindowOverLimit
<1>1. ASSUME NEW u \in Users, NEW from \in 0 .. MaxTime
      PROVE  IF limiter = "memory"
             THEN /\ Within(u, from, Window) <= Rpm
                  /\ Burst > 0 => Within(u, from, BurstWindow) <= Burst
             ELSE Within(u, from, Window) <= Rpm + Cardinality(Callers) - 1
  <2>1. admitted[u] \in Seq(Nat) /\ UserOK(u) /\ limiter \in {"memory", "redis"}
    BY DEF RateInv, RateTypeOK, RateAssumption
  <2>2. Rpm \in Nat /\ Burst \in Nat /\ Window \in Nat /\ BurstWindow \in Nat
    BY DEF RateAssumption
  <2>3. Cardinality(Callers) \in Nat /\ Cardinality(Callers) # 0
    BY FS_CardinalityType, FS_EmptySet DEF RateAssumption
  <2>4. MostInWindow \in Nat
    BY <2>2, <2>3 DEF MostInWindow
  <2>5. from \in Nat
    OBVIOUS
  <2>6. Within(u, from, Window) <= MostInWindow
    BY <2>1, <2>2, <2>4, <2>5, SpacedIsFew DEF UserOK, Within
  <2>7. limiter = "memory" /\ Burst > 0 => Within(u, from, BurstWindow) <= Burst
    BY <2>1, <2>2, <2>5, SpacedIsFew DEF UserOK, Within
  <2> QED
    BY <2>6, <2>7 DEF MostInWindow
<1> QED
  BY <1>1 DEF NoWindowOverLimit

-----------------------------------------------------------------------------
(* What is kept                                                             *)

\* Dropping what is old from the front.
LEMMA SinceDrops ==
  ASSUME NEW w \in Seq(Nat), NEW t \in Nat
  PROVE  /\ Since(w, t) \in Seq(Nat) /\ Len(Since(w, t)) <= Len(w)
         /\ \A i \in 1 .. Len(Since(w, t)) : Since(w, t)[i] = w[Len(w) - Len(Since(w, t)) + i]
         /\ \A i \in 1 .. Len(w) - Len(Since(w, t)) : w[i] < t
<1> DEFINE S == {i \in DOMAIN w : w[i] >= t} \cup {Len(w) + 1}
           f == FirstKept(w, t)
           n == Len(w)
<1>1. n \in Nat /\ DOMAIN w = 1 .. n
  BY LenProperties
<1>2. S \subseteq Nat /\ n + 1 \in S
  BY <1>1
<1>3. \E m \in S : \A x \in S : m <= x
  BY <1>2, LeastNatural
<1>4. f \in S /\ \A x \in S : f <= x
  <2>1. f = CHOOSE m \in S : \A x \in S : m <= x
    BY DEF FirstKept, Min
  <2> HIDE DEF f, S
  <2> QED
    BY <1>3, <2>1
<1>5. f \in 1 .. n + 1
  BY <1>1, <1>4
<1>6. \A i \in 1 .. f - 1 : w[i] < t
  <2> SUFFICES ASSUME NEW i \in 1 .. f - 1 PROVE w[i] < t
    OBVIOUS
  <2> HIDE DEF f
  <2>1. i \in 1 .. n /\ ~ (f <= i)
    BY <1>1, <1>5
  <2>2. i \notin S /\ w[i] \in Nat
    BY <1>4, <2>1, ElementOfSeq
  <2> QED
    BY <1>1, <2>1, <2>2
<1>7. Since(w, t) = SubSeq(w, f, n)
  BY DEF Since
<1> HIDE DEF f, n, S
<1>8. \A i \in f .. n : w[i] \in Nat
  BY <1>1, <1>5, ElementOfSeq DEF n
<1>9. PICK v : v = SubSeq(w, f, n)
  OBVIOUS
<1>10. /\ v \in Seq(Nat) /\ Len(v) = IF f <= n THEN n - f + 1 ELSE 0
       /\ \A i \in 1 .. n - f + 1 : v[i] = w[f + i - 1]
  BY <1>1, <1>5, <1>8, <1>9, SubSeqProperties
<1>11. Len(v) = n - f + 1 /\ n - Len(v) = f - 1
  BY <1>1, <1>5, <1>10
<1>12. \A i \in 1 .. Len(v) : v[i] = w[n - Len(v) + i]
  <2> SUFFICES ASSUME NEW i \in 1 .. Len(v) PROVE v[i] = w[n - Len(v) + i]
    OBVIOUS
  <2>1. f + i - 1 = n - Len(v) + i
    BY <1>1, <1>5, <1>11
  <2> QED
    BY <1>10, <1>11, <2>1
<1>13. Since(w, t) = v /\ Len(v) <= n
  BY <1>1, <1>5, <1>7, <1>9, <1>11
<1>14. \A i \in 1 .. n - Len(v) : w[i] < t
  BY <1>6, <1>11
<1>15. n = Len(w)
  BY DEF n
<1> QED
  BY <1>10, <1>12, <1>13, <1>14, <1>15

\* What pruning keeps is still the last of what was let through, and the rest is old; with
\* Redis, what is as old as the window goes too.
LEMMA PrunedOK ==
  ASSUME RateAssumption, RateInv, NEW u \in Users
  PROVE  /\ Pruned(u) \in Seq(Nat) /\ LastOf(Pruned(u), admitted[u])
         /\ DroppedIsOld(Pruned(u), admitted[u])
<1> DEFINE w == windows[u]
           a == admitted[u]
           p == Pruned(u)
           t == IF limiter = "memory" THEN Cutoff(Window)
                ELSE IF second >= Window THEN second - Window + 1 ELSE 0
<1>1. /\ w \in Seq(Nat) /\ a \in Seq(Nat) /\ LastOf(w, a) /\ DroppedIsOld(w, a)
      /\ second \in Nat /\ Window \in Nat
  BY DEF RateInv, RateTypeOK, UserOK, RateAssumption
<1>2. t \in Nat /\ \A x \in Nat : x < t => x + Window <= second
  BY <1>1 DEF Cutoff
<1>3. p = Since(w, t)
  BY DEF Pruned
<1> HIDE DEF w, a, p, t
<1>4. /\ p \in Seq(Nat) /\ Len(p) <= Len(w)
      /\ \A i \in 1 .. Len(p) : p[i] = w[Len(w) - Len(p) + i]
      /\ \A i \in 1 .. Len(w) - Len(p) : w[i] < t
  BY <1>1, <1>2, <1>3, SinceDrops
<1>5. Len(w) \in Nat /\ Len(a) \in Nat /\ Len(p) \in Nat /\ Len(w) <= Len(a)
  BY <1>1, <1>4, LenProperties DEF LastOf
<1>6. ASSUME NEW i \in 1 .. Len(p) PROVE p[i] = a[Len(a) - Len(p) + i]
  <2> DEFINE j == Len(w) - Len(p) + i
  <2>1. j \in 1 .. Len(w) /\ Len(a) - Len(w) + j = Len(a) - Len(p) + i
    BY <1>4, <1>5
  <2>2. p[i] = w[j]
    BY <1>4
  <2> HIDE DEF j
  <2>3. w[j] = a[Len(a) - Len(w) + j]
    BY <1>1, <2>1 DEF LastOf
  <2> QED
    BY <2>1, <2>2, <2>3
<1>7. ASSUME NEW i \in 1 .. Len(a) - Len(p) PROVE a[i] + Window <= second
  <2>1. CASE i <= Len(a) - Len(w)
    <3>1. i \in 1 .. Len(a) - Len(w)
      BY <1>5, <2>1
    <3> QED
      BY <1>1, <3>1 DEF DroppedIsOld
  <2>2. CASE i > Len(a) - Len(w)
    <3> DEFINE j == i - (Len(a) - Len(w))
    <3>1. /\ j \in 1 .. Len(w) - Len(p) /\ j \in 1 .. Len(w)
          /\ Len(a) - Len(w) + j = i
      BY <1>4, <1>5, <2>2
    <3> HIDE DEF j
    <3>2. w[j] = a[i] /\ w[j] < t
      BY <1>1, <1>4, <3>1 DEF LastOf
    <3>3. w[j] \in Nat
      BY <1>1, <3>1, ElementOfSeq
    <3>4. w[j] + Window <= second
      BY <1>2, <3>2, <3>3
    <3> QED
      BY <3>2, <3>4
  <2> QED
    BY <1>5, <2>1, <2>2
<1>8. LastOf(p, a)
  BY <1>4, <1>5, <1>6 DEF LastOf
<1>9. DroppedIsOld(p, a)
  BY <1>7 DEF DroppedIsOld
<1> QED
  BY <1>4, <1>8, <1>9 DEF p, a

\* So has all of it for a key that is evicted.
LEMMA EvictedOK ==
  ASSUME RateAssumption, RateTypeOK, NEW w \in Seq(Nat), NEW a \in Seq(Nat),
         Ordered(a), LastOf(w, a), DroppedIsOld(w, a),
         w = <<>> \/ Last(w) < Cutoff(EvictionAge)
  PROVE  LastOf(<<>>, a) /\ DroppedIsOld(<<>>, a)
<1>1. Len(w) \in Nat /\ Len(a) \in Nat /\ Len(w) <= Len(a) /\ Len(<<>>) = 0
  BY LenProperties DEF LastOf
<1>2. /\ second \in Nat /\ EvictionAge \in Nat /\ Window \in Nat /\ EvictionAge >= Window
  BY DEF RateAssumption, RateTypeOK
<1>3. ASSUME NEW i \in 1 .. Len(a) PROVE a[i] + Window <= second
  <2>1. CASE w = <<>>
    <3>1. i \in 1 .. Len(a) - Len(w)
      BY <1>1, <2>1
    <3> QED
      BY <3>1 DEF DroppedIsOld
  <2>2. CASE w # <<>>
    <3>1. Len(w) \in 1 .. Len(w) /\ Len(w) > 0
      BY <1>1, <2>2, EmptySeq
    <3>2. Last(w) = w[Len(w)] /\ w[Len(w)] = a[Len(a)]
      BY <1>1, <3>1 DEF Last, LastOf
    <3>3. a[i] <= a[Len(a)]
      BY <1>1 DEF Ordered
    <3>4. a[i] \in Nat /\ a[Len(a)] \in Nat
      BY <1>1, ElementOfSeq
    <3>5. a[Len(a)] < Cutoff(EvictionAge)
      BY <2>2, <3>2
    <3> QED
      BY <1>2, <3>3, <3>4, <3>5 DEF Cutoff
  <2> QED
    BY <2>1, <2>2
<1> QED
  BY <1>1, <1>3 DEF LastOf, DroppedIsOld

-----------------------------------------------------------------------------
(* One request more                                                         *)

LEMMA AppendedOK ==
  ASSUME RateTypeOK, NEW a \in Seq(Nat), NEW w \in Seq(Nat), Ordered(a),
         \A i \in 1 .. Len(a) : a[i] <= second, LastOf(w, a), DroppedIsOld(w, a)
  PROVE  /\ Append(a, second) \in Seq(Nat) /\ Append(w, second) \in Seq(Nat)
         /\ Ordered(Append(a, second))
         /\ \A i \in 1 .. Len(Append(a, second)) : Append(a, second)[i] <= second
         /\ LastOf(Append(w, second), Append(a, second))
         /\ DroppedIsOld(Append(w, second), Append(a, second))
<1>1. second \in Nat
  BY DEF RateTypeOK
<1>2. PICK b : b = Append(a, second)
  OBVIOUS
<1>3. PICK v : v = Append(w, second)
  OBVIOUS
<1>4. /\ b \in Seq(Nat) /\ Len(b) = Len(a) + 1 /\ b[Len(a) + 1] = second
      /\ \A i \in 1 .. Len(a) : b[i] = a[i]
  BY <1>1, <1>2, AppendProperties
<1>5. /\ v \in Seq(Nat) /\ Len(v) = Len(w) + 1 /\ v[Len(w) + 1] = second
      /\ \A i \in 1 .. Len(w) : v[i] = w[i]
  BY <1>1, <1>3, AppendProperties
<1>6. Len(a) \in Nat /\ Len(w) \in Nat /\ Len(w) <= Len(a)
  BY LenProperties DEF LastOf
<1>7. ASSUME NEW i \in 1 .. Len(b) PROVE b[i] <= second
  <2>1. i \in 1 .. Len(a) \/ i = Len(a) + 1
    BY <1>4, <1>6
  <2> QED
    BY <1>1, <1>4, <2>1
<1>8. Ordered(b)
  <2> SUFFICES ASSUME NEW i \in 1 .. Len(b), NEW j \in 1 .. Len(b), i <= j
               PROVE  b[i] <= b[j]
    BY DEF Ordered
  <2>1. CASE j = Len(a) + 1
    BY <1>4, <1>7, <2>1
  <2>2. CASE j # Len(a) + 1
    <3>1. i \in 1 .. Len(a) /\ j \in 1 .. Len(a)
      BY <1>4, <1>6, <2>2
    <3> QED
      BY <1>4, <3>1 DEF Ordered
  <2> QED
    BY <2>1, <2>2
<1>9. LastOf(v, b)
  <2>1. ASSUME NEW i \in 1 .. Len(v) PROVE v[i] = b[Len(b) - Len(v) + i]
    <3>1. Len(b) - Len(v) + i = Len(a) - Len(w) + i
      BY <1>4, <1>5, <1>6
    <3>2. CASE i = Len(w) + 1
      <4>1. Len(a) - Len(w) + i = Len(a) + 1
        BY <1>6, <3>2
      <4> QED
        BY <1>4, <1>5, <3>1, <3>2, <4>1
    <3>3. CASE i # Len(w) + 1
      <4>1. i \in 1 .. Len(w) /\ Len(a) - Len(w) + i \in 1 .. Len(a)
        BY <1>5, <1>6, <3>3
      <4> QED
        BY <1>4, <1>5, <3>1, <4>1 DEF LastOf
    <3> QED
      BY <3>2, <3>3
  <2> QED
    BY <1>4, <1>5, <1>6, <2>1 DEF LastOf
<1>10. DroppedIsOld(v, b)
  <2> SUFFICES ASSUME NEW i \in 1 .. Len(b) - Len(v) PROVE b[i] + Window <= second
    BY DEF DroppedIsOld
  <2>1. i \in 1 .. Len(a) - Len(w) /\ i \in 1 .. Len(a)
    BY <1>4, <1>5, <1>6
  <2> QED
    BY <1>4, <2>1 DEF DroppedIsOld
<1> QED
  BY <1>2, <1>3, <1>4, <1>5, <1>7, <1>8, <1>9, <1>10

LEMMA SpacedAppended ==
  ASSUME RateTypeOK, NEW a \in Seq(Nat), NEW k \in Nat \ {0}, NEW g \in Nat, Spaced(a, k, g),
         Len(a) + 1 > k => a[Len(a) + 1 - k] + g <= second
  PROVE  Spaced(Append(a, second), k, g)
<1>1. second \in Nat /\ Len(a) \in Nat
  BY LenProperties DEF RateTypeOK
<1>2. PICK b : b = Append(a, second)
  OBVIOUS
<1>3. /\ b \in Seq(Nat) /\ Len(b) = Len(a) + 1 /\ b[Len(a) + 1] = second
      /\ \A i \in 1 .. Len(a) : b[i] = a[i]
  BY <1>1, <1>2, AppendProperties
<1>4. ASSUME NEW i \in 1 .. Len(b), i > k PROVE b[i - k] + g <= b[i]
  <2>1. i - k \in 1 .. Len(a)
    BY <1>1, <1>3, <1>4
  <2>2. CASE i = Len(a) + 1
    <3>1. a[i - k] + g <= second
      BY <1>4, <2>2
    <3> QED
      BY <1>3, <2>1, <2>2, <3>1
  <2>3. CASE i # Len(a) + 1
    <3>1. i \in 1 .. Len(a)
      BY <1>1, <1>3, <2>3
    <3> QED
      BY <1>3, <1>4, <2>1, <3>1 DEF Spaced
  <2> QED
    BY <2>2, <2>3
<1> QED
  BY <1>2, <1>4 DEF Spaced

\* Within limits, the request that would be one too many is out of the window.
LEMMA LimitsSpace ==
  ASSUME RateAssumption, RateInv, NEW u \in Users, WithinLimits(u)
  PROVE  LET a == admitted[u] IN
         /\ Rpm > 0
         /\ \A i \in 1 .. Len(a) : i <= Len(a) + 1 - Rpm => a[i] + Window <= second
         /\ limiter = "memory" /\ Burst > 0 /\ Len(a) + 1 > Burst =>
               a[Len(a) + 1 - Burst] + BurstWindow <= second
<1>1. PICK a : a = admitted[u]
  OBVIOUS
<1>2. PICK p : p = Pruned(u)
  OBVIOUS
<1>3. /\ a \in Seq(Nat) /\ Ordered(a) /\ p \in Seq(Nat) /\ LastOf(p, a)
      /\ DroppedIsOld(p, a) /\ second \in Nat
  BY <1>1, <1>2, PrunedOK DEF RateInv, RateTypeOK, UserOK
<1>4. /\ Len(a) \in Nat /\ Len(p) \in Nat /\ Len(p) <= Len(a)
      /\ DOMAIN p = 1 .. Len(p)
  BY <1>3, LenProperties DEF LastOf
<1>5. /\ Rpm \in Nat /\ Window \in Nat /\ Burst \in Nat /\ BurstWindow \in Nat
      /\ Window >= BurstWindow
  BY DEF RateAssumption
<1>6. Len(p) < Rpm
  BY <1>2 DEF WithinLimits
<1>7. Rpm > 0
  BY <1>4, <1>5, <1>6
<1>8. ASSUME NEW i \in 1 .. Len(a), i <= Len(a) + 1 - Rpm PROVE a[i] + Window <= second
  <2>1. i \in 1 .. Len(a) - Len(p)
    BY <1>4, <1>5, <1>6, <1>8
  <2> QED
    BY <1>3, <2>1 DEF DroppedIsOld
<1>9. ASSUME limiter = "memory", Burst > 0, Len(a) + 1 > Burst
      PROVE  a[Len(a) + 1 - Burst] + BurstWindow <= second
  <2> DEFINE i == Len(a) + 1 - Burst
             j == Len(p) + 1 - Burst
  <2>1. i \in 1 .. Len(a)
    BY <1>4, <1>5, <1>9
  <2>2. a[i] \in Nat
    BY <1>3, <2>1, ElementOfSeq
  <2>3. CASE i <= Len(a) - Len(p)
    <3>1. i \in 1 .. Len(a) - Len(p)
      BY <1>4, <2>1, <2>3
    <3>2. a[i] + Window <= second
      BY <1>3, <3>1 DEF DroppedIsOld
    <3> QED
      BY <1>3, <1>5, <2>2, <3>2
  <2>4. CASE i > Len(a) - Len(p)
    <3>1. j \in 1 .. Len(p) /\ Len(a) - Len(p) + j = i
      BY <1>4, <1>5, <1>9, <2>4
    <3>2. p[j] = a[i]
      BY <1>3, <3>1 DEF LastOf
    <3> DEFINE R == {x \in DOMAIN p : p[x] >= Cutoff(BurstWindow)}
    <3>3. Cardinality(R) < Burst
      BY <1>2, <1>9 DEF WithinLimits
    <3>4. p[j] < Cutoff(BurstWindow)
      <4> SUFFICES ASSUME ~ (p[j] < Cutoff(BurstWindow)) PROVE FALSE
        OBVIOUS
      <4>1. Cutoff(BurstWindow) \in Nat
        BY <1>3, <1>5 DEF Cutoff
      <4>2. ASSUME NEW x \in j .. Len(p) PROVE x \in R
        <5>1. /\ x \in 1 .. Len(p)
              /\ Len(a) - Len(p) + x \in 1 .. Len(a)
              /\ i <= Len(a) - Len(p) + x
          BY <1>4, <3>1
        <5>2. p[x] = a[Len(a) - Len(p) + x]
          BY <1>3, <5>1 DEF LastOf
        <5>3. a[i] <= p[x]
          BY <1>3, <2>1, <5>1, <5>2 DEF Ordered
        <5>4. p[x] \in Nat
          BY <1>3, <5>1, ElementOfSeq
        <5>5. p[x] >= Cutoff(BurstWindow)
          BY <2>2, <3>2, <4>1, <5>3, <5>4
        <5> QED
          BY <1>4, <5>1, <5>5
      <4>3. IsFiniteSet(R)
        <5>1. IsFiniteSet(1 .. Len(p))
          BY <1>4, FS_Interval
        <5>2. R \subseteq 1 .. Len(p)
          BY <1>4
        <5> QED
          BY <5>1, <5>2, FS_Subset
      <4>4. Cardinality(j .. Len(p)) = Burst
        <5>1. Cardinality(j .. Len(p)) = IF j > Len(p) THEN 0 ELSE Len(p) - j + 1
          <6>1. j \in Int /\ Len(p) \in Int
            BY <1>4, <3>1
          <6> HIDE DEF j
          <6> QED
            BY <6>1, FS_Interval
        <5>2. ~ (j > Len(p)) /\ Len(p) - j + 1 = Burst
          BY <1>4, <1>5, <3>1
        <5> QED
          BY <5>1, <5>2
      <4>5. j .. Len(p) \subseteq R
        BY <4>2
      <4> HIDE DEF R, j
      <4>6. Cardinality(j .. Len(p)) <= Cardinality(R) /\ Cardinality(R) \in Nat
        BY <4>3, <4>5, FS_Subset, FS_CardinalityType
      <4> QED
        BY <1>5, <3>3, <4>4, <4>6
    <3>5. a[i] < Cutoff(BurstWindow)
      BY <3>2, <3>4
    <3> QED
      BY <1>3, <1>5, <2>2, <3>5 DEF Cutoff
  <2> QED
    BY <1>4, <2>1, <2>3, <2>4
<1> QED
  BY <1>1, <1>7, <1>8, <1>9

-----------------------------------------------------------------------------
(* The steps                                                                *)

LEMMA RateInitially == RateAssumption /\ RateInit => RateInv
<1> SUFFICES ASSUME RateAssumption, RateInit PROVE RateInv
  OBVIOUS
<1>1. RateTypeOK
  BY DEF RateInit, RateTypeOK
<1>2. \A c \in Callers : passed[c] = "none"
  BY DEF RateInit
<1>3. ASSUME NEW u \in Users PROVE UserOK(u)
  <2>1. admitted[u] = <<>> /\ windows[u] = <<>>
    BY DEF RateInit
  <2>2. Len(<<>>) = 0 /\ 1 .. 0 = {} /\ 0 - 0 = 0
    OBVIOUS
  <2> QED
    BY <2>1, <2>2 DEF UserOK, Ordered, LastOf, DroppedIsOld, Spaced, Foreseen
<1> QED
  BY <1>1, <1>2, <1>3 DEF RateInv

\* A user of whom nothing is let through, while what is kept is kept in order.
LEMMA UntouchedOK ==
  ASSUME RateAssumption, RateInv, NEW u \in Users, RateTypeOK',
         limiter' = limiter, second' >= second, admitted'[u] = admitted[u],
         LastOf(windows'[u], admitted[u]), DroppedIsOld(windows'[u], admitted[u]),
         limiter = "redis" => Foreseen(admitted[u], Cardinality(InFlight(u)'))
  PROVE  UserOK(u)'
<1>1. /\ UserOK(u) /\ second \in Nat /\ second' \in Nat /\ Window \in Nat
      /\ admitted[u] \in Seq(Nat)
  BY DEF RateInv, RateTypeOK, RateAssumption
<1>2. PICK a : a = admitted[u]
  OBVIOUS
<1>3. PICK w : w = windows'[u]
  OBVIOUS
<1>4. PICK n : n = Cardinality(InFlight(u)')
  OBVIOUS
<1>5. a \in Seq(Nat) /\ \A i \in 1 .. Len(a) : a[i] \in Nat
  BY <1>1, <1>2, ElementOfSeq
<1>6. \A i \in 1 .. Len(a) : a[i] <= second'
  <2>1. \A i \in 1 .. Len(a) : a[i] <= second
    BY <1>1, <1>2 DEF UserOK
  <2> QED
    BY <1>1, <1>5, <2>1
<1>8. \A i \in 1 .. Len(a) - Len(w) : a[i] + Window <= second'
  <2>1. Len(a) \in Nat /\ Len(w) \in Nat
    <3>1. w \in Seq(Nat)
      BY <1>3 DEF RateTypeOK
    <3> QED
      BY <1>5, <3>1, LenProperties
  <2> SUFFICES ASSUME NEW i \in 1 .. Len(a) - Len(w) PROVE a[i] + Window <= second'
    OBVIOUS
  <2>2. i \in 1 .. Len(a)
    BY <2>1
  <2>3. a[i] + Window <= second
    BY <1>2, <1>3 DEF DroppedIsOld
  <2> QED
    BY <1>1, <1>5, <2>2, <2>3
<1>9. MostInWindow' = MostInWindow
  BY DEF MostInWindow
<1>10. limiter = "redis" =>
         \A i \in 1 .. Len(a) : i <= Len(a) + n - MostInWindow => a[i] + Window <= second'
  <2> SUFFICES ASSUME limiter = "redis", NEW i \in 1 .. Len(a), i <= Len(a) + n - MostInWindow
               PROVE  a[i] + Window <= second'
    OBVIOUS
  <2>1. a[i] + Window <= second
    BY <1>2, <1>4 DEF Foreseen
  <2> QED
    BY <1>1, <1>5, <2>1
<1>11. (Ordered(a) /\ LastOf(w, a) /\ Spaced(a, MostInWindow, Window)
        /\ (limiter = "memory" /\ Burst > 0 => Spaced(a, Burst, BurstWindow)))
  BY <1>1, <1>2, <1>3 DEF UserOK
<1> QED
  BY <1>2, <1>3, <1>4, <1>6, <1>8, <1>9, <1>10, <1>11
     DEF UserOK, Ordered, LastOf, DroppedIsOld, Spaced, Foreseen

LEMMA PendingIsFew ==
  ASSUME RateAssumption, NEW u
  PROVE  /\ IsFiniteSet(InFlight(u)) /\ Cardinality(InFlight(u)) \in Nat
         /\ Cardinality(InFlight(u)) <= Cardinality(Callers)
         /\ Cardinality(Callers) \in Nat /\ Cardinality(Callers) > 0
<1>1. IsFiniteSet(Callers) /\ Callers # {}
  BY DEF RateAssumption
<1>2. InFlight(u) \subseteq Callers
  BY DEF InFlight
<1>3. Cardinality(Callers) # 0 /\ Cardinality(Callers) \in Nat
  BY <1>1, FS_CardinalityType, FS_EmptySet
<1> QED
  BY <1>1, <1>2, <1>3, FS_Subset, FS_CardinalityType

\* A user of whom one more is let through.
LEMMA AdmittedOK ==
  ASSUME RateAssumption, RateInv, NEW u \in Users, limiter' = limiter, second' = second,
         NEW w \in Seq(Nat), LastOf(w, admitted[u]), DroppedIsOld(w, admitted[u]),
         windows'[u] = Append(w, second), admitted'[u] = Append(admitted[u], second),
         MostInWindow \in Nat \ {0},
         \A i \in 1 .. Len(admitted[u]) :
            i <= Len(admitted[u]) + 1 - MostInWindow => admitted[u][i] + Window <= second,
         limiter = "memory" /\ Burst > 0 /\ Len(admitted[u]) + 1 > Burst =>
            admitted[u][Len(admitted[u]) + 1 - Burst] + BurstWindow <= second,
         limiter = "redis" => Foreseen(Append(admitted[u], second), Cardinality(InFlight(u)'))
  PROVE  UserOK(u)'
<1>1. /\ RateTypeOK /\ UserOK(u) /\ second \in Nat /\ admitted[u] \in Seq(Nat)
      /\ Window \in Nat /\ Burst \in Nat /\ BurstWindow \in Nat
  BY DEF RateInv, RateTypeOK, RateAssumption
<1>2. PICK a : a = admitted[u]
  OBVIOUS
<1>3. PICK b : b = Append(a, second)
  OBVIOUS
<1>4. PICK v : v = Append(w, second)
  OBVIOUS
<1>5. PICK n : n = Cardinality(InFlight(u)')
  OBVIOUS
<1>6. /\ a \in Seq(Nat) /\ Ordered(a) /\ \A i \in 1 .. Len(a) : a[i] <= second
      /\ LastOf(w, a) /\ DroppedIsOld(w, a) /\ Spaced(a, MostInWindow, Window)
      /\ limiter = "memory" /\ Burst > 0 => Spaced(a, Burst, BurstWindow)
  BY <1>1, <1>2 DEF UserOK
<1>7. /\ b \in Seq(Nat) /\ Ordered(b) /\ \A i \in 1 .. Len(b) : b[i] <= second
      /\ LastOf(v, b) /\ DroppedIsOld(v, b)
  BY <1>1, <1>3, <1>4, <1>6, AppendedOK
<1>8. Len(a) \in Nat
  BY <1>6, LenProperties
<1>9. Spaced(b, MostInWindow, Window)
  <2>1. Len(a) + 1 > MostInWindow => a[Len(a) + 1 - MostInWindow] + Window <= second
    <3> SUFFICES ASSUME Len(a) + 1 > MostInWindow
                 PROVE  a[Len(a) + 1 - MostInWindow] + Window <= second
      OBVIOUS
    <3>1. PICK i : i = Len(a) + 1 - MostInWindow
      OBVIOUS
    <3>2. i \in 1 .. Len(a) /\ i <= Len(a) + 1 - MostInWindow
      BY <1>8, <3>1
    <3>3. a[i] + Window <= second
      BY <1>2, <3>2
    <3> QED
      BY <3>1, <3>3
  <2> QED
    BY <1>1, <1>3, <1>6, <2>1, SpacedAppended
<1>10. limiter = "memory" /\ Burst > 0 => Spaced(b, Burst, BurstWindow)
  <2> SUFFICES ASSUME limiter = "memory", Burst > 0 PROVE Spaced(b, Burst, BurstWindow)
    OBVIOUS
  <2>1. Burst \in Nat \ {0} /\ Spaced(a, Burst, BurstWindow)
        /\ (Len(a) + 1 > Burst => a[Len(a) + 1 - Burst] + BurstWindow <= second)
    BY <1>1, <1>2, <1>6
  <2> QED
    BY <1>1, <1>3, <1>6, <2>1, SpacedAppended
<1>11. limiter = "redis" => Foreseen(b, n)
  BY <1>2, <1>3, <1>5
<1>12. MostInWindow' = MostInWindow
  BY DEF MostInWindow
<1>13. windows'[u] = v /\ admitted'[u] = b
  BY <1>2, <1>3, <1>4
<1> QED
  BY <1>5, <1>7, <1>9, <1>10, <1>11, <1>12, <1>13
     DEF UserOK, Ordered, LastOf, DroppedIsOld, Spaced, Foreseen

LEMMA AdmitKeeps ==
  ASSUME RateAssumption, RateInv, NEW u \in Users, Admit(u)
  PROVE  RateInv'
<1> DEFINE due == checks + 1 >= EvictionInterval
           pruned == [windows EXCEPT ![u] = Pruned(u)]
<1>1. PICK kept : kept = IF due THEN Evicted(pruned) ELSE pruned
  OBVIOUS
<1>2. /\ windows' = [kept EXCEPT ![u] = Append(@, second)]
      /\ admitted' = [admitted EXCEPT ![u] = Append(@, second)]
      /\ limiter = "memory" /\ UNCHANGED <<limiter, second, passed>> /\ WithinLimits(u)
  BY <1>1 DEF Admit
<1> HIDE DEF due
<1>3. RateTypeOK /\ windows \in [Users -> Seq(Nat)] /\ admitted \in [Users -> Seq(Nat)]
      /\ second \in Nat
  BY DEF RateInv, RateTypeOK
<1>4. pruned \in [Users -> Seq(Nat)]
  BY <1>3, PrunedOK
<1>5. ASSUME NEW x \in Users
      PROVE  LastOf(pruned[x], admitted[x]) /\ DroppedIsOld(pruned[x], admitted[x])
  <2>1. CASE x = u
    BY <1>3, <2>1, PrunedOK
  <2>2. CASE x # u
    BY <1>3, <2>2 DEF RateInv, UserOK
  <2> QED
    BY <2>1, <2>2
<1> HIDE DEF pruned
<1>6. kept \in [Users -> Seq(Nat)]
  <2>1. Evicted(pruned) \in [Users -> Seq(Nat)]
    BY <1>4 DEF Evicted
  <2> QED
    BY <1>1, <1>4, <2>1
<1>7. ASSUME NEW x \in Users
      PROVE  LastOf(kept[x], admitted[x]) /\ DroppedIsOld(kept[x], admitted[x])
  <2>1. CASE kept[x] = pruned[x]
    BY <1>5, <2>1
  <2>2. CASE kept[x] # pruned[x]
    <3>1. kept[x] = <<>> /\ (pruned[x] = <<>> \/ Last(pruned[x]) < Cutoff(EvictionAge))
      BY <1>1, <2>2 DEF Evicted
    <3>2. pruned[x] \in Seq(Nat) /\ admitted[x] \in Seq(Nat) /\ Ordered(admitted[x])
      BY <1>3, <1>4 DEF RateInv, UserOK
    <3> QED
      BY <1>3, <1>5, <3>1, <3>2, EvictedOK
  <2> QED
    BY <2>1, <2>2
<1>8. RateTypeOK'
  <2>1. windows' \in [Users -> Seq(Nat)] /\ admitted' \in [Users -> Seq(Nat)]
    <3>1. Append(kept[u], second) \in Seq(Nat) /\ Append(admitted[u], second) \in Seq(Nat)
      BY <1>3, <1>6, AppendProperties
    <3> QED
      BY <1>2, <1>3, <1>6, <3>1
  <2> QED
    BY <1>2, <1>3, <2>1 DEF RateTypeOK
<1>9. ASSUME NEW x \in Users PROVE UserOK(x)'
  <2>1. CASE x = u
    <3>1. /\ kept[u] \in Seq(Nat) /\ windows'[u] = Append(kept[u], second)
          /\ admitted'[u] = Append(admitted[u], second)
      BY <1>2, <1>3, <1>6
    <3>2. MostInWindow = Rpm /\ Rpm \in Nat /\ limiter # "redis"
      BY <1>2 DEF MostInWindow, RateAssumption
    <3>3. /\ Rpm > 0
          /\ \A i \in 1 .. Len(admitted[u]) :
                i <= Len(admitted[u]) + 1 - Rpm => admitted[u][i] + Window <= second
          /\ limiter = "memory" /\ Burst > 0 /\ Len(admitted[u]) + 1 > Burst =>
                admitted[u][Len(admitted[u]) + 1 - Burst] + BurstWindow <= second
      BY <1>2, LimitsSpace
    <3>4. MostInWindow \in Nat \ {0}
      BY <3>2, <3>3
    <3>5. UserOK(u)'
      BY <1>2, <1>7, <3>1, <3>2, <3>3, <3>4, AdmittedOK
    <3> QED
      BY <2>1, <3>5
  <2>2. CASE x # u
    <3>1. windows'[x] = kept[x] /\ admitted'[x] = admitted[x]
      BY <1>2, <1>3, <1>6, <2>2
    <3>2. limiter # "redis" /\ second' >= second
      BY <1>2, <1>3
    <3> QED
      BY <1>2, <1>7, <1>8, <3>1, <3>2, UntouchedOK
  <2> QED
    BY <2>1, <2>2
<1> QED
  BY <1>2, <1>8, <1>9 DEF RateInv

LEMMA RefuseKeeps ==
  ASSUME RateAssumption, RateInv, NEW u \in Users, Refuse(u)
  PROVE  RateInv'
<1>1. /\ windows' = [windows EXCEPT ![u] = Pruned(u)]
      /\ UNCHANGED <<limiter, second, passed, admitted>>
  BY DEF Refuse
<1>2. RateTypeOK /\ windows \in [Users -> Seq(Nat)] /\ second \in Nat
  BY DEF RateInv, RateTypeOK
<1>3. RateTypeOK'
  BY <1>1, <1>2, PrunedOK DEF RateTypeOK
<1>4. ASSUME NEW x \in Users PROVE UserOK(x)'
  <2>1. LastOf(windows'[x], admitted[x]) /\ DroppedIsOld(windows'[x], admitted[x])
    <3>1. CASE x = u
      BY <1>1, <1>2, <3>1, PrunedOK
    <3>2. CASE x # u
      BY <1>1, <1>2, <3>2 DEF RateInv, UserOK
    <3> QED
      BY <3>1, <3>2
  <2>2. InFlight(x)' = InFlight(x)
    BY <1>1 DEF InFlight
  <2>3. limiter = "redis" => Foreseen(admitted[x], Cardinality(InFlight(x)'))
    BY <2>2 DEF RateInv, UserOK
  <2>4. second' >= second
    BY <1>1, <1>2
  <2> QED
    BY <1>1, <1>3, <2>1, <2>3, <2>4, UntouchedOK
<1> QED
  BY <1>1, <1>3, <1>4 DEF RateInv

\* A request that passes the check with Redis is counted from now on.
LEMMA CheckKeeps ==
  ASSUME RateAssumption, RateInv, NEW u \in Users, NEW c \in Callers, CheckRedis(c, u)
  PROVE  RateInv'
<1>1. /\ windows' = [windows EXCEPT ![u] = Pruned(u)] /\ passed' = [passed EXCEPT ![c] = u]
      /\ UNCHANGED <<limiter, second, admitted>>
      /\ limiter = "redis" /\ passed[c] = "none" /\ WithinLimits(u)
  BY DEF CheckRedis
<1>2. RateTypeOK /\ windows \in [Users -> Seq(Nat)] /\ second \in Nat
      /\ passed \in [Callers -> Users \cup {"none"}] /\ "none" \notin Users
  BY DEF RateInv, RateTypeOK, RateAssumption
<1>3. RateTypeOK'
  BY <1>1, <1>2, PrunedOK DEF RateTypeOK
<1>4. ASSUME NEW x \in Users PROVE UserOK(x)'
  <2>1. LastOf(windows'[x], admitted[x]) /\ DroppedIsOld(windows'[x], admitted[x])
    <3>1. CASE x = u
      BY <1>1, <1>2, <3>1, PrunedOK
    <3>2. CASE x # u
      BY <1>1, <1>2, <3>2 DEF RateInv, UserOK
    <3> QED
      BY <3>1, <3>2
  <2>2. Foreseen(admitted[x], Cardinality(InFlight(x)'))
    <3>1. CASE x = u
      <4>1. PICK a : a = admitted[u]
        OBVIOUS
      <4>2. a \in Seq(Nat)
        BY <4>1 DEF RateInv, RateTypeOK
      <4>3. Len(a) \in Nat /\ Rpm \in Nat
        BY <4>2, LenProperties DEF RateAssumption
      <4>4. Rpm > 0
            /\ \A i \in 1 .. Len(a) : i <= Len(a) + 1 - Rpm => a[i] + Window <= second
        BY <1>1, <4>1, LimitsSpace
      <4>5. PICK n : n = Cardinality(InFlight(u)')
        OBVIOUS
      <4>6. n \in Nat /\ n <= Cardinality(Callers) /\ Cardinality(Callers) \in Nat
        <5>1. IsFiniteSet(Callers) /\ InFlight(u)' \subseteq Callers
          BY DEF RateAssumption, InFlight
        <5> QED
          BY <4>5, <5>1, FS_Subset, FS_CardinalityType
      <4>7. MostInWindow = Rpm + Cardinality(Callers) - 1
        BY <1>1 DEF MostInWindow
      <4>8. \A i \in 1 .. Len(a) : i <= Len(a) + n - MostInWindow => a[i] + Window <= second
        BY <4>3, <4>4, <4>6, <4>7
      <4>9. Foreseen(a, n)
        BY <4>8 DEF Foreseen
      <4> QED
        BY <3>1, <4>1, <4>5, <4>9
    <3>2. CASE x # u
      <4>1. InFlight(x)' = InFlight(x)
        BY <1>1, <1>2, <3>2 DEF InFlight
      <4> QED
        BY <1>1, <4>1 DEF RateInv, UserOK
    <3> QED
      BY <3>1, <3>2
  <2>3. second' >= second
    BY <1>1, <1>2
  <2> QED
    BY <1>1, <1>3, <2>1, <2>2, <2>3, UntouchedOK
<1>5. \A d \in Callers : passed'[d] # "none" => Rpm > 0
  <2>1. Rpm > 0
    BY <1>1, LimitsSpace
  <2> QED
    BY <2>1
<1> QED
  BY <1>1, <1>3, <1>4, <1>5 DEF RateInv

\* Recording moves a request from those foreseen to those let through.
LEMMA RecordKeeps ==
  ASSUME RateAssumption, RateInv, NEW c \in Callers, RecordRedis(c)
  PROVE  RateInv'
<1>1. PICK u \in Users : u = passed[c]
  BY DEF RecordRedis, RateInv, RateTypeOK
<1>2. /\ windows' = [windows EXCEPT ![u] = Append(@, second)]
      /\ admitted' = [admitted EXCEPT ![u] = Append(@, second)]
      /\ passed' = [passed EXCEPT ![c] = "none"]
      /\ UNCHANGED <<limiter, second>>
  BY <1>1 DEF RecordRedis
<1>3. /\ RateTypeOK /\ windows \in [Users -> Seq(Nat)] /\ admitted \in [Users -> Seq(Nat)]
      /\ second \in Nat /\ passed \in [Callers -> Users \cup {"none"}] /\ "none" \notin Users
  BY DEF RateInv, RateTypeOK, RateAssumption
<1>4. limiter = "redis" /\ Rpm > 0
  BY <1>1, <1>3 DEF RateInv, RateTypeOK, RateAssumption
<1>5. RateTypeOK'
  <2>1. Append(windows[u], second) \in Seq(Nat) /\ Append(admitted[u], second) \in Seq(Nat)
    BY <1>3, AppendProperties
  <2>2. windows' \in [Users -> Seq(Nat)] /\ admitted' \in [Users -> Seq(Nat)]
    BY <1>2, <1>3, <2>1
  <2>3. passed' \in [Callers -> Users \cup {"none"}]
    BY <1>2, <1>3
  <2> QED
    BY <1>2, <1>3, <2>2, <2>3 DEF RateTypeOK
<1>6. UserOK(u)'
  <2>1. PICK a : a = admitted[u]
    OBVIOUS
  <2>2. PICK w : w = windows[u]
    OBVIOUS
  <2>3. /\ a \in Seq(Nat) /\ w \in Seq(Nat) /\ LastOf(w, a) /\ DroppedIsOld(w, a)
        /\ Foreseen(a, Cardinality(InFlight(u)))
    BY <1>3, <1>4, <2>1, <2>2 DEF RateInv, UserOK
  <2>4. PICK n : n = Cardinality(InFlight(u))
    OBVIOUS
  <2>5. PICK k : k = Cardinality(Callers)
    OBVIOUS
  <2>6. n \in Nat /\ k \in Nat /\ n <= k /\ Len(a) \in Nat /\ Rpm \in Nat
    BY <2>3, <2>4, <2>5, PendingIsFew, LenProperties DEF RateAssumption
  <2>7. n > 0 /\ Cardinality(InFlight(u)') = n - 1
    <3>1. c \in InFlight(u) /\ IsFiniteSet(InFlight(u))
      BY <1>1, PendingIsFew DEF InFlight
    <3>2. InFlight(u)' = InFlight(u) \ {c}
      BY <1>2, <1>3 DEF InFlight
    <3>3. Cardinality(InFlight(u) \ {c}) = Cardinality(InFlight(u)) - 1
      BY <3>1, FS_RemoveElement
    <3>4. Cardinality(InFlight(u) \ {c}) \in Nat
      BY <3>1, FS_RemoveElement, FS_CardinalityType
    <3> QED
      BY <2>4, <2>6, <3>2, <3>3, <3>4
  <2>8. MostInWindow = Rpm + k - 1
    BY <1>4, <2>5 DEF MostInWindow
  <2>9. MostInWindow \in Nat \ {0}
    BY <1>4, <2>6, <2>7, <2>8
  <2>10. \A i \in 1 .. Len(a) : i <= Len(a) + 1 - MostInWindow => a[i] + Window <= second
    <3> SUFFICES ASSUME NEW i \in 1 .. Len(a), i <= Len(a) + 1 - MostInWindow
                 PROVE  a[i] + Window <= second
      OBVIOUS
    <3>1. i <= Len(a) + n - MostInWindow
      BY <2>6, <2>7, <2>9
    <3> QED
      BY <2>3, <2>4, <3>1 DEF Foreseen
  <2>11. Foreseen(Append(a, second), n - 1)
    <3>1. PICK b : b = Append(a, second)
      OBVIOUS
    <3>2. Len(b) = Len(a) + 1 /\ \A i \in 1 .. Len(a) : b[i] = a[i]
      BY <1>3, <2>3, <3>1, AppendProperties
    <3>3. ASSUME NEW i \in 1 .. Len(b), i <= Len(b) + (n - 1) - MostInWindow
          PROVE  b[i] + Window <= second
      <4>1. i \in 1 .. Len(a) /\ i <= Len(a) + n - MostInWindow
        BY <1>4, <2>6, <2>7, <2>8, <3>2, <3>3
      <4> QED
        BY <2>3, <2>4, <3>2, <4>1 DEF Foreseen
    <3>4. Foreseen(b, n - 1)
      BY <3>3 DEF Foreseen
    <3> QED
      BY <3>1, <3>4
  <2>12. windows'[u] = Append(w, second) /\ admitted'[u] = Append(admitted[u], second)
    BY <1>2, <1>3, <2>2
  <2>13. limiter = "redis" => Foreseen(Append(admitted[u], second), Cardinality(InFlight(u)'))
    BY <2>1, <2>7, <2>11
  <2>14. limiter # "memory"
    BY <1>4
  <2> QED
    BY <1>2, <2>1, <2>3, <2>9, <2>10, <2>12, <2>13, <2>14, AdmittedOK
<1>7. ASSUME NEW x \in Users, x # u PROVE UserOK(x)'
  <2>1. windows'[x] = windows[x] /\ admitted'[x] = admitted[x]
    BY <1>2, <1>3, <1>7
  <2>2. InFlight(x)' = InFlight(x)
    BY <1>1, <1>2, <1>3, <1>7 DEF InFlight
  <2>3. /\ LastOf(windows'[x], admitted[x]) /\ DroppedIsOld(windows'[x], admitted[x])
        /\ limiter = "redis" => Foreseen(admitted[x], Cardinality(InFlight(x)'))
    BY <2>1, <2>2 DEF RateInv, UserOK
  <2>4. second' >= second
    BY <1>2, <1>3
  <2> QED
    BY <1>2, <1>5, <2>1, <2>3, <2>4, UntouchedOK
<1>8. \A x \in Users : UserOK(x)'
  BY <1>6, <1>7
<1>9. \A d \in Callers : passed'[d] # "none" => Rpm > 0
  BY <1>4
<1> QED
  BY <1>2, <1>4, <1>5, <1>8, <1>9 DEF RateInv

LEMMA FailureKeeps ==
  ASSUME RateAssumption, RateInv, NEW c \in Callers, RedisFails(c)
  PROVE  RateInv'
<1>1. passed' = [passed EXCEPT ![c] = "none"] /\ UNCHANGED <<limiter, second, windows, admitted>>
  BY DEF RedisFails
<1>2. RateTypeOK /\ second \in Nat /\ passed \in [Callers -> Users \cup {"none"}]
      /\ "none" \notin Users
  BY DEF RateInv, RateTypeOK, RateAssumption
<1>3. RateTypeOK'
  BY <1>1, <1>2 DEF RateTypeOK
<1>4. ASSUME NEW x \in Users PROVE UserOK(x)'
  <2>1. PICK a : a = admitted[x]
    OBVIOUS
  <2>2. limiter = "redis" => Foreseen(a, Cardinality(InFlight(x)'))
    <3>1. InFlight(x)' \subseteq InFlight(x)
      BY <1>1, <1>2 DEF InFlight
    <3>2. /\ Cardinality(InFlight(x)') <= Cardinality(InFlight(x))
          /\ Cardinality(InFlight(x)') \in Nat /\ Cardinality(InFlight(x)) \in Nat
      BY <3>1, PendingIsFew, FS_Subset, FS_CardinalityType
    <3>3. PICK n : n = Cardinality(InFlight(x)')
      OBVIOUS
    <3>4. PICK m : m = Cardinality(InFlight(x))
      OBVIOUS
    <3>5. limiter = "redis" => Foreseen(a, m)
      BY <2>1, <3>4 DEF RateInv, UserOK
    <3>6. MostInWindow \in Int /\ Len(a) \in Nat
      <4>1. a \in Seq(Nat)
        BY <2>1 DEF RateInv, RateTypeOK
      <4> QED
        <5>1. Cardinality(Callers) \in Nat /\ Rpm \in Nat /\ Len(a) \in Nat
          BY <4>1, PendingIsFew, LenProperties DEF RateAssumption
        <5> QED
          BY <5>1 DEF MostInWindow
    <3>7. \A i \in 1 .. Len(a) : i <= Len(a) + n - MostInWindow => i <= Len(a) + m - MostInWindow
      BY <3>2, <3>3, <3>4, <3>6
    <3>8. limiter = "redis" => Foreseen(a, n)
      BY <3>5, <3>7 DEF Foreseen
    <3> QED
      BY <3>3, <3>8
  <2>3. LastOf(windows'[x], admitted[x]) /\ DroppedIsOld(windows'[x], admitted[x])
    BY <1>1 DEF RateInv, UserOK
  <2>4. second' >= second
    BY <1>1, <1>2
  <2> QED
    BY <1>1, <1>3, <2>1, <2>2, <2>3, <2>4, UntouchedOK
<1>5. \A d \in Callers : passed'[d] # "none" => passed[d] # "none"
  BY <1>1, <1>2
<1> QED
  BY <1>1, <1>2, <1>3, <1>4, <1>5 DEF RateInv, RateTypeOK

LEMMA RateRests ==
  ASSUME RateAssumption, RateInv, UNCHANGED <<limiter, windows, passed, admitted>>,
         second' = second \/ second' = second + 1
  PROVE  RateInv'
<1>1. RateTypeOK /\ second \in Nat /\ second' \in Nat /\ second' >= second
  BY DEF RateInv, RateTypeOK
<1>2. RateTypeOK'
  BY <1>1 DEF RateTypeOK
<1>3. ASSUME NEW x \in Users PROVE UserOK(x)'
  <2>1. InFlight(x)' = InFlight(x)
    BY DEF InFlight
  <2>2. /\ LastOf(windows'[x], admitted[x]) /\ DroppedIsOld(windows'[x], admitted[x])
        /\ limiter = "redis" => Foreseen(admitted[x], Cardinality(InFlight(x)'))
    BY <2>1 DEF RateInv, UserOK
  <2> QED
    BY <1>1, <1>2, <2>2, UntouchedOK
<1> QED
  BY <1>2, <1>3 DEF RateInv

LEMMA RateStep == RateAssumption /\ RateInv /\ [RateNext]_rateVars => RateInv'
<1> SUFFICES ASSUME RateAssumption, RateInv, [RateNext]_rateVars PROVE RateInv'
  OBVIOUS
<1>1. CASE RateTime
  BY <1>1, RateRests DEF RateTime
<1>2. CASE UNCHANGED rateVars
  BY <1>2, RateRests DEF rateVars
<1> QED
  BY <1>1, <1>2, AdmitKeeps, RefuseKeeps, CheckKeeps, RecordKeeps, FailureKeeps DEF RateNext

\* No window admits more than the limit, nor any second more than the burst, whatever is
\* pruned and evicted; with Redis only the requests in flight at once come on top.
THEOREM WindowsAreAlwaysKept == RateSpec => []NoWindowOverLimit
<1>1. RateInit => RateInv
  BY RateAssumption, RateInitially
<1>2. RateInv /\ [RateNext]_rateVars => RateInv'
  BY RateAssumption, RateStep
<1>3. RateInv => NoWindowOverLimit
  BY RateAssumption, RateInvHolds
<1> QED
  BY <1>1, <1>2, <1>3, PTL DEF RateSpec

-----------------------------------------------------------------------------
(* Strikes                                                                  *)

StrikesTypeOK ==
    /\ strikes \in Nat
    /\ level \in {"normal", "elevated", "locked", "disabled"}
    /\ lockout \in {"none", "running", "over"}
    /\ disabled \in BOOLEAN
    /\ gate \in [Inputs -> {"idle", "scanning", "passed", "blocked"}]
    /\ late \in Nat

Scanning == { i \in Inputs : gate[i] = "scanning" }

\* A strike that comes late uses up one of the inputs scanned since the lock.
LateOnesWereScanning ==
    /\ ~IsLocked => late = 0
    /\ IsLocked => late + Cardinality(Scanning) <= Cardinality(Inputs)

StrikesInv == StrikesTypeOK /\ LateOnesWereScanning /\ LevelsExplained

LEMMA ScanningIsFinite ==
  ASSUME StrikesAssumption
  PROVE  /\ IsFiniteSet(Scanning)
         /\ Cardinality(Scanning) \in Nat /\ Cardinality(Inputs) \in Nat
         /\ Cardinality(Scanning) <= Cardinality(Inputs)
<1>1. Scanning \in SUBSET Inputs
  BY DEF Scanning
<1>2. QED
  BY <1>1, FS_Subset, FS_CardinalityType DEF StrikesAssumption

LEMMA StrikesInitially == StrikesAssumption /\ StrikesInit => StrikesInv
<1> SUFFICES ASSUME StrikesInit PROVE StrikesInv
  OBVIOUS
<1>1. StrikesTypeOK
  BY DEF StrikesInit, StrikesTypeOK
<1>2. LateOnesWereScanning
  BY DEF StrikesInit, LateOnesWereScanning, IsLocked
<1>3. LevelsExplained
  BY DEF StrikesInit, LevelsExplained
<1>4. QED
  BY <1>1, <1>2, <1>3 DEF StrikesInv

\* An input that stops being scanned.
LEMMA OneLessScanning ==
  ASSUME StrikesAssumption, StrikesTypeOK, NEW i \in Scanning,
         NEW place \in {"passed", "blocked"}, gate' = [gate EXCEPT ![i] = place]
  PROVE  Cardinality(Scanning') = Cardinality(Scanning) - 1
<1>1. Scanning' = Scanning \ {i}
  BY DEF StrikesTypeOK, Scanning
<1>2. QED
  BY <1>1, ScanningIsFinite, FS_RemoveElement

LEMMA StrikesStepByStep ==
  StrikesAssumption /\ StrikesInv /\ [StrikesNext]_strikeVars => StrikesInv'
<1> SUFFICES ASSUME StrikesAssumption, StrikesInv, [StrikesNext]_strikeVars
             PROVE  StrikesInv'
  OBVIOUS
<1> USE DEF StrikesInv, StrikesTypeOK
<1>0. /\ Cardinality(Scanning) \in Nat /\ Cardinality(Inputs) \in Nat
      /\ Cardinality(Scanning) <= Cardinality(Inputs)
  BY ScanningIsFinite
<1>1. ASSUME NEW i \in Inputs, AskGate(i) PROVE StrikesInv'
  <2>1. IsLocked => Scanning' = Scanning
    BY <1>1 DEF AskGate, Scanning
  <2>2. IsLocked' = IsLocked
    BY <1>1 DEF AskGate, IsLocked
  <2>3. LateOnesWereScanning'
    BY <1>0, <1>1, <2>1, <2>2 DEF AskGate, LateOnesWereScanning
  <2>4. QED
    BY <1>1, <2>3 DEF AskGate, LevelsExplained
<1>2. ASSUME NEW i \in Inputs, PassGate(i) PROVE StrikesInv'
  <2>1. Cardinality(Scanning') = Cardinality(Scanning) - 1
    BY <1>2, OneLessScanning DEF PassGate, Scanning
  <2>2. LateOnesWereScanning'
    BY <1>0, <1>2, <2>1 DEF PassGate, LateOnesWereScanning, IsLocked
  <2>3. QED
    BY <1>2, <2>2 DEF PassGate, LevelsExplained
<1>3. ASSUME NEW i \in Inputs, RecordViolation(i) PROVE StrikesInv'
  <2>1. Cardinality(Scanning') = Cardinality(Scanning) - 1
    BY <1>3, OneLessScanning DEF RecordViolation, Scanning
  <2>2. LateOnesWereScanning'
    BY <1>0, <1>3, <2>1 DEF RecordViolation, LateOnesWereScanning, IsLocked
  <2>3. LevelsExplained'
    <3>1. strikes' = strikes + 1 /\ (disabled' <=> disabled \/ strikes' >= 3)
      BY <1>3 DEF RecordViolation
    <3>2. /\ strikes' >= 3 => level' = "disabled"
          /\ strikes' = 2 => level' = "locked"
          /\ strikes' = 1 => level' = "elevated"
      BY <1>3 DEF RecordViolation
    <3>3. disabled => strikes >= 2
      BY DEF LevelsExplained
    <3>4. QED
      BY <3>1, <3>2, <3>3 DEF LevelsExplained
  <2>4. StrikesTypeOK'
    BY <1>3 DEF RecordViolation
  <2>5. QED
    BY <2>2, <2>3, <2>4
<1>4. CASE LockoutEnds \/ SubmitAppeal \/ Unlock \/ Enable
  <2>1. Scanning' = Scanning
    BY <1>4 DEF LockoutEnds, SubmitAppeal, Unlock, Enable, Scanning
  <2>2. LateOnesWereScanning'
    BY <1>0, <1>4, <2>1
       DEF LockoutEnds, SubmitAppeal, Unlock, Enable, LateOnesWereScanning, IsLocked
  <2>3. LevelsExplained'
    BY <1>4 DEF LockoutEnds, SubmitAppeal, Unlock, Enable, LevelsExplained
  <2>4. StrikesTypeOK'
    <3>1. CASE LockoutEnds \/ SubmitAppeal
      BY <3>1 DEF LockoutEnds, SubmitAppeal
    <3>2. CASE Unlock
      BY <3>2 DEF Unlock
    <3>3. CASE Enable
      BY <3>3 DEF Enable
    <3>4. QED
      BY <1>4, <3>1, <3>2, <3>3
  <2>5. QED
    BY <2>2, <2>3, <2>4
<1>5. ASSUME NEW n \in 0 .. MaxStrikes, RemoveStrikes(n) PROVE StrikesInv'
  <2>1. Scanning' = Scanning /\ n \in Nat /\ strikes' \in Nat /\ strikes' <= strikes
    BY <1>5 DEF RemoveStrikes, Scanning
  <2>2. StrikesTypeOK' /\ LevelsExplained'
    <3>1. disabled' <=> strikes' >= 3 \/ (strikes' = 2 /\ disabled)
      BY <1>5 DEF RemoveStrikes, Recalculated
    <3>2. /\ strikes' >= 3 => level' = "disabled"
          /\ strikes' = 2 => level' = "locked"
          /\ strikes' = 1 => level' = "elevated"
          /\ strikes' = 0 => level' = "normal"
      BY <1>5 DEF RemoveStrikes, Recalculated
    <3>3. LevelsExplained'
      BY <2>1, <3>1, <3>2 DEF LevelsExplained
    <3>4. disabled' \in BOOLEAN
      BY <1>5, Zenon DEF RemoveStrikes, Recalculated
    <3>5. UNCHANGED gate /\ late' \in Nat /\ lockout' \in {"none", "running", "over"}
      BY <1>5 DEF RemoveStrikes, Recalculated
    <3>6. QED
      BY <2>1, <3>2, <3>3, <3>4, <3>5
  <2>3. LateOnesWereScanning'
    BY <1>0, <1>5, <2>1 DEF RemoveStrikes, Recalculated, Released, LateOnesWereScanning, IsLocked
  <2>4. QED
    BY <2>2, <2>3
<1>6. CASE UNCHANGED strikeVars
  BY <1>6 DEF strikeVars, LateOnesWereScanning, LevelsExplained, IsLocked, Scanning
<1>7. QED
  BY <1>1, <1>2, <1>3, <1>4, <1>5, <1>6 DEF StrikesNext

\* However locks, appeals and pardons follow one another, a locked user gets a late strike only
\* for an input that was already being scanned, and the flag, the level and the count agree
\* (security/gate.py, security/strikes.py).
THEOREM StrikesAreAlwaysConsistent == StrikesSpec => []StrikesAreConsistent
<1>1. StrikesAssumption /\ StrikesInv => StrikesAreConsistent
  BY ScanningIsFinite
     DEF StrikesInv, StrikesTypeOK, StrikesAreConsistent, LockoutStopsStrikes,
         LateOnesWereScanning
<1>2. QED
  BY <1>1, StrikesInitially, StrikesStepByStep, StrikesAssumption, PTL DEF StrikesSpec

-----------------------------------------------------------------------------
(* The marketplace                                                          *)

Browsing == [at : {"none", "hub", "plugins", "asking", "repos", "filter"},
             source : BrowsedSources \cup {""}, page : Nat \ {0}, asked : Nat,
             version : ListVersions \cup {0}, results : Seq(Urls), seen : Nat,
             shown : Seq(Nat), hidden : SUBSET Urls]
Scanned == [kind : {"agent", "skill"}, at : 1 .. 5,
            got : [1 .. 3 -> Contents \cup {"absent"}],
            verdict : {"", "not found", "unsafe", "safe"}]

MarketTypeOK ==
    /\ marketClock \in Nat /\ published \in ListVersions
    /\ replacedAt \in [ListVersions -> Int]
    /\ cached \in [version : ListVersions \cup {0}, stamp : Nat]
    /\ failedFixes \in [Urls -> Nat]
    /\ browse \in [Shoppers -> Browsing]
    /\ files \in [1 .. 3 -> Contents]
    /\ itemScan \in Scanned

\* What the list of cached plugins was when it was asked for, or later.
CachedWasCurrent ==
    /\ cached.stamp <= marketClock
    /\ cached.version # 0 /\ replacedAt[cached.version] # -1 =>
         replacedAt[cached.version] >= cached.stamp

\* A request has a version only of a list it was given, it filters only when it has its
\* results, and what it hides stays delisted.
RequestOK(r) ==
    /\ r.asked <= marketClock
    /\ r.at # "filter" => r.version = 0 /\ r.seen = 0 /\ r.shown = <<>>
    /\ r.seen <= Len(r.results)
    /\ \A u \in r.hidden : failedFixes[u] >= DelistAfter
    /\ \A k \in ToSet(r.shown) : k \in 1 .. r.seen
RecentOK(r) ==
    r.version # 0 /\ replacedAt[r.version] # -1 => r.asked - replacedAt[r.version] < ListLife
FilteredOK(r) ==
    /\ \A k \in ToSet(r.shown) : k <= r.seen /\ r.results[k] \notin r.hidden
    /\ \A k \in (1 .. r.seen) \ ToSet(r.shown) : failedFixes[r.results[k]] >= DelistAfter
    /\ \A k \in 1 .. Len(r.shown) - 1 : r.shown[k] < r.shown[k + 1]

ShopperOK(r) == RequestOK(r) /\ RecentOK(r) /\ FilteredOK(r)
ScanOK == (itemScan.at # 5 => itemScan.verdict = "") /\ SafeIsClean

MarketInv ==
    /\ MarketTypeOK /\ CachedWasCurrent
    /\ \A b \in Shoppers : ShopperOK(browse[b])
    /\ ScanOK

-----------------------------------------------------------------------------

LEMMA PagesAreLists ==
  ASSUME MarketAssumption, NEW list \in Seq(Urls), NEW page \in Nat \ {0}
  PROVE  PageOf(list, page) \in Seq(Urls)
<1> DEFINE m == (page - 1) * PerPage + 1
           n == IF page * PerPage < Len(list) THEN page * PerPage ELSE Len(list)
<1>1. PerPage \in Nat \ {0} /\ page - 1 \in Nat
  BY DEF MarketAssumption
<1>2. (page - 1) * PerPage \in Nat /\ page * PerPage \in Nat
  BY <1>1
<1>3. m \in Nat /\ m >= 1 /\ n \in Nat /\ n <= Len(list)
  <2> DEFINE x == (page - 1) * PerPage
             y == page * PerPage
  <2>1. x \in Nat /\ y \in Nat /\ Len(list) \in Nat
    BY <1>2
  <2>2. m = x + 1 /\ n = IF y < Len(list) THEN y ELSE Len(list)
    OBVIOUS
  <2> HIDE DEF x, y, m, n
  <2> QED
    BY <2>1, <2>2
<1>4. PageOf(list, page) = SubSeq(list, m, n)
  BY DEF PageOf
<1> HIDE DEF m, n
<1>5. \A i \in m .. n : list[i] \in Urls
  BY <1>3
<1> QED
  BY <1>3, <1>4, <1>5, SubSeqProperties

LEMMA ShownAppended ==
  ASSUME NEW s \in Seq(Nat), NEW k \in Nat
  PROVE  /\ Append(s, k) \in Seq(Nat) /\ ToSet(Append(s, k)) = ToSet(s) \cup {k}
         /\ Len(Append(s, k)) = Len(s) + 1
         /\ \A i \in 1 .. Len(s) : Append(s, k)[i] = s[i]
         /\ Append(s, k)[Len(s) + 1] = k
<1>1. /\ Append(s, k) \in Seq(Nat) /\ Len(Append(s, k)) = Len(s) + 1
      /\ \A i \in 1 .. Len(s) : Append(s, k)[i] = s[i]
      /\ Append(s, k)[Len(s) + 1] = k
  OBVIOUS
<1>2. DOMAIN s = 1 .. Len(s) /\ DOMAIN Append(s, k) = 1 .. Len(s) + 1
  OBVIOUS
<1>3. Len(s) \in Nat
  OBVIOUS
<1> DEFINE t == Append(s, k)
<1>4. /\ Len(t) = Len(s) + 1 /\ DOMAIN t = 1 .. Len(s) + 1
      /\ \A i \in 1 .. Len(s) : t[i] = s[i]
      /\ t[Len(s) + 1] = k
  BY <1>1, <1>2
<1> HIDE DEF t
<1>5. \A x \in ToSet(t) : x \in ToSet(s) \cup {k}
  <2> SUFFICES ASSUME NEW i \in 1 .. Len(s) + 1 PROVE t[i] \in ToSet(s) \cup {k}
    BY <1>4 DEF ToSet
  <2>1. i \in 1 .. Len(s) \/ i = Len(s) + 1
    BY <1>3
  <2> QED
    BY <1>2, <1>4, <2>1 DEF ToSet
<1>6. \A x \in ToSet(s) \cup {k} : x \in ToSet(t)
  <2>1. \A i \in 1 .. Len(s) : i \in 1 .. Len(s) + 1
    BY <1>3
  <2>2. Len(s) + 1 \in 1 .. Len(s) + 1
    BY <1>3
  <2> QED
    BY <1>2, <1>4, <2>1, <2>2 DEF ToSet
<1> QED
  BY <1>1, <1>5, <1>6 DEF t

LEMMA ReceivedIsBrowsing ==
  ASSUME MarketTypeOK, NEW b \in Shoppers, NEW items \in Seq(Urls),
         ShopperOK(browse[b]), browse[b].at # "filter"
  PROVE  /\ Receive(b, items) \in Browsing /\ Receive(b, items).version = 0
         /\ Receive(b, items).at \in {"plugins", "filter"}
         /\ Receive(b, items).seen = 0 /\ Receive(b, items).shown = <<>>
         /\ Receive(b, items).asked = browse[b].asked
         /\ Receive(b, items).hidden = browse[b].hidden
<1> DEFINE r == browse[b]
           next == IF r.at = "hub" /\ r.source = "all" THEN "plugins" ELSE "filter"
<1>1. r \in Browsing
  BY DEF MarketTypeOK
<1>2. r.results \o items \in Seq(Urls)
  <2>1. r.results \in Seq(Urls)
    BY <1>1 DEF Browsing
  <2> DEFINE s == r.results
  <2>2. s \in Seq(Urls)
    BY <2>1
  <2> HIDE DEF s
  <2>3. s \o items \in Seq(Urls)
    BY <2>2
  <2> QED
    BY <2>3 DEF s
<1>3. Receive(b, items) = [r EXCEPT !.results = r.results \o items, !.at = next]
  BY DEF Receive
<1>4. r.version = 0 /\ r.seen = 0 /\ r.shown = <<>>
  BY DEF ShopperOK, RequestOK
<1>5. next \in {"plugins", "filter"}
  OBVIOUS
<1> HIDE DEF next
<1> QED
  BY <1>1, <1>2, <1>3, <1>4, <1>5 DEF Browsing

\* A request that has looked at nothing yet is in order.
LEMMA FreshIsOK ==
  ASSUME MarketTypeOK, NEW r \in Browsing, r.asked <= marketClock,
         r.at # "filter" => r.version = 0,
         r.seen = 0, r.shown = <<>>, \A u \in r.hidden : failedFixes[u] >= DelistAfter,
         RecentOK(r)
  PROVE  ShopperOK(r)
<1>1. ToSet(<<>>) = {}
  BY DEF ToSet
<1>2. Len(r.results) \in Nat
  <2>1. r.results \in Seq(Urls)
    BY DEF Browsing
  <2> QED
    BY <2>1, LenProperties
<1>3. 1 .. 0 = {} /\ 1 .. Len(<<>>) - 1 = {}
  OBVIOUS
<1>4. RequestOK(r)
  BY <1>1, <1>2 DEF RequestOK
<1>5. FilteredOK(r)
  BY <1>1, <1>3 DEF FilteredOK
<1> QED
  BY <1>4, <1>5 DEF ShopperOK

LEMMA NoBrowseIsBrowsing == NoBrowse \in Browsing
BY DEF NoBrowse, Browsing

LEMMA NoScanIsScanned == \A kind \in {"agent", "skill"} : NoScan(kind) \in Scanned
<1>1. [n \in 1 .. 3 |-> "absent"] \in [1 .. 3 -> Contents \cup {"absent"}]
  OBVIOUS
<1>2. 1 \in 1 .. 5
  OBVIOUS
<1> QED
  BY <1>1, <1>2 DEF NoScan, Scanned

LEMMA MarketInitially == MarketAssumption /\ MarketInit => MarketInv
<1> SUFFICES ASSUME MarketAssumption, MarketInit PROVE MarketInv
  OBVIOUS
<1>1. 1 \in ListVersions /\ 0 \notin ListVersions
  BY DEF MarketAssumption
<1>2. NoBrowse \in Browsing
  BY NoBrowseIsBrowsing
<1>3. NoScan("agent") \in Scanned
  BY NoScanIsScanned
<1>4. MarketTypeOK
  BY <1>1, <1>2, <1>3 DEF MarketInit, MarketTypeOK, Contents
<1>5. ShopperOK(NoBrowse)
  <2>1. NoBrowse.asked = 0 /\ NoBrowse.version = 0 /\ NoBrowse.seen = 0 /\ NoBrowse.shown = <<>>
        /\ NoBrowse.hidden = {} /\ marketClock = 0
    BY DEF NoBrowse, MarketInit
  <2> QED
    BY <1>2, <1>4, <2>1, FreshIsOK DEF RecentOK
<1>6. \A b \in Shoppers : ShopperOK(browse[b])
  BY <1>5 DEF MarketInit
<1>7. CachedWasCurrent
  BY DEF MarketInit, CachedWasCurrent
<1>8. itemScan.verdict = ""
  BY DEF MarketInit, NoScan
<1>9. ScanOK
  BY <1>8 DEF ScanOK, SafeIsClean
<1> QED
  BY <1>4, <1>6, <1>7, <1>9 DEF MarketInv

-----------------------------------------------------------------------------
(* The steps.  A request moves alone, to one that is in order.              *)

LEMMA RequestMoves ==
  ASSUME MarketInv, NEW b \in Shoppers, NEW r \in Browsing, ShopperOK(r),
         browse' = [browse EXCEPT ![b] = r],
         UNCHANGED <<marketClock, published, replacedAt, cached, failedFixes, files, itemScan>>
  PROVE  MarketInv'
<1>1. MarketTypeOK'
  BY DEF MarketInv, MarketTypeOK
<1>2. CachedWasCurrent'
  BY DEF MarketInv, CachedWasCurrent
<1>3. ScanOK'
  BY DEF MarketInv, ScanOK, SafeIsClean
<1>4. ASSUME NEW c \in Shoppers PROVE ShopperOK(browse[c])'
  <2>1. PICK q : q = browse'[c] /\ ShopperOK(q)
    <3>1. browse \in [Shoppers -> Browsing] /\ ShopperOK(browse[c])
      BY DEF MarketInv, MarketTypeOK
    <3>2. CASE c = b
      BY <3>1, <3>2
    <3>3. CASE c # b
      BY <3>1, <3>3
    <3> QED
      BY <3>2, <3>3
  <2> QED
    BY <2>1 DEF ShopperOK, RequestOK, RecentOK, FilteredOK
<1> QED
  BY <1>1, <1>2, <1>3, <1>4 DEF MarketInv

LEMMA BrowseKeeps ==
  ASSUME MarketAssumption, MarketInv, NEW b \in Shoppers, NEW s \in BrowsedSources,
         NEW page \in Pages, Browse(b, s, page)
  PROVE  MarketInv'
<1> DEFINE h == {u \in Urls : failedFixes[u] >= DelistAfter}
           next == CASE s \in {"all", "clawhub"} -> "hub"
                   [] s = "claude" -> "plugins"
                   [] OTHER -> "repos"
           r == [NoBrowse EXCEPT !.at = next, !.source = s, !.page = page, !.hidden = h]
<1>1. browse' = [browse EXCEPT ![b] = r]
  BY DEF Browse
<1>2. next \in {"hub", "plugins", "repos"}
  OBVIOUS
<1>3. h \subseteq Urls /\ \A u \in h : failedFixes[u] >= DelistAfter
  OBVIOUS
<1>4. page \in Nat \ {0}
  BY DEF MarketAssumption
<1> HIDE DEF next, h
<1>5. PICK n : n = NoBrowse
  OBVIOUS
<1>6. /\ n \in Browsing /\ n.asked = 0 /\ n.version = 0 /\ n.seen = 0 /\ n.shown = <<>>
  BY <1>5, NoBrowseIsBrowsing DEF NoBrowse
<1>7. r = [n EXCEPT !.at = next, !.source = s, !.page = page, !.hidden = h]
  BY <1>5
<1> HIDE DEF r
<1>8. /\ r \in Browsing /\ r.asked = 0 /\ r.version = 0 /\ r.seen = 0 /\ r.shown = <<>>
      /\ r.hidden = h
  BY <1>2, <1>3, <1>4, <1>6, <1>7 DEF Browsing
<1>9. ShopperOK(r)
  <2>1. MarketTypeOK /\ r.asked <= marketClock /\ RecentOK(r)
    BY <1>8 DEF MarketInv, MarketTypeOK, RecentOK
  <2> QED
    BY <1>3, <1>8, <2>1, FreshIsOK
<1> QED
  BY <1>1, <1>8, <1>9, RequestMoves DEF Browse, scanVars

\* Items that come without a version of the list.
LEMMA ReceiveKeeps ==
  ASSUME MarketInv, NEW b \in Shoppers, NEW items \in Seq(Urls), browse[b].at # "filter",
         browse' = [browse EXCEPT ![b] = Receive(b, items)],
         UNCHANGED <<marketClock, published, replacedAt, cached, failedFixes, files, itemScan>>
  PROVE  MarketInv'
<1>1. MarketTypeOK /\ ShopperOK(browse[b])
  BY DEF MarketInv
<1>2. PICK r : r = Receive(b, items)
  OBVIOUS
<1>3. /\ r \in Browsing /\ r.version = 0 /\ r.seen = 0 /\ r.shown = <<>>
      /\ r.asked = browse[b].asked /\ r.hidden = browse[b].hidden
  BY <1>1, <1>2, ReceivedIsBrowsing
<1>4. ShopperOK(r)
  <2>1. r.asked <= marketClock /\ \A u \in r.hidden : failedFixes[u] >= DelistAfter
    BY <1>1, <1>3 DEF ShopperOK, RequestOK
  <2>2. RecentOK(r)
    BY <1>3 DEF RecentOK
  <2> QED
    BY <1>1, <1>3, <2>1, <2>2, FreshIsOK
<1> QED
  BY <1>2, <1>3, <1>4, RequestMoves

LEMMA SourcesKeep ==
  ASSUME MarketAssumption, MarketInv, NEW b \in Shoppers,
         \/ \E a \in HubAnswers : SearchHub(b, a) \/ SearchRepos(b, a)
         \/ HubIsDown(b) \/ ListIsDown(b)
  PROVE  MarketInv'
<1>1. browse[b] \in Browsing
  BY DEF MarketInv, MarketTypeOK
<1>2. browse[b].page \in Nat \ {0}
  <2>1. PICK r \in Browsing : r = browse[b]
    BY <1>1
  <2> QED
    BY <2>1 DEF Browsing
<1>3. PageOf(DemoOf["clawhub"], browse[b].page) \in Seq(Urls)
  <2>1. DemoOf["clawhub"] \in Seq(Urls)
    BY DEF MarketAssumption
  <2> QED
    BY <1>2, <2>1, PagesAreLists
<1>4. ASSUME NEW a \in HubAnswers, SearchHub(b, a) PROVE MarketInv'
  <2>1. a \in Seq(Urls)
    BY DEF MarketAssumption
  <2>2. PageOf(a, 1) \in Seq(Urls)
    BY <2>1, PagesAreLists
  <2>3. CASE a # <<>>
    BY <1>4, <2>2, <2>3, ReceiveKeeps DEF SearchHub, scanVars
  <2>4. CASE a = <<>>
    BY <1>4, <1>3, <2>4, ReceiveKeeps DEF SearchHub, scanVars
  <2> QED
    BY <2>3, <2>4
<1>5. ASSUME NEW a \in HubAnswers, SearchRepos(b, a) PROVE MarketInv'
  <2>1. a \in Seq(Urls) /\ DemoOf["agents"] \in Seq(Urls)
    BY DEF MarketAssumption
  <2>3. CASE a # <<>>
    BY <1>5, <2>1, <2>3, ReceiveKeeps DEF SearchRepos, scanVars
  <2>4. CASE a = <<>>
    BY <1>5, <2>1, <2>4, ReceiveKeeps DEF SearchRepos, scanVars
  <2> QED
    BY <2>3, <2>4
<1>6. CASE HubIsDown(b)
  BY <1>3, <1>6, ReceiveKeeps DEF HubIsDown, scanVars
<1>7. CASE ListIsDown(b)
  <2>1. DemoOf["claude"] \in Seq(Urls)
    BY DEF MarketAssumption
  <2> QED
    BY <1>7, <2>1, ReceiveKeeps DEF ListIsDown, scanVars
<1> QED
  BY <1>4, <1>5, <1>6, <1>7

\* A list taken from the cache was replaced, if at all, after it was asked for, which is less
\* than the life of the list ago.
LEMMA CachedKeeps ==
  ASSUME MarketAssumption, MarketInv, NEW b \in Shoppers, ServeCached(b)
  PROVE  MarketInv'
<1> DEFINE v == cached.version
<1>1. MarketTypeOK /\ ShopperOK(browse[b]) /\ CachedWasCurrent
  BY DEF MarketInv
<1>2. v \in ListVersions /\ cached.stamp \in Nat /\ marketClock \in Nat
      /\ marketClock - cached.stamp < ListLife /\ replacedAt[v] \in Int
  BY <1>1 DEF ServeCached, InTime, MarketTypeOK
<1>3. PluginsOf[v] \in Seq(Urls) /\ ListLife \in Nat
  BY <1>2 DEF MarketAssumption
<1>4. browse[b].at # "filter"
  BY DEF ServeCached
<1>5. PICK q : q = Receive(b, PluginsOf[v])
  OBVIOUS
<1>6. /\ q \in Browsing /\ q.version = 0 /\ q.at \in {"plugins", "filter"} /\ q.seen = 0
      /\ q.shown = <<>> /\ q.asked = browse[b].asked /\ q.hidden = browse[b].hidden
  BY <1>1, <1>3, <1>4, <1>5, ReceivedIsBrowsing
<1>7. PICK r : r = [q EXCEPT !.asked = marketClock, !.version = v]
  OBVIOUS
<1>8. browse' = [browse EXCEPT ![b] = r]
  BY <1>5, <1>7 DEF ServeCached
<1>9. /\ r \in Browsing /\ r.version = v /\ r.asked = marketClock /\ r.at = q.at
      /\ r.seen = 0 /\ r.shown = <<>> /\ r.hidden = browse[b].hidden
  BY <1>2, <1>6, <1>7 DEF Browsing
<1>10. r.at = "filter"
  <2>1. q.at = "filter"
    BY <1>5 DEF Receive, ServeCached
  <2> QED
    BY <1>9, <2>1
<1>11. RecentOK(r)
  <2>1. CASE replacedAt[v] = -1
    BY <1>9, <2>1 DEF RecentOK
  <2>2. CASE replacedAt[v] # -1
    <3>1. replacedAt[v] >= cached.stamp
      BY <1>1, <1>2, <2>2 DEF CachedWasCurrent, MarketAssumption
    <3>2. marketClock - replacedAt[v] < ListLife
      BY <1>2, <1>3, <3>1
    <3> QED
      BY <1>9, <3>2 DEF RecentOK
  <2> QED
    BY <2>1, <2>2
<1>12. \A u \in r.hidden : failedFixes[u] >= DelistAfter
  BY <1>1, <1>9 DEF ShopperOK, RequestOK
<1>13. ShopperOK(r)
  BY <1>1, <1>2, <1>9, <1>10, <1>11, <1>12, FreshIsOK
<1> QED
  BY <1>8, <1>9, <1>13, RequestMoves DEF ServeCached, scanVars

LEMMA AskKeeps ==
  ASSUME MarketInv, NEW b \in Shoppers, AskForList(b)
  PROVE  MarketInv'
<1>1. MarketTypeOK /\ browse[b] \in Browsing /\ ShopperOK(browse[b]) /\ marketClock \in Nat
  BY DEF MarketInv, MarketTypeOK
<1>2. PICK q : q = browse[b]
  OBVIOUS
<1>3. PICK r : r = [q EXCEPT !.at = "asking", !.asked = marketClock]
  OBVIOUS
<1>4. browse' = [browse EXCEPT ![b] = r]
  BY <1>1, <1>2, <1>3 DEF AskForList, MarketTypeOK
<1>5. q.version = 0 /\ q.seen = 0 /\ q.shown = <<>>
  BY <1>1, <1>2 DEF ShopperOK, RequestOK, AskForList
<1>6. /\ r \in Browsing /\ r.version = 0 /\ r.seen = 0 /\ r.shown = <<>>
      /\ r.asked = marketClock /\ r.hidden = q.hidden
  BY <1>1, <1>2, <1>3, <1>5 DEF Browsing
<1>7. \A u \in r.hidden : failedFixes[u] >= DelistAfter
  BY <1>1, <1>2, <1>6 DEF ShopperOK, RequestOK
<1>8. RecentOK(r)
  BY <1>6 DEF RecentOK
<1>9. ShopperOK(r)
  BY <1>1, <1>6, <1>7, <1>8, FreshIsOK
<1> QED
  BY <1>4, <1>6, <1>9, RequestMoves DEF AskForList, scanVars

\* The list that arrives was current at some time since it was asked for.
LEMMA ArrivalKeeps ==
  ASSUME MarketAssumption, MarketInv, NEW b \in Shoppers, NEW v \in ListVersions,
         ListArrives(b, v)
  PROVE  MarketInv'
<1>1. MarketTypeOK /\ ShopperOK(browse[b]) /\ browse[b] \in Browsing
  BY DEF MarketInv, MarketTypeOK
<1>2. browse[b].asked \in Nat /\ browse[b].asked <= marketClock /\ marketClock \in Nat
      /\ replacedAt[v] \in Int
  <2>1. PICK p \in Browsing : p = browse[b]
    BY <1>1
  <2>2. p.asked \in Nat
    BY DEF Browsing
  <2> QED
    BY <1>1, <2>1, <2>2 DEF MarketTypeOK, ShopperOK, RequestOK
<1>3. PluginsOf[v] \in Seq(Urls) /\ ListLife \in Nat \ {0} /\ v # 0
  BY DEF MarketAssumption
<1>4. browse[b].at = "asking" /\ (replacedAt[v] = -1 \/ replacedAt[v] >= browse[b].asked)
  BY DEF ListArrives
<1>5. PICK q : q = Receive(b, PluginsOf[v])
  OBVIOUS
<1>6. /\ q \in Browsing /\ q.version = 0 /\ q.at \in {"plugins", "filter"} /\ q.seen = 0
      /\ q.shown = <<>> /\ q.asked = browse[b].asked /\ q.hidden = browse[b].hidden
  BY <1>1, <1>3, <1>4, <1>5, ReceivedIsBrowsing
<1>7. PICK r : r = [q EXCEPT !.version = v]
  OBVIOUS
<1>8. browse' = [browse EXCEPT ![b] = r]
  BY <1>5, <1>7 DEF ListArrives
<1>9. /\ r \in Browsing /\ r.version = v /\ r.asked = browse[b].asked /\ r.at = q.at
      /\ r.seen = 0 /\ r.shown = <<>> /\ r.hidden = browse[b].hidden
  BY <1>2, <1>6, <1>7 DEF Browsing
<1>10. r.at = "filter"
  <2>1. q.at = "filter"
    BY <1>4, <1>5 DEF Receive
  <2> QED
    BY <1>9, <2>1
<1>11. RecentOK(r)
  BY <1>2, <1>3, <1>4, <1>9 DEF RecentOK
<1>12. \A u \in r.hidden : failedFixes[u] >= DelistAfter
  BY <1>1, <1>9 DEF ShopperOK, RequestOK
<1>13. ShopperOK(r)
  BY <1>1, <1>2, <1>9, <1>10, <1>11, <1>12, FreshIsOK
<1>14. cached' = [version |-> v, stamp |-> browse[b].asked]
  BY DEF ListArrives, Stamp
<1>15. MarketTypeOK'
  <2>1. browse' \in [Shoppers -> Browsing]
    BY <1>1, <1>8, <1>9 DEF MarketTypeOK
  <2>2. cached' \in [version : ListVersions \cup {0}, stamp : Nat]
    BY <1>2, <1>14
  <2> QED
    BY <1>1, <2>1, <2>2 DEF MarketTypeOK, ListArrives, scanVars
<1>16. CachedWasCurrent'
  BY <1>2, <1>4, <1>14 DEF CachedWasCurrent, ListArrives
<1>17. ScanOK'
  BY DEF MarketInv, ScanOK, SafeIsClean, ListArrives, scanVars
<1>18. ASSUME NEW c \in Shoppers PROVE ShopperOK(browse[c])'
  <2>1. PICK p : p = browse'[c] /\ ShopperOK(p)
    <3>1. browse \in [Shoppers -> Browsing] /\ ShopperOK(browse[c])
      BY DEF MarketInv, MarketTypeOK
    <3>2. CASE c = b
      BY <3>1, <3>2, <1>8, <1>13
    <3>3. CASE c # b
      BY <3>1, <3>3, <1>8
    <3> QED
      BY <3>2, <3>3
  <2> QED
    BY <2>1 DEF ShopperOK, RequestOK, RecentOK, FilteredOK, ListArrives
<1> QED
  BY <1>15, <1>16, <1>17, <1>18 DEF MarketInv

LEMMA FilterKeeps ==
  ASSUME MarketAssumption, MarketInv, NEW b \in Shoppers, FilterItem(b)
  PROVE  MarketInv'
<1>1. MarketTypeOK /\ ShopperOK(browse[b]) /\ browse[b] \in Browsing
  BY DEF MarketInv, MarketTypeOK
<1>2. PICK q \in Browsing : q = browse[b]
  BY <1>1
<1> DEFINE k == q.seen + 1
           u == q.results[k]
<1>3. PICK s : s = IF DelistedNow(u) THEN q.shown ELSE Append(q.shown, k)
  OBVIOUS
<1>4. PICK r : r = [q EXCEPT !.seen = k, !.shown = s]
  OBVIOUS
<1>5. browse' = [browse EXCEPT ![b] = r]
  BY <1>1, <1>2, <1>3, <1>4 DEF FilterItem, MarketTypeOK
<1>6. /\ q.seen \in Nat /\ k \in Nat /\ q.shown \in Seq(Nat) /\ q.results \in Seq(Urls)
      /\ q.at = "filter" /\ q.seen < Len(q.results) /\ q.hidden \subseteq Urls
  <2>1. /\ q.seen \in Nat /\ q.shown \in Seq(Nat) /\ q.results \in Seq(Urls)
        /\ q.hidden \in SUBSET Urls
    BY DEF Browsing
  <2>2. q.at = "filter" /\ q.seen < Len(q.results)
    BY <1>2 DEF FilterItem
  <2> QED
    BY <2>1, <2>2
<1>7. Len(q.results) \in Nat /\ k <= Len(q.results)
  BY <1>6, LenProperties
<1>8. u \in Urls
  <2>1. k \in 1 .. Len(q.results)
    BY <1>6, <1>7
  <2> QED
    BY <1>6, <2>1, ElementOfSeq
<1>9. s \in Seq(Nat)
  BY <1>3, <1>6, ShownAppended
<1>10. /\ r \in Browsing /\ r.at = "filter" /\ r.seen = k /\ r.shown = s
       /\ r.version = q.version /\ r.asked = q.asked /\ r.results = q.results
       /\ r.hidden = q.hidden
  BY <1>4, <1>6, <1>9 DEF Browsing
<1>11. /\ q.asked <= marketClock
       /\ \A x \in q.hidden : failedFixes[x] >= DelistAfter
       /\ \A i \in ToSet(q.shown) : i \in 1 .. q.seen /\ q.results[i] \notin q.hidden
       /\ \A i \in (1 .. q.seen) \ ToSet(q.shown) : failedFixes[q.results[i]] >= DelistAfter
       /\ \A i \in 1 .. Len(q.shown) - 1 : q.shown[i] < q.shown[i + 1]
  BY <1>1, <1>2 DEF ShopperOK, RequestOK, FilteredOK
<1>12. DelistAfter \in Nat /\ failedFixes[u] \in Nat
  BY <1>1, <1>8 DEF MarketAssumption, MarketTypeOK
<1> HIDE DEF k, u
<1>13. k = q.seen + 1 /\ u = q.results[k]
  BY DEF k, u
<1>14. ToSet(s) \subseteq ToSet(q.shown) \cup {k}
  BY <1>3, <1>6, ShownAppended
<1>15. k \in ToSet(s) => ~ DelistedNow(u)
  <2>1. k \notin ToSet(q.shown)
    BY <1>6, <1>11, <1>13
  <2> QED
    BY <1>3, <2>1
<1>16. k \notin ToSet(s) => DelistedNow(u)
  BY <1>3, <1>6, ShownAppended
<1>17. ToSet(q.shown) \subseteq ToSet(s)
  BY <1>3, <1>6, ShownAppended
<1>18. RequestOK(r)
  <2>1. \A i \in ToSet(s) : i \in 1 .. k
    BY <1>6, <1>11, <1>13, <1>14
  <2> QED
    BY <1>6, <1>7, <1>10, <1>11, <2>1 DEF RequestOK
<1>19. FilteredOK(r)
  <2>1. ASSUME NEW i \in ToSet(s) PROVE i <= k /\ q.results[i] \notin q.hidden
    <3>1. CASE i \in ToSet(q.shown)
      BY <1>6, <1>11, <1>13, <3>1
    <3>2. CASE i \notin ToSet(q.shown)
      <4>1. i = k /\ ~ DelistedNow(u)
        BY <1>14, <1>15, <3>2
      <4>2. u \notin q.hidden
        BY <1>11, <1>12, <4>1 DEF DelistedNow
      <4> QED
        BY <1>6, <1>13, <4>1, <4>2
    <3> QED
      BY <3>1, <3>2
  <2>2. ASSUME NEW i \in (1 .. k) \ ToSet(s) PROVE failedFixes[q.results[i]] >= DelistAfter
    <3>1. CASE i = k
      BY <1>13, <1>16, <3>1 DEF DelistedNow
    <3>2. CASE i # k
      <4>1. i \in 1 .. q.seen
        BY <1>6, <1>13, <3>2
      <4> QED
        BY <1>11, <1>17, <4>1
    <3> QED
      BY <3>1, <3>2
  <2>3. ASSUME NEW i \in 1 .. Len(s) - 1 PROVE s[i] < s[i + 1]
    <3>1. CASE s = q.shown
      BY <1>11, <3>1
    <3>2. CASE s # q.shown
      <4>1. s = Append(q.shown, k)
        BY <1>3, <3>2
      <4>2. Len(q.shown) \in Nat /\ Len(s) = Len(q.shown) + 1
        BY <1>6, <4>1, ShownAppended, LenProperties
      <4>3. i \in 1 .. Len(q.shown)
        BY <4>2
      <4>4. s[i] = q.shown[i]
        BY <1>6, <4>1, <4>3, ShownAppended
      <4>5. CASE i = Len(q.shown)
        <5>1. s[i + 1] = k
          BY <1>6, <4>1, <4>5, ShownAppended
        <5>2. q.shown[i] \in ToSet(q.shown)
          <6>1. DOMAIN q.shown = 1 .. Len(q.shown)
            BY <1>6
          <6> QED
            BY <4>3, <6>1 DEF ToSet
        <5>3. q.shown[i] \in 1 .. q.seen
          BY <1>11, <5>2
        <5>4. \A x \in 1 .. q.seen : x < k
          BY <1>6, <1>13
        <5> QED
          BY <4>4, <5>1, <5>3, <5>4
      <4>6. CASE i # Len(q.shown)
        <5>1. i \in 1 .. Len(q.shown) - 1 /\ i + 1 \in 1 .. Len(q.shown)
          BY <4>2, <4>3, <4>6
        <5>2. s[i + 1] = q.shown[i + 1]
          BY <1>6, <4>1, <5>1, ShownAppended
        <5> QED
          BY <1>11, <4>4, <5>1, <5>2
      <4> QED
        BY <4>5, <4>6
    <3> QED
      BY <3>1, <3>2
  <2> QED
    BY <1>10, <2>1, <2>2, <2>3 DEF FilteredOK
<1>20. RecentOK(r)
  BY <1>1, <1>2, <1>10 DEF ShopperOK, RecentOK
<1>21. ShopperOK(r)
  BY <1>18, <1>19, <1>20 DEF ShopperOK
<1> QED
  BY <1>5, <1>10, <1>21, RequestMoves DEF FilterItem, scanVars

LEMMA AnswerKeeps ==
  ASSUME MarketInv, NEW b \in Shoppers, Answer(b)
  PROVE  MarketInv'
<1>1. MarketTypeOK
  BY DEF MarketInv
<1>2. /\ NoBrowse.asked = 0 /\ NoBrowse.version = 0 /\ NoBrowse.seen = 0
      /\ NoBrowse.shown = <<>> /\ NoBrowse.hidden = {}
  BY DEF NoBrowse
<1>3. ShopperOK(NoBrowse)
  BY <1>1, <1>2, NoBrowseIsBrowsing, FreshIsOK DEF RecentOK, MarketTypeOK
<1> QED
  BY <1>3, NoBrowseIsBrowsing, RequestMoves DEF Answer, scanVars

LEMMA CountKeeps ==
  ASSUME MarketAssumption, MarketInv, NEW u, CountFailure(u)
  PROVE  MarketInv'
<1>1. MarketTypeOK
  BY DEF MarketInv
<1>2. /\ failedFixes' \in [Urls -> Nat]
      /\ \A x \in Urls : failedFixes'[x] >= failedFixes[x]
  <2>1. failedFixes \in [Urls -> Nat] /\ failedFixes' = [failedFixes EXCEPT ![u] = @ + 1]
    BY <1>1 DEF CountFailure, MarketTypeOK
  <2>2. ASSUME NEW x \in Urls
        PROVE  failedFixes'[x] \in Nat /\ failedFixes'[x] >= failedFixes[x]
    <3>1. failedFixes[x] \in Nat
      BY <2>1
    <3>2. CASE x = u
      BY <2>1, <3>1, <3>2
    <3>3. CASE x # u
      BY <2>1, <3>1, <3>3
    <3> QED
      BY <3>2, <3>3
  <2>3. failedFixes' = [x \in Urls |-> failedFixes'[x]]
    BY <2>1
  <2> QED
    BY <2>2, <2>3
<1>3. MarketTypeOK' /\ CachedWasCurrent' /\ ScanOK'
  BY <1>1, <1>2
     DEF MarketInv, MarketTypeOK, CachedWasCurrent, ScanOK, SafeIsClean, CountFailure, scanVars
<1>4. ASSUME NEW b \in Shoppers PROVE ShopperOK(browse[b])'
  <2>1. PICK q \in Browsing : q = browse[b] /\ ShopperOK(q)
    BY <1>1 DEF MarketInv, MarketTypeOK
  <2>2. browse' = browse /\ UNCHANGED <<marketClock, replacedAt>>
    BY DEF CountFailure
  <2>3. /\ q.hidden \subseteq Urls /\ q.results \in Seq(Urls) /\ q.seen \in Nat
        /\ q.seen <= Len(q.results)
    <3>1. q.hidden \in SUBSET Urls /\ q.results \in Seq(Urls) /\ q.seen \in Nat
      BY DEF Browsing
    <3> QED
      BY <2>1, <3>1 DEF ShopperOK, RequestOK
  <2>4. DelistAfter \in Nat /\ Len(q.results) \in Nat
    BY <2>3, LenProperties DEF MarketAssumption
  <2>5. \A x \in q.hidden : failedFixes'[x] >= DelistAfter
    <3>1. \A x \in q.hidden : x \in Urls /\ failedFixes[x] >= DelistAfter
      BY <2>1, <2>3 DEF ShopperOK, RequestOK
    <3> QED
      BY <1>1, <1>2, <2>4, <3>1 DEF MarketTypeOK
  <2>6. \A k \in (1 .. q.seen) \ ToSet(q.shown) : failedFixes'[q.results[k]] >= DelistAfter
    <3> SUFFICES ASSUME NEW k \in (1 .. q.seen) \ ToSet(q.shown)
                 PROVE  failedFixes'[q.results[k]] >= DelistAfter
      OBVIOUS
    <3>1. k \in 1 .. Len(q.results)
      BY <2>3, <2>4
    <3>2. q.results[k] \in Urls
      BY <2>3, <3>1, ElementOfSeq
    <3>3. failedFixes[q.results[k]] >= DelistAfter
      BY <2>1 DEF ShopperOK, FilteredOK
    <3> QED
      BY <1>1, <1>2, <2>4, <3>2, <3>3 DEF MarketTypeOK
  <2> QED
    BY <2>1, <2>2, <2>5, <2>6 DEF ShopperOK, RequestOK, RecentOK, FilteredOK
<1> QED
  BY <1>3, <1>4 DEF MarketInv

\* A list is replaced now, so what is shown of it was current until now.
LEMMA PublishKeeps ==
  ASSUME MarketAssumption, MarketInv, Publish
  PROVE  MarketInv'
<1>1. MarketTypeOK /\ published \in ListVersions /\ marketClock \in Nat
  BY DEF MarketInv, MarketTypeOK
<1>2. replacedAt' = [replacedAt EXCEPT ![published] = marketClock]
  BY DEF Publish
<1>3. ListLife \in Nat \ {0} /\ 0 \notin ListVersions
  BY DEF MarketAssumption
<1>4. MarketTypeOK'
  BY <1>1, <1>2 DEF MarketTypeOK, Publish, scanVars
<1>5. CachedWasCurrent'
  BY <1>1, <1>2 DEF MarketInv, MarketTypeOK, CachedWasCurrent, Publish
<1>6. ScanOK'
  BY DEF MarketInv, ScanOK, SafeIsClean, Publish, scanVars
<1>7. ASSUME NEW b \in Shoppers PROVE ShopperOK(browse[b])'
  <2>1. PICK q \in Browsing : q = browse[b] /\ ShopperOK(q)
    BY <1>1 DEF MarketInv, MarketTypeOK
  <2>2. browse' = browse /\ UNCHANGED <<marketClock, failedFixes>>
    BY DEF Publish
  <2>3. q.version \in ListVersions \cup {0} /\ q.asked \in Nat /\ q.asked <= marketClock
    <3>1. q.version \in ListVersions \cup {0} /\ q.asked \in Nat
      BY DEF Browsing
    <3> QED
      BY <2>1, <3>1 DEF ShopperOK, RequestOK
  <2>4. q.version # 0 /\ replacedAt'[q.version] # -1 => q.asked - replacedAt'[q.version] < ListLife
    <3>1. CASE q.version = published
      <4>1. replacedAt'[q.version] = marketClock
        BY <1>1, <1>2, <3>1 DEF MarketTypeOK
      <4> QED
        BY <1>1, <1>3, <2>3, <4>1
    <3>2. CASE q.version # published /\ q.version # 0
      <4>1. replacedAt'[q.version] = replacedAt[q.version]
        BY <1>1, <1>2, <2>3, <3>2 DEF MarketTypeOK
      <4> QED
        BY <2>1, <4>1 DEF ShopperOK, RecentOK
    <3> QED
      BY <3>1, <3>2
  <2> QED
    BY <2>1, <2>2, <2>4 DEF ShopperOK, RequestOK, RecentOK, FilteredOK
<1> QED
  BY <1>4, <1>5, <1>6, <1>7 DEF MarketInv

LEMMA MarketTickKeeps ==
  ASSUME MarketInv, MarketTick
  PROVE  MarketInv'
<1>1. MarketTypeOK /\ marketClock \in Nat /\ marketClock' = marketClock + 1
  BY DEF MarketInv, MarketTypeOK, MarketTick
<1>2. UNCHANGED <<published, replacedAt, cached, failedFixes, browse, files, itemScan>>
  BY DEF MarketTick, pageVars, scanVars
<1>3. MarketTypeOK' /\ CachedWasCurrent' /\ ScanOK'
  <2>1. MarketTypeOK'
    BY <1>1, <1>2 DEF MarketTypeOK
  <2>2. cached.stamp \in Nat /\ cached.stamp <= marketClock
    BY <1>1 DEF MarketTypeOK, MarketInv, CachedWasCurrent
  <2>3. cached.stamp <= marketClock'
    BY <1>1, <2>2
  <2>4. CachedWasCurrent'
    BY <1>2, <2>3 DEF MarketInv, CachedWasCurrent
  <2>5. ScanOK'
    BY <1>2 DEF MarketInv, ScanOK, SafeIsClean
  <2> QED
    BY <2>1, <2>4, <2>5
<1>4. ASSUME NEW b \in Shoppers PROVE ShopperOK(browse[b])'
  <2>1. PICK q \in Browsing : q = browse[b] /\ ShopperOK(q)
    BY <1>1 DEF MarketInv, MarketTypeOK
  <2>2. q.asked \in Nat /\ q.asked <= marketClock
    <3>1. q.asked \in Nat
      BY DEF Browsing
    <3> QED
      BY <2>1, <3>1 DEF ShopperOK, RequestOK
  <2>3. q.asked <= marketClock'
    BY <1>1, <2>2
  <2> QED
    BY <1>2, <2>1, <2>3 DEF ShopperOK, RequestOK, RecentOK, FilteredOK
<1> QED
  BY <1>3, <1>4 DEF MarketInv

LEMMA ScanKeeps ==
  ASSUME MarketInv, ScanningNext
  PROVE  MarketInv'
<1>1. MarketTypeOK /\ itemScan \in Scanned /\ files \in [1 .. 3 -> Contents] /\ ScanOK
  BY DEF MarketInv, MarketTypeOK
<1>2. UNCHANGED <<marketClock, published, replacedAt, cached, failedFixes, browse>>
  BY DEF ScanningNext, FetchFile, Judge, ScanAgain, Push, pageVars
<1>3. PICK s \in Scanned : s = itemScan
  BY <1>1
<1>4. s.at \in 1 .. 5 /\ s.got \in [1 .. 3 -> Contents \cup {"absent"}]
  BY DEF Scanned
<1>5. files' \in [1 .. 3 -> Contents] /\ itemScan' \in Scanned /\ ScanOK'
  <2>1. ASSUME NEW yes \in BOOLEAN, FetchFile(yes)
        PROVE  files' \in [1 .. 3 -> Contents] /\ itemScan' \in Scanned /\ ScanOK'
    <3> DEFINE c == IF yes THEN files[s.at] ELSE "absent"
               n == IF s.kind = "skill" THEN 4 ELSE s.at + 1
    <3>1. s.at \in 1 .. 3 /\ itemScan' = [s EXCEPT !.at = n, !.got[s.at] = c]
      BY <1>3, <2>1 DEF FetchFile
    <3>2. c \in Contents \cup {"absent"} /\ n \in 1 .. 5
      BY <1>1, <3>1
    <3>3. s.verdict = ""
      <4>1. s.at # 5
        BY <3>1
      <4> QED
        BY <1>1, <1>3, <4>1 DEF ScanOK
    <3> HIDE DEF c, n
    <3>4. itemScan' \in Scanned /\ itemScan'.verdict = ""
      BY <1>4, <3>1, <3>2, <3>3 DEF Scanned
    <3> QED
      BY <1>1, <2>1, <3>4 DEF ScanOK, SafeIsClean, FetchFile
  <2>2. ASSUME NEW alarm \in BOOLEAN, Judge(alarm)
        PROVE  files' \in [1 .. 3 -> Contents] /\ itemScan' \in Scanned /\ ScanOK'
    <3> DEFINE word == IF \A n \in 1 .. 3 : s.got[n] = "absent" THEN "not found"
                       ELSE IF alarm \/ Unsafe(s.got) THEN "unsafe" ELSE "safe"
    <3>1. itemScan' = [s EXCEPT !.at = 5, !.verdict = word]
      BY <1>3, <2>2 DEF Judge
    <3>2. word \in {"", "not found", "unsafe", "safe"}
      OBVIOUS
    <3>3. word = "safe" => /\ \E n \in 1 .. 3 : s.got[n] # "absent"
                           /\ \A n \in 1 .. 3 : s.got[n] \in {"clean", "absent"}
      <4> HAVE word = "safe"
      <4>1. ~ Unsafe(s.got) /\ \E n \in 1 .. 3 : s.got[n] # "absent"
        OBVIOUS
      <4> QED
        BY <1>4, <4>1 DEF Unsafe, Contents
    <3> HIDE DEF word
    <3>4. itemScan' \in Scanned /\ itemScan'.at = 5 /\ itemScan'.got = s.got
          /\ itemScan'.verdict = word
      <4>1. PICK t : t = [s EXCEPT !.at = 5, !.verdict = word]
        OBVIOUS
      <4>2. t.at = 5 /\ t.got = s.got /\ t.verdict = word
        BY <4>1 DEF Scanned
      <4>3. t \in Scanned
        <5>1. 5 \in 1 .. 5
          OBVIOUS
        <5> QED
          BY <3>2, <4>1, <5>1 DEF Scanned
      <4> QED
        BY <3>1, <4>1, <4>2, <4>3
    <3> QED
      BY <1>1, <2>2, <3>3, <3>4 DEF ScanOK, SafeIsClean, Judge
  <2>3. ASSUME NEW kind \in {"agent", "skill"}, ScanAgain(kind)
        PROVE  files' \in [1 .. 3 -> Contents] /\ itemScan' \in Scanned /\ ScanOK'
    <3>1. NoScan(kind) \in Scanned /\ NoScan(kind).verdict = ""
      BY NoScanIsScanned DEF NoScan
    <3> QED
      BY <1>1, <2>3, <3>1 DEF ScanAgain, ScanOK, SafeIsClean
  <2>4. ASSUME NEW n \in 1 .. 3, NEW c \in Contents, Push(n, c)
        PROVE  files' \in [1 .. 3 -> Contents] /\ itemScan' \in Scanned /\ ScanOK'
    BY <1>1, <2>4 DEF Push, ScanOK, SafeIsClean
  <2> QED
    BY <2>1, <2>2, <2>3, <2>4 DEF ScanningNext
<1>6. MarketTypeOK' /\ CachedWasCurrent'
  BY <1>1, <1>2, <1>5 DEF MarketInv, MarketTypeOK, CachedWasCurrent
<1>7. ASSUME NEW b \in Shoppers PROVE ShopperOK(browse[b])'
  <2>1. ShopperOK(browse[b])
    BY DEF MarketInv
  <2> QED
    BY <1>2, <2>1 DEF ShopperOK, RequestOK, RecentOK, FilteredOK
<1> QED
  BY <1>5, <1>6, <1>7 DEF MarketInv

LEMMA MarketStep == MarketAssumption /\ MarketInv /\ [MarketNext]_marketVars => MarketInv'
<1> SUFFICES ASSUME MarketAssumption, MarketInv, [MarketNext]_marketVars PROVE MarketInv'
  OBVIOUS
<1>1. ASSUME NEW b \in Shoppers,
             \/ \E s \in BrowsedSources, page \in Pages : Browse(b, s, page)
             \/ \E a \in HubAnswers : SearchHub(b, a) \/ SearchRepos(b, a)
             \/ HubIsDown(b) \/ ServeCached(b) \/ AskForList(b) \/ ListIsDown(b)
             \/ \E v \in ListVersions : ListArrives(b, v)
             \/ FilterItem(b) \/ Answer(b)
      PROVE  MarketInv'
  BY <1>1, BrowseKeeps, SourcesKeep, CachedKeeps, AskKeeps, ArrivalKeeps, FilterKeeps,
     AnswerKeeps
<1>2. CASE BrowsingNext
  BY <1>1, <1>2, CountKeeps, PublishKeeps, MarketTickKeeps DEF BrowsingNext
<1>3. CASE ScanningNext
  BY <1>3, ScanKeeps
<1>4. CASE UNCHANGED marketVars
  <2>1. UNCHANGED <<marketClock, published, replacedAt, cached, failedFixes, browse, files,
                    itemScan>>
    BY <1>4 DEF marketVars
  <2>2. MarketTypeOK' /\ CachedWasCurrent' /\ ScanOK'
    BY <2>1 DEF MarketInv, MarketTypeOK, CachedWasCurrent, ScanOK, SafeIsClean
  <2>3. ASSUME NEW b \in Shoppers PROVE ShopperOK(browse[b])'
    <3>1. ShopperOK(browse[b])
      BY DEF MarketInv
    <3> QED
      BY <2>1, <3>1 DEF ShopperOK, RequestOK, RecentOK, FilteredOK
  <2> QED
    BY <2>2, <2>3 DEF MarketInv
<1> QED
  BY <1>2, <1>3, <1>4 DEF MarketNext

LEMMA MarketInvHolds == MarketInv => MarketIsHonest
BY DEF MarketInv, ScanOK, ShopperOK, RecentOK, FilteredOK, MarketIsHonest, ListIsRecent,
       PagesAreFiltered

\* A plugin list is shown for less than its life after it was replaced, whatever requests
\* overlap while it is fetched; a page leaves out exactly what was delisted; and only what was
\* read, and found clean, is called safe.
THEOREM MarketIsAlwaysHonest == MarketSpec => []MarketIsHonest
<1>1. MarketInit => MarketInv
  BY MarketAssumption, MarketInitially
<1>2. MarketInv /\ [MarketNext]_marketVars => MarketInv'
  BY MarketAssumption, MarketStep
<1> QED
  BY <1>1, <1>2, MarketInvHolds, PTL DEF MarketSpec

-----------------------------------------------------------------------------
(* The parts together                                                       *)

\* Limits, lockouts and the marketplace keep their promises in the system of all parts, of
\* which one moves.
THEOREM LimitsAlwaysHold == ServicesSpec => []LimitsHold
<1>1. ServicesInit => RateInit /\ StrikesInit /\ MarketInit
  BY DEF ServicesInit
<1>2. [ServicesNext]_<<part, conduitVars, turnVars, coinVars, sessionVars, rateVars,
                       strikeVars, issueVars, taskVars, canaryVars, buildersVars,
                       fleetVars, accountVars, promptVars, marketVars>>
      => [RateNext]_rateVars /\ [StrikesNext]_strikeVars /\ [MarketNext]_marketVars
  BY DEF ServicesNext, MarketNext
<1>3. ServicesSpec => RateSpec /\ StrikesSpec /\ MarketSpec
  BY <1>1, <1>2, PTL DEF ServicesSpec, RateSpec, StrikesSpec, MarketSpec
<1>4. NoWindowOverLimit /\ StrikesAreConsistent /\ MarketIsHonest => LimitsHold
  BY DEF LimitsHold
<1> QED
  BY <1>3, <1>4, WindowsAreAlwaysKept, StrikesAreAlwaysConsistent, MarketIsAlwaysHonest, PTL
=============================================================================
