---------------------------- MODULE TaskSources -----------------------------
(***************************************************************************)
(* Work that no conversation asks for: recurring tasks of users, and       *)
(* requests of workflow tools. The two share no state.                     *)
(***************************************************************************)
EXTENDS Integers, Sequences, FiniteSets

(***************************************************************************)
(* Users' recurring tasks: scheduling/store.py and its routes              *)
(* (api/routes/schedules.py).  A schedule is known by the forms of its     *)
(* minute and hour fields.  No caller of list_enabled() and                *)
(* record_execution() exists in src/: the worker that runs what is due is  *)
(* modelled from their comments.                                           *)
(***************************************************************************)

CONSTANTS
    ScheduleUsers,      \* users
    ScheduleOrg,        \* user -> organisation
    MaxTasksPerUser,
    MaxSchedules,       \* bound: ids given
    MaxRuns             \* bound: executions

ASSUME ScheduleAssumption == MaxTasksPerUser \in Nat /\ MaxSchedules \in Nat

VARIABLES
    schedules,  \* id -> its ScheduledTask
    scheduleIds,
    startedRuns,       \* executions started: their task, whether recorded
    executions, \* id -> executions recorded, in order
    changedBy   \* id -> organisations that changed or read it

scheduleVars == <<schedules, scheduleIds, startedRuns, executions, changedBy>>

ScheduleOrgs == {ScheduleOrg[u] : u \in ScheduleUsers}
\* What _validate_cron_field() tells apart, with the shortest gap in minutes of a
\* schedule whose hour is "*".
MinuteForms == {"*", "*/5", "*/15", "0,1", "61"}
Gap(m) == CASE m \in {"*", "0,1"} -> 1 [] m = "*/5" -> 5 [] OTHER -> 15
Crons == [minute : MinuteForms, hour : {"*", "9"}]

WellFormed(c) == c.minute # "61"
TooFrequent(c) == c.hour = "*" /\ c.minute \in {"*", "*/5"}
ValidateCron(c) == WellFormed(c) /\ ~TooFrequent(c)

NoSchedule == [there |-> FALSE, user |-> "none", org |-> "none", cron |-> "none", enabled |-> FALSE]
ScheduleSeen(n, o) == schedules[n].there /\ schedules[n].org = o
OfUser(u) == {n \in 1..scheduleIds : schedules[n].there /\ schedules[n].user = u}

SchedulesInit ==
    /\ schedules = [n \in 1..MaxSchedules |-> NoSchedule] /\ scheduleIds = 0
    /\ startedRuns = <<>>
    /\ executions = [n \in 1..MaxSchedules |-> <<>>]
    /\ changedBy = [n \in 1..MaxSchedules |-> {}]

CreateSchedule(u, c, on) ==
    /\ ValidateCron(c) /\ Cardinality(OfUser(u)) < MaxTasksPerUser
    /\ scheduleIds < MaxSchedules /\ scheduleIds' = scheduleIds + 1
    /\ schedules' = [schedules EXCEPT ![scheduleIds'] =
          [there |-> TRUE, user |-> u, org |-> ScheduleOrg[u], cron |-> c, enabled |-> on]]
    /\ UNCHANGED <<startedRuns, executions, changedBy>>

Touched(n, u) == changedBy' = [changedBy EXCEPT ![n] = @ \cup {ScheduleOrg[u]}]

X_UpdateSchedule(u, n, c, on) ==
    /\ ScheduleSeen(n, ScheduleOrg[u])
    /\ schedules' = [schedules EXCEPT ![n].cron = c, ![n].enabled = on]
    /\ Touched(n, u) /\ UNCHANGED <<scheduleIds, startedRuns, executions>>
\* Any user of the organisation; owner, organisation and id stay.
UpdateSchedule(u, n, c, on) ==
    /\ ScheduleSeen(n, ScheduleOrg[u]) /\ ValidateCron(c)
    /\ schedules' = [schedules EXCEPT ![n].cron = c, ![n].enabled = on]
    /\ Touched(n, u) /\ UNCHANGED <<scheduleIds, startedRuns, executions>>

X_DeleteSchedule(u, n) ==
    /\ schedules[n].there /\ schedules' = [schedules EXCEPT ![n] = NoSchedule]
    /\ executions' = [executions EXCEPT ![n] = <<>>]
    /\ Touched(n, u) /\ UNCHANGED <<scheduleIds, startedRuns>>
DeleteSchedule(u, n) ==
    /\ ScheduleSeen(n, ScheduleOrg[u]) /\ schedules' = [schedules EXCEPT ![n] = NoSchedule]
    /\ executions' = [executions EXCEPT ![n] = <<>>]
    /\ Touched(n, u) /\ UNCHANGED <<scheduleIds, startedRuns>>

\* "/run" answers "triggered"; nothing is queued.
RunScheduleNow(u, n) ==
    /\ ScheduleSeen(n, ScheduleOrg[u]) /\ Touched(n, u)
    /\ UNCHANGED <<schedules, scheduleIds, startedRuns, executions>>

\* A worker lists what is enabled and runs it; the record may come after an update
\* or a deletion, and record_execution() asks for neither.
ListEnabled == {n \in 1..scheduleIds : schedules[n].there /\ schedules[n].enabled}
StartsRun(n) ==
    /\ n \in ListEnabled /\ Len(startedRuns) < MaxRuns
    /\ startedRuns' = Append(startedRuns, [task |-> n, recorded |-> FALSE])
    /\ UNCHANGED <<schedules, scheduleIds, executions, changedBy>>
RecordExecution(k) ==
    /\ ~startedRuns[k].recorded /\ startedRuns' = [startedRuns EXCEPT ![k].recorded = TRUE]
    /\ executions' = [executions EXCEPT ![startedRuns[k].task] = Append(@, k)]
    /\ UNCHANGED <<schedules, scheduleIds, changedBy>>

SchedulesNext ==
    \/ \E u \in ScheduleUsers, c \in Crons, on \in BOOLEAN :
          \/ CreateSchedule(u, c, on)
          \/ \E n \in 1..scheduleIds : UpdateSchedule(u, n, c, on)
    \/ \E u \in ScheduleUsers, n \in 1..scheduleIds :
          DeleteSchedule(u, n) \/ RunScheduleNow(u, n)
    \/ \E n \in 1..scheduleIds : StartsRun(n)
    \/ \E k \in DOMAIN startedRuns : RecordExecution(k)

SchedulesSpec == SchedulesInit /\ [][SchedulesNext]_scheduleVars

-----------------------------------------------------------------------------
(* Properties                                                              *)

\* get_history(): nothing for a schedule that is gone.
HistoryOf(n, o) == IF ScheduleSeen(n, o) THEN executions[n] ELSE <<>>

\* However users of an organisation change each other's schedules while they run: a
\* user has at most the maximum, every schedule is one that was validated, only its
\* organisation changed it, and its history is of runs of it, each once.
SchedulesAreHeld ==
    /\ \A u \in ScheduleUsers : Cardinality(OfUser(u)) <= MaxTasksPerUser
    /\ \A n \in 1..scheduleIds :
          /\ schedules[n].there =>
                /\ ValidateCron(schedules[n].cron)
                /\ changedBy[n] \subseteq {schedules[n].org}
          /\ Cardinality(changedBy[n]) <= 1
          /\ \A o \in ScheduleOrgs : \A j, k \in DOMAIN HistoryOf(n, o) :
                /\ startedRuns[HistoryOf(n, o)[k]].task = n
                /\ j # k => HistoryOf(n, o)[j] # HistoryOf(n, o)[k]

\* Said and not kept: "Minimum schedule interval: 15 minutes" (scheduling/store.py:5): lists,
\* ranges and a "*" or "*/5" with an hour pass.
IntervalIsKept ==
    \A n \in 1..scheduleIds : schedules[n].there => Gap(schedules[n].cron.minute) >= 15

-----------------------------------------------------------------------------
(***************************************************************************)
(* Requests of workflow tools (api/routes/webhooks.py): a sender stamps a  *)
(* request, sends it again when no answer comes, and the receiver tells    *)
(* the copies by a nonce it remembers for as long as it accepts a stamp.   *)
(* The sender's clock may be ahead of the receiver's.                      *)
(***************************************************************************)

CONSTANTS
    Deliveries,     \* requests of the senders
    NonceOf,        \* delivery -> its nonce; one without shares its stamp's
    Ahead,          \* delivery -> by how much its sender's clock is ahead
    Age,            \* _MAX_TIMESTAMP_AGE_SECONDS, and the nonces' time to live
    MaxHookTime     \* bound: the receiver's clock

ASSUME HooksAssumption ==
    MaxHookTime \in Nat /\ Age \in Nat /\ Ahead \in [Deliveries -> 0..MaxHookTime]

VARIABLES
    hookClock,
    stamps,     \* delivery -> its timestamp, once sent
    nonces,     \* nonce -> when it expires, 0 when it is not remembered
    accepted,   \* delivery -> times at which a copy passed the nonce check
    routed      \* delivery -> times at which one was processed

hookVars == <<hookClock, stamps, nonces, accepted, routed>>

Unsent == -1
NonceIds == {<<NonceOf[d], 0>> : d \in Deliveries} \cup {<<"ts", n>> : n \in 0 .. (2 * MaxHookTime)}
Nonce(d) == IF NonceOf[d] = "none" THEN <<"ts", stamps[d]>> ELSE <<NonceOf[d], 0>>

WebhooksInit ==
    /\ hookClock = 0
    /\ stamps = [d \in Deliveries |-> Unsent]
    /\ nonces = [n \in NonceIds |-> 0]
    /\ accepted = [d \in Deliveries |-> {}] /\ routed = [d \in Deliveries |-> {}]

HookTick ==
    /\ hookClock < MaxHookTime /\ hookClock' = hookClock + 1
    /\ UNCHANGED <<stamps, nonces, accepted, routed>>
Sends(d) ==
    /\ stamps[d] = Unsent /\ stamps' = [stamps EXCEPT ![d] = hookClock + Ahead[d]]
    /\ UNCHANGED <<hookClock, nonces, accepted, routed>>

Distance(a, b) == IF a > b THEN a - b ELSE b - a
Timely(d) == stamps[d] # Unsent /\ Distance(hookClock, stamps[d]) <= Age
\* _prune_expired_nonces() comes first.
Remembered(n) == IF nonces[n] > hookClock THEN nonces[n] ELSE 0
X_FreshNonce(d) == nonces[Nonce(d)] = 0 \/ hookClock > stamps[d]
FreshNonce(d) == Remembered(Nonce(d)) = 0

\* A copy arrives.  The nonce is remembered before the organisation, the rate, the body
\* and the text are looked at: a request refused for one of these stays refused.
Arrives(d, processed) ==
    /\ Timely(d) /\ FreshNonce(d)
    /\ nonces' = [n \in NonceIds |-> IF n = Nonce(d) THEN hookClock + Age ELSE Remembered(n)]
    /\ accepted' = [accepted EXCEPT ![d] = @ \cup {hookClock}]
    /\ routed' = IF processed THEN [routed EXCEPT ![d] = @ \cup {hookClock}] ELSE routed
    /\ UNCHANGED <<hookClock, stamps>>
\* "Duplicate nonce".
Duplicate(d) ==
    /\ Timely(d) /\ ~FreshNonce(d)
    /\ nonces' = [n \in NonceIds |-> Remembered(n)]
    /\ UNCHANGED <<hookClock, stamps, accepted, routed>>

WebhooksNext ==
    \/ HookTick
    \/ \E d \in Deliveries : \/ Sends(d) \/ Duplicate(d)
                             \/ \E processed \in BOOLEAN : Arrives(d, processed)

WebhooksSpec == WebhooksInit /\ [][WebhooksNext]_hookVars

-----------------------------------------------------------------------------
(* Properties                                                              *)

\* However often a request is sent again: one whose sender's clock agrees is taken once
\* until the last moment of its stamp, any other at times a nonce's life apart, and one
\* is refused as a duplicate only when one with its nonce was taken within that time.
CopiesAreTold ==
    /\ \A d \in Deliveries :
          /\ Ahead[d] = 0 => /\ Cardinality(accepted[d]) <= 2
                             /\ \A s, t \in accepted[d] : s < t => t = stamps[d] + Age
          /\ \A s, t \in accepted[d] : s < t => t - s >= Age
          /\ routed[d] \subseteq accepted[d]
          /\ Timely(d) /\ ~FreshNonce(d) =>
                \E e \in Deliveries : /\ Nonce(e) = Nonce(d)
                                      /\ \E t \in accepted[e] : hookClock - t < Age

\* Said and not kept: "nonce-based deduplication" (api/routes/webhooks.py:6): a nonce is
\* forgotten Age after it came, and the stamp of a clock that is ahead is good for longer.
ProcessedOnce == \A d \in Deliveries : Cardinality(routed[d]) <= 1
=============================================================================
