------------------------------- MODULE Reactor -------------------------------
(***************************************************************************)
(* The reactor of src/stronghold/events.py: one loop that, tick by tick,   *)
(* drains an event queue, evaluates every trigger and runs the actions of  *)
(* those that fire, a gate inline and any other as a task of its own.      *)
(*                                                                         *)
(* All of it runs on one event loop.  While a tick evaluates (loop =       *)
(* "scan") nothing else moves; emitters, administrators, action tasks and  *)
(* the clock act while the loop sleeps ("idle"), while a tick awaits a     *)
(* gate ("gate") and when there is no loop ("off", "stopped", "dead").     *)
(*                                                                         *)
(* Time is abstracted to due[t]: the clock condition of t holds at the     *)
(* moment a tick samples the clock.                                        *)
(***************************************************************************)
EXTENDS Naturals, Sequences, SequencesExt

CONSTANTS
    Triggers,     \* trigger names
    Initial,      \* those registered before start(), in order
    Interval,     \* triggers in INTERVAL mode
    Timed,        \* triggers in TIME or STATE mode; all others are in EVENT mode
    Blocking,     \* triggers whose spec says blocking
    Names,        \* event names
    Pattern,      \* names that the regular expression of a trigger matches
    Managed,      \* triggers that are administrated at run time
    MaxFailures,  \* max_failures
    MaxEmit,      \* bound: events emitted
    MaxActive     \* bound: a clock trigger comes due only below so many tasks

ASSUME ReactorAssumption ==
    /\ Initial \in Seq(Triggers)
    /\ \A k, l \in DOMAIN Initial : Initial[k] = Initial[l] => k = l
    /\ Interval \subseteq Triggers /\ Timed \subseteq Triggers
    /\ Blocking \subseteq Triggers /\ Managed \subseteq Triggers
    /\ Pattern \in [Triggers -> SUBSET Names]
    /\ MaxFailures \in Nat \ {0}
    /\ MaxEmit \in Nat /\ MaxActive \in Nat

Clocked == Interval \cup Timed
Events == 1..MaxEmit
Outcomes == {"result", "exception", "no_match", "cancelled"}

VARIABLES
    loop,       \* where start() is
    running,    \* _running
    list,       \* _triggers
    todo,       \* the triggers the running tick has still to evaluate
    same,       \* is the list the tick iterates over still _triggers itself
    enabled,    \* TriggerState.enabled
    broken,     \* TriggerState.disabled_by_breaker
    fails,      \* TriggerState.consecutive_failures
    due,        \* would the clock condition of the trigger hold now
    active,     \* action tasks in flight, per trigger
    emitted,    \* how many events there are; an event is its number
    name,       \* Event.name
    fut,        \* MutableEvent.future: "none", "pending" or an outcome
    queue,      \* _queue
    batch       \* the events the running tick drained

triggerVars == <<enabled, broken, fails>>
eventVars == <<emitted, name, fut>>
reactorVars == <<loop, running, list, todo, same, triggerVars, due, active,
                 eventVars, queue, batch>>

ReactorTypeOK ==
    /\ loop \in {"off", "idle", "scan", "gate", "stopped", "dead"}
    /\ running \in BOOLEAN
    /\ list \in Seq(Triggers) /\ todo \in Seq(Triggers) /\ same \in BOOLEAN
    /\ enabled \in [Triggers -> BOOLEAN] /\ broken \in [Triggers -> BOOLEAN]
    /\ fails \in [Triggers -> Nat]
    /\ due \in [Triggers -> BOOLEAN]
    /\ active \in [Triggers -> Nat]
    /\ emitted \in 0..MaxEmit
    /\ name \in [Events -> Names \cup {"-"}]
    /\ fut \in [Events -> {"none", "pending"} \cup Outcomes]
    /\ queue \in Seq(Events) /\ batch \in Seq(Events)

\* A new interval trigger is due at once: last_fired == 0.
FirstDue(t) ==
    IF t \in Interval THEN {TRUE} ELSE IF t \in Timed THEN BOOLEAN ELSE {FALSE}

ReactorInit ==
    /\ loop = "off" /\ running = FALSE
    /\ list = Initial /\ todo = <<>> /\ same = TRUE
    /\ enabled = [t \in Triggers |-> TRUE]
    /\ broken = [t \in Triggers |-> FALSE]
    /\ fails = [t \in Triggers |-> 0]
    /\ due \in { d \in [Triggers -> BOOLEAN] : \A t \in Triggers : d[t] \in FirstDue(t) }
    /\ active = [t \in Triggers |-> 0]
    /\ emitted = 0
    /\ name = [e \in Events |-> "-"]
    /\ fut = [e \in Events |-> "none"]
    /\ queue = <<>> /\ batch = <<>>

Registered(t) == \E k \in DOMAIN list : list[k] = t

\* The breaker is read off the count of failures.
X_Active(t) == enabled[t] /\ fails[t] < MaxFailures
Active(t) == enabled[t] /\ ~broken[t]
Matches(t, e) == name[e] \in Pattern[t]

\* Code other than the tick runs only while the loop awaits or is not there.
Yielded == loop # "scan"

-----------------------------------------------------------------------------
(* Emitters                                                                *)

\* emit(): no future.  emit_and_wait(): one that the caller waits for.
Emit(n, f) ==
    /\ Yielded
    /\ emitted < MaxEmit
    /\ emitted' = emitted + 1
    /\ name' = [name EXCEPT ![emitted + 1] = n]
    /\ fut' = [fut EXCEPT ![emitted + 1] = f]
    /\ queue' = Append(queue, emitted + 1)
    /\ UNCHANGED <<loop, running, list, todo, same, triggerVars, due, active, batch>>

\* The future keeps a status of its own for a timeout.
X_TimeoutRaw(e) ==
    /\ Yielded
    /\ fut[e] = "pending"
    /\ fut' = [fut EXCEPT ![e] = "timed_out"]
    /\ UNCHANGED <<loop, running, list, todo, same, triggerVars, due, active,
                   emitted, name, queue, batch>>

\* The timeout is left to the loop.
X_TimeoutByLoop(e) ==
    /\ loop \in {"idle", "gate"}
    /\ fut[e] = "pending"
    /\ fut' = [fut EXCEPT ![e] = "cancelled"]
    /\ UNCHANGED <<loop, running, list, todo, same, triggerVars, due, active,
                   emitted, name, queue, batch>>

\* wait_for() gives up and cancels the future.
Timeout(e) ==
    /\ Yielded
    /\ fut[e] = "pending"
    /\ fut' = [fut EXCEPT ![e] = "cancelled"]
    /\ UNCHANGED <<loop, running, list, todo, same, triggerVars, due, active,
                   emitted, name, queue, batch>>

-----------------------------------------------------------------------------
(* The tick                                                                *)

\* start(): also after a stop() that came first.
Start ==
    /\ loop = "off"
    /\ loop' = "idle" /\ running' = TRUE
    /\ UNCHANGED <<list, todo, same, triggerVars, due, active, eventVars, queue, batch>>

\* The events are read but stay in the queue.
X_BeginTickPeek ==
    /\ loop = "idle" /\ running
    /\ loop' = "scan"
    /\ batch' = queue
    /\ todo' = list /\ same' = TRUE
    /\ UNCHANGED <<running, list, triggerVars, due, active, eventVars, queue>>

BeginTick ==
    /\ loop = "idle" /\ running
    /\ loop' = "scan"
    /\ batch' = queue /\ queue' = <<>>
    /\ todo' = list /\ same' = TRUE
    /\ UNCHANGED <<running, list, triggerVars, due, active, eventVars>>

\* _evaluate(): only the first event of the batch that matches counts.
MatchAt(t) == { k \in DOMAIN batch : Matches(t, batch[k]) }

\* A purely event-driven loop looks at the clock only when an event comes.
X_FiresOnEvents(t) == IF t \in Clocked THEN due[t] /\ batch # <<>> ELSE MatchAt(t) # {}

Fires(t) == IF t \in Clocked THEN due[t] ELSE MatchAt(t) # {}
FirstMatch(t) == batch[CHOOSE k \in MatchAt(t) : \A l \in MatchAt(t) : k <= l]

\* Does t answer a waiter inline?
IsGate(t) == t \in Blocking /\ t \notin Clocked /\ fut[FirstMatch(t)] # "none"

\* An inactive trigger, or one whose condition does not hold.
PassOver ==
    /\ loop = "scan" /\ todo # <<>>
    /\ ~Active(Head(todo)) \/ ~Fires(Head(todo))
    /\ todo' = Tail(todo)
    /\ UNCHANGED <<loop, running, list, same, triggerVars, due, active, eventVars, queue, batch>>

\* The trigger fires: last_fired moves on and the action gets its own task.
SpawnAction ==
    /\ loop = "scan" /\ todo # <<>>
    /\ Active(Head(todo)) /\ Fires(Head(todo)) /\ ~IsGate(Head(todo))
    /\ due' = [due EXCEPT ![Head(todo)] = FALSE]
    /\ active' = [active EXCEPT ![Head(todo)] = @ + 1]
    /\ todo' = Tail(todo)
    /\ UNCHANGED <<loop, running, list, same, triggerVars, eventVars, queue, batch>>

\* The tick awaits the action of a gate; todo keeps it at its head.
OpenGate ==
    /\ loop = "scan" /\ todo # <<>>
    /\ Active(Head(todo)) /\ Fires(Head(todo)) /\ IsGate(Head(todo))
    /\ loop' = "gate"
    /\ UNCHANGED <<running, list, todo, same, triggerVars, due, active, eventVars, queue, batch>>

\* The breaker opens one failure late.
X_SettleLate(t, ok) ==
    /\ fails' = [fails EXCEPT ![t] = IF ok THEN 0 ELSE @ + 1]
    /\ broken' = [broken EXCEPT ![t] = @ \/ (~ok /\ fails[t] + 1 > MaxFailures)]
    /\ UNCHANGED enabled

\* consecutive_failures and the breaker after an action of t ended.
Settle(t, ok) ==
    /\ fails' = [fails EXCEPT ![t] = IF ok THEN 0 ELSE @ + 1]
    /\ broken' = [broken EXCEPT ![t] = @ \/ (~ok /\ fails[t] + 1 >= MaxFailures)]
    /\ UNCHANGED enabled

\* The gate's action ends while somebody still waits.
GateReturns(ok) ==
    /\ loop = "gate"
    /\ fut[FirstMatch(Head(todo))] = "pending"
    /\ fut' = [fut EXCEPT ![FirstMatch(Head(todo))] = IF ok THEN "result" ELSE "exception"]
    /\ Settle(Head(todo), ok)
    /\ loop' = "scan"
    /\ todo' = Tail(todo)
    /\ UNCHANGED <<running, list, same, due, active, emitted, name, queue, batch>>

\* The future is done: set_result or set_exception raises InvalidStateError,
\* the second time out of _resolve_blocking, of _tick and of start().
GateRaises ==
    /\ loop = "gate"
    /\ fut[FirstMatch(Head(todo))] # "pending"
    /\ loop' = "dead"
    /\ todo' = <<>> /\ batch' = <<>>
    /\ UNCHANGED <<running, list, same, triggerVars, due, active, eventVars, queue>>

\* The finalisation does not ask whether the future is done.
X_FinalizeAll ==
    /\ loop = "scan" /\ todo = <<>>
    /\ fut' = [e \in Events |->
                 IF fut[e] # "none" /\ \E k \in DOMAIN batch : batch[k] = e
                 THEN "no_match" ELSE fut[e]]
    /\ loop' = "idle"
    /\ batch' = <<>>
    /\ UNCHANGED <<running, list, todo, same, triggerVars, due, active, emitted, name, queue>>

\* The events go back to the queue for triggers registered later.
X_FinalizeRequeue ==
    /\ loop = "scan" /\ todo = <<>>
    /\ fut' = [e \in Events |->
                 IF fut[e] = "pending" /\ \E k \in DOMAIN batch : batch[k] = e
                 THEN "no_match" ELSE fut[e]]
    /\ loop' = "idle"
    /\ queue' = batch \o queue
    /\ batch' = <<>>
    /\ UNCHANGED <<running, list, todo, same, triggerVars, due, active, emitted, name>>

\* All triggers evaluated: whoever still waits is told that nothing matched.
Finalize ==
    /\ loop = "scan" /\ todo = <<>>
    /\ fut' = [e \in Events |->
                 IF fut[e] = "pending" /\ \E k \in DOMAIN batch : batch[k] = e
                 THEN "no_match" ELSE fut[e]]
    /\ loop' = "idle"
    /\ batch' = <<>>
    /\ UNCHANGED <<running, list, todo, same, triggerVars, due, active, emitted, name, queue>>

\* stop(), seen by the loop at its next test.
Stop ==
    /\ Yielded /\ running
    /\ running' = FALSE
    /\ UNCHANGED <<loop, list, todo, same, triggerVars, due, active, eventVars, queue, batch>>

Exit ==
    /\ loop = "idle" /\ ~running
    /\ loop' = "stopped"
    /\ UNCHANGED <<running, list, todo, same, triggerVars, due, active, eventVars, queue, batch>>

\* The application cancels the reactor task right after stop(); a gate being
\* awaited is abandoned, and CancelledError is no Exception.
Kill ==
    /\ loop \in {"idle", "gate"} /\ ~running
    /\ loop' = "stopped"
    /\ todo' = <<>> /\ batch' = <<>>
    /\ UNCHANGED <<running, list, same, triggerVars, due, active, eventVars, queue>>

-----------------------------------------------------------------------------
(* Action tasks, the clock and the administrators                          *)

\* _run_action() ends.
TaskEnds(t, ok) ==
    /\ Yielded
    /\ active[t] > 0
    /\ active' = [active EXCEPT ![t] = @ - 1]
    /\ Settle(t, ok)
    /\ UNCHANGED <<loop, running, list, todo, same, due, eventVars, queue, batch>>

\* A tick samples the clock when it begins, so it moves between ticks only.
ClockComesDue(t) ==
    /\ loop = "idle"
    /\ t \in Clocked /\ ~due[t] /\ active[t] < MaxActive
    /\ due' = [due EXCEPT ![t] = TRUE]
    /\ UNCHANGED <<loop, running, list, todo, same, triggerVars, active, eventVars, queue, batch>>

\* The minute of a TIME trigger passes without a tick having seen it.
WindowCloses(t) ==
    /\ loop = "idle"
    /\ t \in Timed /\ due[t]
    /\ due' = [due EXCEPT ![t] = FALSE]
    /\ UNCHANGED <<loop, running, list, todo, same, triggerVars, active, eventVars, queue, batch>>

\* register(): append a fresh state, in place.  (A name is taken again only
\* when nothing of its former state is in use.)
Register(t) ==
    /\ Yielded
    /\ ~Registered(t) /\ active[t] = 0 /\ \A k \in DOMAIN todo : todo[k] # t
    /\ list' = Append(list, t)
    /\ todo' = IF loop = "gate" /\ same THEN Append(todo, t) ELSE todo
    /\ enabled' = [enabled EXCEPT ![t] = TRUE]
    /\ broken' = [broken EXCEPT ![t] = FALSE]
    /\ fails' = [fails EXCEPT ![t] = 0]
    /\ \E d \in FirstDue(t) : due' = [due EXCEPT ![t] = d]
    /\ UNCHANGED <<loop, running, same, active, eventVars, queue, batch>>

\* unregister(): _triggers is a new list without the one of that name; a tick
\* in progress keeps the old one.
Unregister(t) ==
    /\ Yielded
    /\ \E k \in DOMAIN list : list[k] = t /\ list' = RemoveAt(list, k)
    /\ same' = (loop # "gate")
    /\ UNCHANGED <<loop, running, todo, triggerVars, due, active, eventVars, queue, batch>>

Enable(t) ==
    /\ Yielded
    /\ Registered(t)
    /\ enabled' = [enabled EXCEPT ![t] = TRUE]
    /\ broken' = [broken EXCEPT ![t] = FALSE]
    /\ fails' = [fails EXCEPT ![t] = 0]
    /\ UNCHANGED <<loop, running, list, todo, same, due, active, eventVars, queue, batch>>

Disable(t) ==
    /\ Yielded
    /\ Registered(t)
    /\ enabled' = [enabled EXCEPT ![t] = FALSE]
    /\ UNCHANGED <<loop, running, list, todo, same, broken, fails, due, active,
                   eventVars, queue, batch>>

-----------------------------------------------------------------------------
Tick ==
    \/ BeginTick \/ PassOver \/ SpawnAction \/ OpenGate
    \/ \E ok \in BOOLEAN : GateReturns(ok)
    \/ GateRaises \/ Finalize \/ Exit

EndTask(t) == \E ok \in BOOLEAN : TaskEnds(t, ok)

Admin(t) == Register(t) \/ Unregister(t) \/ Enable(t) \/ Disable(t)

ReactorNext ==
    \/ Start \/ Tick \/ Stop \/ Kill
    \/ \E n \in Names, f \in {"none", "pending"} : Emit(n, f)
    \/ \E e \in Events : Timeout(e)
    \/ \E t \in Triggers : EndTask(t) \/ ClockComesDue(t) \/ WindowCloses(t)
    \/ \E t \in Managed : Admin(t)

\* The event loop schedules the reactor task and the action tasks, an action
\* returns or raises, and wait_for() has a timer.  Nobody has to emit, stop
\* or administrate, and the clock promises nothing.
ReactorFairness ==
    /\ WF_reactorVars(Start)
    /\ WF_reactorVars(Tick)
    /\ \A t \in Triggers : WF_reactorVars(EndTask(t))
    /\ \A e \in Events : WF_reactorVars(Timeout(e))

ReactorSafety == ReactorInit /\ [][ReactorNext]_reactorVars
ReactorSpec == ReactorSafety /\ ReactorFairness

-----------------------------------------------------------------------------
(* Properties                                                              *)

\* However many actions of a trigger are in flight, and whatever an
\* administrator does meanwhile: once the failures in a row reach the limit
\* the breaker is open (_circuit_break, _run_action, enable_trigger).
BreakerTrips ==
    \A t \in Triggers : fails[t] >= MaxFailures => broken[t]

\* A trigger that starts an action is enabled and its breaker is closed, with
\* fewer failures in a row than the limit, whatever happened to it while the
\* tick awaited a gate; a late success of an older task, which resets the
\* count, does not close a breaker.  It is in the list, unless somebody
\* unregistered a trigger while the tick awaited a gate: that tick goes on over
\* the list it began with (is_active, _tick, unregister).
OnlyActiveStart ==
    [][\A t \in Triggers :
        (active'[t] > active[t] \/ (loop # "gate" /\ loop' = "gate" /\ Head(todo) = t))
            => /\ enabled[t] /\ ~broken[t] /\ fails[t] < MaxFailures
               /\ same => Registered(t)]_reactorVars

\* A waiter gets one answer: a verdict, "no match" or the timeout, and no
\* later one replaces it (_resolve_blocking, the finalisation, wait_for).
AnsweredOnce ==
    [][\A e \in Events : fut[e] \in Outcomes => fut'[e] = fut[e]]_reactorVars

\* Events leave in the order they came, none is skipped: those not yet
\* finalized are the last ones emitted.
FinalizedInOrder ==
    LET open == batch \o queue
    IN  \A k \in DOMAIN open : open[k] = emitted - Len(open) + k

\* The loop's variables make sense, and events are finalized in order.
LoopIsSound == ReactorTypeOK /\ FinalizedInOrder

\* Every emitted event is taken into a tick and finalized, unless the loop
\* ends, however long the gates before it take.
EventsAreProcessed ==
    \A e \in Events :
        (\E k \in DOMAIN queue : queue[k] = e)
            ~> \/ \A k \in DOMAIN (batch \o queue) : (batch \o queue)[k] # e
               \/ loop \in {"stopped", "dead"}

\* A due interval trigger fires, unless it is taken out of service or the
\* loop ends: gates and failing triggers delay it but never starve it.
IntervalsFire ==
    \A t \in Interval :
        due[t] ~> ~due[t] \/ ~Active(t) \/ ~Registered(t) \/ loop \in {"stopped", "dead"}

\* Nobody waits for ever, even for a loop that has ended.
WaitersReturn ==
    \A e \in Events : fut[e] = "pending" ~> fut[e] \in Outcomes

\* "runs forever", "Blocks until stop() is called": the loop ends in no other way.
ReactorSurvives == loop # "dead"
=============================================================================
