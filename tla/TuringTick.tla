----------------------------- MODULE TuringTick -----------------------------
(***************************************************************************)
(* One tick of Project Turing's runtime: the blocking reactor runs the     *)
(* handlers of motivation.py, scheduler.py and one daydream producer per   *)
(* model pool (daydream.py), in that order, on one thread.  Chat clients   *)
(* (runtime/chat.py) insert from threads of their own, and daydreams are   *)
(* imagined on the executor.  An exception ends the handler it leaves,     *)
(* never the tick.                                                         *)
(***************************************************************************)
EXTENDS Naturals, Sequences, FiniteSets, SequencesExt

CONSTANTS
    Deadlines,      \* items a caller may schedule
    OpensAt,        \* early_executable_start and delivery_time of each
    DeliverAt,
    Chats,          \* chat messages
    Pools,          \* chat pools, each with a daydream producer
    LastPool,       \* the pool whose producer was made last
    Cadence,        \* _action_cadence_ticks
    TopX,           \* _top_x
    Cooldown,       \* MIN_TICKS_BETWEEN_DISPATCHES
    MaxTick,        \* bound: ticks
    MaxSchedules    \* bound: schedule() calls

\* A pool's producer is a handler beside the others (tuning.py bounds top_x by 1).
ASSUME TickAssumption ==
    /\ LastPool \in Pools /\ Cadence \in Nat \ {0}
    /\ TopX \in Nat \ {0}
    /\ IsFiniteSet(Pools) /\ Pools \cap {"motivation", "scheduler", "dispatch"} = {}

VARIABLES
    tick,       \* tick_count, which stands for the clock as well
    handler,    \* the handlers the tick has still to run
    sweep,      \* what the action sweep has still to look at
    backlog,    \* motivation's items
    due,        \* scheduler._pending
    inserted,   \* scheduler._inserted
    buffer,     \* scheduler._delivery_buffer
    schedules,  \* deadline -> schedule() calls
    delivered,  \* deadline -> deliveries that succeeded
    pressure,   \* pool -> none, below or above what a daydream needs to fire
    candidate,  \* pool -> whether _active_candidate_id is set
    imagining,  \* pool -> the future in the producer's _pending: none, running or done
    cooldown,   \* pool -> _cooldown_until_tick
    client,     \* chat -> its HTTP thread
    replies,    \* ChatBridge._replies
    awarded,    \* chats with points for creation
    dropped     \* chats whose handler raised

tickVars == <<tick, handler, sweep>>
dueVars == <<due, inserted, buffer, schedules, delivered>>
dreamVars == <<candidate, imagining, cooldown>>
chatVars == <<client, replies, awarded, dropped>>
turingTickVars == <<tickVars, backlog, dueVars, pressure, dreamVars, chatVars>>

Deadline(d) == <<"p0_scheduled", d>>
Message(m) == <<"chat_message", m>>
Daydream(p) == <<"daydream_candidate", p>>

TickInit ==
    /\ tick = 0 /\ handler = <<>> /\ sweep = <<>>
    /\ backlog = {}
    /\ due = {} /\ inserted = {} /\ buffer = {}
    /\ schedules = [d \in Deadlines |-> 0] /\ delivered = [d \in Deadlines |-> 0]
    /\ pressure \in [Pools -> {"none", "low", "high"}]
    /\ candidate = [p \in Pools |-> FALSE]
    /\ imagining = [p \in Pools |-> "none"]
    /\ cooldown = [p \in Pools |-> 0]
    /\ client = [m \in Chats |-> "new"]
    /\ replies = {} /\ awarded = {} /\ dropped = {}

-----------------------------------------------------------------------------
(* The reactor                                                              *)

\* All producers in the order they were made.
Producers == SetToSeq(Pools \ {LastPool}) \o <<LastPool>>

BeginTick ==
    /\ handler = <<>> /\ tick < MaxTick
    /\ tick' = tick + 1
    /\ handler' = <<"motivation", "scheduler">> \o Producers
    /\ UNCHANGED <<sweep, backlog, dueVars, pressure, dreamVars, chatVars>>

Handling(h) == handler # <<>> /\ Head(handler) = h
Return == handler' = Tail(handler)

-----------------------------------------------------------------------------
(* The action sweep                                                         *)

Class(i) == CASE i[1] = "p0_scheduled" -> 0 [] i[1] = "chat_message" -> 1
              [] i[1] = "daydream_candidate" -> 20

\* The backlog by score; no pressure lifts a daydream over a chat message.
ByScore ==
    { s \in SetToSeqs(backlog) : \A k, l \in DOMAIN s : k < l => Class(s[k]) <= Class(s[l]) }

\* The first items of it are looked at.  A chat thread that inserts while the
\* backlog is being scored makes the loop raise: nothing is swept this time.
X_StartSweep ==
    /\ Handling("motivation") /\ sweep = <<>> /\ backlog # {}
    /\ tick % Cadence = 0
    /\ \E s \in ByScore : sweep' = SubSeq(s, 1, IF Len(s) < TopX THEN Len(s) ELSE TopX)
    /\ backlog' = backlog \ ToSet(sweep')
    /\ handler' = <<"dispatch">> \o Tail(handler)
    /\ UNCHANGED <<tick, dueVars, pressure, dreamVars, chatVars>>
StartSweep ==
    /\ Handling("motivation") /\ sweep = <<>> /\ backlog # {}
    /\ tick % Cadence = 0
    /\ \E s \in ByScore : sweep' = SubSeq(s, 1, IF Len(s) < TopX THEN Len(s) ELSE TopX)
    /\ handler' = <<"dispatch">> \o Tail(handler)
    /\ UNCHANGED <<tick, backlog, dueVars, pressure, dreamVars, chatVars>>

NoSweep ==
    /\ Handling("motivation")
    /\ tick % Cadence # 0 \/ backlog = {} \/ \E m \in Chats : client[m] = "waiting"
    /\ Return
    /\ UNCHANGED <<tick, sweep, backlog, dueVars, pressure, dreamVars, chatVars>>

\* The item in hand leaves the backlog whatever its handler does.
Dispatched(i) == Handling("dispatch") /\ sweep # <<>> /\ Head(sweep) = i
NextItem == sweep' = Tail(sweep) /\ handler' = IF Len(sweep) = 1 THEN Tail(handler) ELSE handler
EndSweep == sweep' = <<>> /\ Return

DispatchDeadline(d) ==
    /\ Dispatched(Deadline(d))
    /\ buffer' = buffer \cup {d}
    /\ backlog' = backlog \ {Deadline(d)}
    /\ NextItem
    /\ UNCHANGED <<tick, due, inserted, schedules, delivered, pressure, dreamVars, chatVars>>

\* _on_chat_dispatch(): answers, or says that it could not; resolves, then
\* takes its points.
DispatchChat(m) ==
    /\ Dispatched(Message(m))
    /\ replies' = replies \cup {m}
    /\ awarded' = awarded \cup {m}
    /\ backlog' = backlog \ {Message(m)}
    /\ NextItem
    /\ UNCHANGED <<tick, dueVars, pressure, dreamVars, client, dropped>>

\* The session index is written outside its try: embedding a turn may raise.
ChatRaises(m) ==
    /\ Dispatched(Message(m))
    /\ dropped' = dropped \cup {m}
    /\ backlog' = backlog \ {Message(m)}
    /\ EndSweep
    /\ UNCHANGED <<tick, dueVars, pressure, dreamVars, client, replies, awarded>>

\* Too little pressure: not ready.  The item keeps the slot it had.
SkipDaydream(p) ==
    /\ Dispatched(Daydream(p)) /\ pressure[p] # "high"
    /\ NextItem
    /\ UNCHANGED <<tick, backlog, dueVars, pressure, dreamVars, chatVars>>

\* One handler for all pools, the last one registered, and it leaves other
\* producers' candidates alone.  With nothing to dream of it only cools down.
DispatchDaydream(p, seed) ==
    /\ Dispatched(Daydream(p)) /\ pressure[p] = "high"
    /\ IF p = LastPool
       THEN /\ candidate' = [candidate EXCEPT ![p] = FALSE]
            /\ imagining' = IF seed THEN [imagining EXCEPT ![p] = "running"] ELSE imagining
            /\ cooldown' = [cooldown EXCEPT ![p] = tick + Cooldown]
       ELSE UNCHANGED dreamVars
    /\ backlog' = backlog \ {Daydream(p)}
    /\ NextItem
    /\ UNCHANGED <<tick, dueVars, pressure, chatVars>>

-----------------------------------------------------------------------------
(* The scheduler                                                            *)

Schedule(d) ==
    /\ d \notin due /\ schedules[d] < MaxSchedules
    /\ due' = due \cup {d}
    /\ schedules' = [schedules EXCEPT ![d] = @ + 1]
    /\ UNCHANGED <<tickVars, backlog, inserted, buffer, delivered, pressure, dreamVars, chatVars>>

Open == { d \in due \ inserted : OpensAt[d] <= tick }
Deliverable == { d \in buffer : DeliverAt[d] <= tick }

\* _promote_ready_items(), _flush_deliverables(): of what is deliverable, the
\* callbacks of `done` succeed; the next one raises and the rest is left.
X_SchedulerTick(done) ==
    /\ Handling("scheduler")
    /\ done \subseteq Deliverable
    /\ backlog' = backlog \cup { Deadline(d) : d \in Open }
    /\ delivered' = [d \in Deadlines |-> IF d \in done THEN delivered[d] + 1 ELSE delivered[d]]
    /\ buffer' = buffer \ done
    /\ due' = due \ done
    /\ inserted' = inserted \cup Open
    /\ Return
    /\ UNCHANGED <<tick, sweep, schedules, pressure, dreamVars, chatVars>>
SchedulerTick(done) ==
    /\ Handling("scheduler")
    /\ done \subseteq Deliverable
    /\ backlog' = backlog \cup { Deadline(d) : d \in Open }
    /\ delivered' = [d \in Deadlines |-> IF d \in done THEN delivered[d] + 1 ELSE delivered[d]]
    /\ buffer' = buffer \ done
    /\ due' = due \ done
    /\ inserted' = (inserted \cup Open) \ done
    /\ Return
    /\ UNCHANGED <<tick, sweep, schedules, pressure, dreamVars, chatVars>>

-----------------------------------------------------------------------------
(* Daydream producers                                                       *)

\* The futures that are done are collected; then, unless the pool cools down,
\* a candidate is inserted, or evicted when the pressure is gone.
Busy(p) == candidate[p] \/ imagining[p] = "running"

X_ProducerTick(p) ==
    /\ Handling(p)
    /\ imagining' = [imagining EXCEPT ![p] = IF @ = "done" THEN "none" ELSE @]
    /\ LET cooling == tick < cooldown[p]
           evicts == ~cooling /\ pressure[p] = "none" /\ candidate[p]
           submits == ~cooling /\ pressure[p] # "none" /\ ~Busy(p)
       IN  /\ candidate' = [candidate EXCEPT ![p] = (@ /\ ~evicts) \/ submits]
           /\ backlog' = IF submits THEN backlog \cup {Daydream(p)} ELSE backlog
    /\ Return
    /\ UNCHANGED <<tick, sweep, dueVars, pressure, cooldown, chatVars>>
ProducerTick(p) ==
    /\ Handling(p)
    /\ imagining' = [imagining EXCEPT ![p] = IF @ = "done" THEN "none" ELSE @]
    /\ LET cooling == tick < cooldown[p]
           evicts == ~cooling /\ pressure[p] = "none" /\ candidate[p]
           submits == ~cooling /\ pressure[p] # "none" /\ ~Busy(p)
       IN  /\ candidate' = [candidate EXCEPT ![p] = (@ /\ ~evicts) \/ submits]
           /\ backlog' = IF submits THEN backlog \cup {Daydream(p)}
                         ELSE IF evicts THEN backlog \ {Daydream(p)} ELSE backlog
    /\ Return
    /\ UNCHANGED <<tick, sweep, dueVars, pressure, cooldown, chatVars>>

\* The executor finishes, and the quota of a pool changes.
Imagined(p) ==
    /\ imagining[p] = "running"
    /\ imagining' = [imagining EXCEPT ![p] = "done"]
    /\ UNCHANGED <<tickVars, backlog, dueVars, pressure, candidate, cooldown, chatVars>>

PressureChanges(p, to) ==
    /\ handler = <<>> /\ pressure[p] # to
    /\ pressure' = [pressure EXCEPT ![p] = to]
    /\ UNCHANGED <<tickVars, backlog, dueVars, dreamVars, chatVars>>

-----------------------------------------------------------------------------
(* Chat clients                                                             *)

Ask(m) ==
    /\ client[m] = "new"
    /\ client' = [client EXCEPT ![m] = "waiting"]
    /\ backlog' = backlog \cup {Message(m)}
    /\ UNCHANGED <<tickVars, dueVars, pressure, dreamVars, replies, awarded, dropped>>

TakeReply(m) ==
    /\ client[m] = "waiting" /\ m \in replies
    /\ client' = [client EXCEPT ![m] = "answered"]
    /\ replies' = replies \ {m}
    /\ UNCHANGED <<tickVars, backlog, dueVars, pressure, dreamVars, awarded, dropped>>

\* Its item stays in the backlog, and its event with the bridge.
TimeOut(m) ==
    /\ client[m] = "waiting" /\ m \notin replies
    /\ client' = [client EXCEPT ![m] = "timed out"]
    /\ UNCHANGED <<tickVars, backlog, dueVars, pressure, dreamVars, replies, awarded, dropped>>

-----------------------------------------------------------------------------
TickNext ==
    \/ BeginTick \/ StartSweep \/ NoSweep
    \/ \E d \in Deadlines : DispatchDeadline(d) \/ Schedule(d)
    \/ \E done \in SUBSET Deliverable : SchedulerTick(done)
    \/ \E p \in Pools : SkipDaydream(p) \/ ProducerTick(p) \/ Imagined(p)
                        \/ (\E seed \in BOOLEAN : DispatchDaydream(p, seed))
                        \/ (\E to \in {"none", "low", "high"} : PressureChanges(p, to))
    \/ \E m \in Chats : DispatchChat(m) \/ ChatRaises(m) \/ Ask(m) \/ TakeReply(m) \/ TimeOut(m)

TickSpec == TickInit /\ [][TickNext]_turingTickVars

-----------------------------------------------------------------------------
(* Properties                                                              *)

\* Scheduled work is never stranded: once its window has been noticed it is in
\* the backlog or its output waits in the buffer, and every schedule() call is
\* delivered at most once, also when a callback raises and is called again.
DeadlinesArePlaced ==
    \A d \in Deadlines :
        /\ d \in inserted <=> d \in buffer \/ Deadline(d) \in backlog
        /\ d \in inserted => d \in due
        /\ delivered[d] + (IF d \in due THEN 1 ELSE 0) = schedules[d]

\* A client that waits has something to wait for: its message is in the
\* backlog, its reply is ready, or its handler raised.
WaitingHasAReason ==
    \A m \in Chats : client[m] = "waiting" =>
        m \in replies \/ m \in dropped \/ Message(m) \in backlog

\* At most one candidate of a pool is in the backlog, and one that is there is
\* its producer's own: none outlives the eviction of a pool without pressure.
NoStaleCandidate ==
    \A p \in Pools : Daydream(p) \in backlog => candidate[p] /\ imagining[p] # "running"

\* Everything that waits is where the part that will serve it looks.
BacklogIsSound == DeadlinesArePlaced /\ WaitingHasAReason /\ NoStaleCandidate

\* "Submits a candidate when pressure > 0 ... it sits unfired in the backlog":
\* a producer that holds back because its candidate is queued has it queued.
QueuedCandidateExists ==
    \A p \in Pools : candidate[p] => Daydream(p) \in backlog

\* "Award creation points: agent created content a human will see."
PointsForSeenReplies ==
    \A m \in Chats : m \in awarded => client[m] # "timed out"
=============================================================================
