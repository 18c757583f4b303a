---------------------------- MODULE ReactorProofs ----------------------------
(***************************************************************************)
(* The safety of the reactor for any triggers, event names and bounds.  A  *)
(* breaker, an answer and the order of events each need to know something  *)
(* of the loop: that a tick at a gate still has that gate at its head,     *)
(* that only a tick has a batch, that it evaluates what is in the list     *)
(* unless the list was replaced, and that no event has a future before it  *)
(* is emitted.                                                             *)
(***************************************************************************)
EXTENDS Reactor, SequenceTheorems, TLAPS

GateIsAtHead == loop = "gate" => todo # <<>>

\* Outside a tick there is no batch.
BatchOfTick == loop \notin {"scan", "gate"} => batch = <<>>

\* A tick that still goes over the list itself evaluates only what is in it.
TodoIsListed ==
    same /\ loop \in {"scan", "gate"} => \A k \in 1..Len(todo) : Registered(todo[k])

UnemittedHaveNoFuture == \A e \in Events : e > emitted => fut[e] = "none"

\* The queue holds the last events emitted, the batch those just before them.
QueueInOrder == \A k \in 1..Len(queue) : queue[k] = (emitted - Len(queue)) + k
BatchInOrder ==
    \A k \in 1..Len(batch) : batch[k] = (emitted - Len(queue) - Len(batch)) + k

ReactorInv ==
    /\ ReactorTypeOK /\ BreakerTrips
    /\ GateIsAtHead /\ BatchOfTick /\ TodoIsListed
    /\ UnemittedHaveNoFuture
    /\ QueueInOrder /\ BatchInOrder

\* The steps that leave events, queue and batch alone.
LEMMA SameEvents ==
  ASSUME ReactorInv, UNCHANGED <<emitted, fut, queue, batch>>
  PROVE  UnemittedHaveNoFuture' /\ QueueInOrder' /\ BatchInOrder'
BY DEF ReactorInv, UnemittedHaveNoFuture, QueueInOrder, BatchInOrder

\* The events of a batch that is dropped were the oldest.
LEMMA BatchIsDropped ==
  ASSUME ReactorInv, UNCHANGED <<emitted, queue>>, batch' = <<>>
  PROVE  QueueInOrder' /\ BatchInOrder'
BY DEF ReactorInv, QueueInOrder, BatchInOrder

-----------------------------------------------------------------------------
(* Types                                                                    *)

LEMMA ListTypes ==
  ASSUME NEW s \in Seq(Triggers), NEW t \in Triggers
  PROVE  /\ s # <<>> => Tail(s) \in Seq(Triggers) /\ Head(s) \in Triggers
         /\ Append(s, t) \in Seq(Triggers) /\ Append(s, t) # <<>>
         /\ \A k \in DOMAIN s : RemoveAt(s, k) \in Seq(Triggers)
<1>1. /\ s # <<>> => Tail(s) \in Seq(Triggers) /\ Head(s) \in Triggers
      /\ Append(s, t) \in Seq(Triggers) /\ Append(s, t) # <<>>
  BY HeadTailProperties, AppendProperties
<1>2. ASSUME NEW k \in DOMAIN s PROVE RemoveAt(s, k) \in Seq(Triggers)
  <2>1. DOMAIN s = 1..Len(s) /\ Len(s) \in Nat /\ \A i \in 1..Len(s) : s[i] \in Triggers
    BY LenProperties, ElementOfSeq
  <2>2. SubSeq(s, 1, k - 1) \in Seq(Triggers)
    BY <2>1, SubSeqProperties
  <2>3. SubSeq(s, k + 1, Len(s)) \in Seq(Triggers)
    BY <2>1, SubSeqProperties
  <2>4. QED
    BY <2>2, <2>3, ConcatProperties DEF RemoveAt
<1>3. QED
  BY <1>1, <1>2

LEMMA SettleTypes ==
  ASSUME ReactorInv, NEW t, NEW ok \in BOOLEAN, Settle(t, ok)
  PROVE  /\ fails' \in [Triggers -> Nat] /\ broken' \in [Triggers -> BOOLEAN]
         /\ enabled' = enabled /\ BreakerTrips'
<1>1. CASE t \in Triggers
  <2>1. fails[t] \in Nat /\ fails[t] + 1 \in Nat /\ broken[t] \in BOOLEAN
    BY <1>1 DEF ReactorInv, ReactorTypeOK
  <2>2. /\ fails' = [fails EXCEPT ![t] = IF ok THEN 0 ELSE fails[t] + 1]
        /\ broken' = [broken EXCEPT ![t] = broken[t] \/ (~ok /\ fails[t] + 1 >= MaxFailures)]
        /\ enabled' = enabled
    BY DEF Settle
  <2>3. fails' \in [Triggers -> Nat] /\ broken' \in [Triggers -> BOOLEAN]
    BY <2>1, <2>2 DEF ReactorInv, ReactorTypeOK
  <2>4. \A u \in Triggers \ {t} : fails'[u] = fails[u] /\ broken'[u] = broken[u]
    BY <2>2 DEF ReactorInv, ReactorTypeOK
  <2>5. fails'[t] >= MaxFailures => broken'[t]
    <3>1. fails'[t] = IF ok THEN 0 ELSE fails[t] + 1
      BY <1>1, <2>2 DEF ReactorInv, ReactorTypeOK
    <3>2. broken'[t] = (broken[t] \/ (~ok /\ fails[t] + 1 >= MaxFailures))
      BY <1>1, <2>2 DEF ReactorInv, ReactorTypeOK
    <3>3. ~(0 >= MaxFailures)
      BY ReactorAssumption DEF ReactorAssumption
    <3>4. QED
      BY <3>1, <3>2, <3>3
  <2>6. QED
    BY <2>2, <2>3, <2>4, <2>5 DEF ReactorInv, BreakerTrips
<1>2. CASE t \notin Triggers
  <2>1. UNCHANGED <<fails, broken, enabled>>
    BY <1>2 DEF Settle, ReactorInv, ReactorTypeOK
  <2>2. QED
    BY <2>1 DEF ReactorInv, ReactorTypeOK, BreakerTrips
<1>3. QED
  BY <1>1, <1>2

\* What is still to be evaluated only shrinks, while the list is as it was.
LEMMA TodoStaysListed ==
  ASSUME ReactorInv, UNCHANGED <<list, same>>, todo' = todo \/ (todo # <<>> /\ todo' = Tail(todo)),
         loop \in {"scan", "gate"} \/ loop' \notin {"scan", "gate"}
  PROVE  TodoIsListed'
<1> SUFFICES ASSUME same, loop' \in {"scan", "gate"}, NEW k \in 1..Len(todo')
             PROVE  \E i \in DOMAIN list : list[i] = todo'[k]
  BY DEF TodoIsListed, Registered
<1>1. todo \in Seq(Triggers) /\ \A i \in 1..Len(todo) : Registered(todo[i])
  BY DEF ReactorInv, ReactorTypeOK, TodoIsListed
<1>2. PICK i \in 1..Len(todo) : todo'[k] = todo[i]
  <2>1. CASE todo' = todo
    BY <2>1
  <2>2. CASE todo # <<>> /\ todo' = Tail(todo)
    <3>1. Len(todo) \in Nat /\ Len(todo') = Len(todo) - 1 /\ k + 1 \in 1..Len(todo)
          /\ todo'[k] = todo[k + 1]
      BY <1>1, <2>2, HeadTailProperties
    <3>2. QED
      BY <3>1
  <2>3. QED
    BY <2>1, <2>2
<1>3. QED
  BY <1>1, <1>2 DEF Registered

-----------------------------------------------------------------------------
LEMMA ReactorInitially == ReactorInit => ReactorInv
<1> SUFFICES ASSUME ReactorInit PROVE ReactorInv
  OBVIOUS
<1>1. ReactorTypeOK
  <2>1. due \in [Triggers -> BOOLEAN] /\ list \in Seq(Triggers) /\ emitted \in 0..MaxEmit
    BY ReactorAssumption DEF ReactorInit, ReactorAssumption
  <2>2. \A S : <<>> \in Seq(S)
    BY EmptySeq
  <2>3. todo \in Seq(Triggers) /\ queue \in Seq(Events) /\ batch \in Seq(Events)
    BY <2>2 DEF ReactorInit
  <2>4. fut \in [Events -> {"none", "pending"} \cup Outcomes]
    BY DEF ReactorInit
  <2>5. name \in [Events -> Names \cup {"-"}]
    BY DEF ReactorInit
  <2>6. QED
    BY <2>1, <2>3, <2>4, <2>5 DEF ReactorInit, ReactorTypeOK
<1>2. BreakerTrips
  BY ReactorAssumption DEF ReactorInit, BreakerTrips, ReactorAssumption
<1>3. QED
  BY <1>1, <1>2 DEF ReactorInit, ReactorInv, GateIsAtHead, BatchOfTick, TodoIsListed,
                    UnemittedHaveNoFuture, QueueInOrder, BatchInOrder

\* An event that is emitted comes last.
LEMMA EmitKeeps ==
  ASSUME ReactorInv, NEW n \in Names, NEW f \in {"none", "pending"}, Emit(n, f)
  PROVE  ReactorInv'
<1>1. /\ emitted \in Nat /\ MaxEmit \in Nat /\ emitted + 1 \in Events
      /\ Len(queue) \in Nat /\ Len(batch) \in Nat
  BY ReactorAssumption DEF Emit, ReactorInv, ReactorTypeOK, ReactorAssumption, Events
<1>2. /\ Len(queue') = Len(queue) + 1 /\ queue' \in Seq(Events)
      /\ queue'[Len(queue) + 1] = emitted + 1
      /\ \A k \in 1..Len(queue) : queue'[k] = queue[k]
  BY <1>1 DEF Emit, ReactorInv, ReactorTypeOK
<1>3. ReactorTypeOK'
  <2>1. emitted' \in 0..MaxEmit
    BY <1>1 DEF Emit, Events
  <2>2. /\ name' \in [Events -> Names \cup {"-"}]
        /\ fut' \in [Events -> {"none", "pending"} \cup Outcomes]
    BY DEF Emit, ReactorInv, ReactorTypeOK
  <2>3. QED
    BY <1>2, <2>1, <2>2 DEF Emit, triggerVars, ReactorInv, ReactorTypeOK
<1>4. BreakerTrips' /\ GateIsAtHead' /\ BatchOfTick' /\ TodoIsListed'
  BY DEF Emit, triggerVars, ReactorInv, BreakerTrips, GateIsAtHead, BatchOfTick, TodoIsListed,
         Registered
<1>5. UnemittedHaveNoFuture'
  BY <1>1 DEF Emit, ReactorInv, ReactorTypeOK, UnemittedHaveNoFuture, Events
<1>6. QueueInOrder'
  <2> SUFFICES ASSUME NEW k \in 1..(Len(queue) + 1)
               PROVE  queue'[k] = (emitted + 1 - (Len(queue) + 1)) + k
    <3>1. emitted' = emitted + 1
      BY DEF Emit
    <3>2. emitted' - Len(queue') = emitted + 1 - (Len(queue) + 1)
      BY <1>1, <1>2, <3>1
    <3>3. QED
      BY <1>2, <3>2 DEF QueueInOrder
  <2>1. CASE k = Len(queue) + 1
    BY <1>1, <1>2, <2>1
  <2>2. CASE k # Len(queue) + 1
    <3>1. k \in 1..Len(queue)
      BY <1>1, <2>2
    <3>2. QED
      BY <1>1, <1>2, <3>1 DEF ReactorInv, QueueInOrder
  <2>3. QED
    BY <2>1, <2>2
<1>7. BatchInOrder'
  <2>1. emitted' = emitted + 1 /\ batch' = batch
    BY DEF Emit
  <2>2. emitted' - Len(queue') - Len(batch) = emitted - Len(queue) - Len(batch)
    BY <1>1, <1>2, <2>1
  <2>3. QED
    BY <2>1, <2>2 DEF ReactorInv, BatchInOrder
<1>8. QED
  BY <1>3, <1>4, <1>5, <1>6, <1>7 DEF ReactorInv

LEMMA TimeoutKeeps ==
  ASSUME ReactorInv, NEW e \in Events, Timeout(e)
  PROVE  ReactorInv'
<1>1. /\ fut' \in [Events -> {"none", "pending"} \cup Outcomes]
      /\ \A d \in Events : fut[d] = "none" => fut'[d] = "none"
  BY DEF Timeout, ReactorInv, ReactorTypeOK, Outcomes
<1>2. ReactorTypeOK'
  BY <1>1 DEF Timeout, triggerVars, ReactorInv, ReactorTypeOK
<1>3. QED
  BY <1>1, <1>2 DEF Timeout, triggerVars, ReactorInv, BreakerTrips, GateIsAtHead, BatchOfTick,
                    TodoIsListed, Registered, UnemittedHaveNoFuture, QueueInOrder, BatchInOrder

\* The loop is at rest: what the queue held becomes the batch.
LEMMA BeginTickKeeps ==
  ASSUME ReactorInv, BeginTick
  PROVE  ReactorInv'
<1>1. /\ batch = <<>> /\ batch' = queue /\ queue' = <<>> /\ loop' = "scan" /\ todo' = list
      /\ same' = TRUE /\ UNCHANGED <<running, list, triggerVars, due, active, eventVars>>
  BY DEF BeginTick, ReactorInv, BatchOfTick
<1>2. Len(queue) \in Nat /\ emitted \in Nat
  BY ReactorAssumption DEF ReactorInv, ReactorTypeOK, ReactorAssumption
<1>0. TodoIsListed'
  BY <1>1, LenProperties DEF TodoIsListed, Registered, ReactorInv, ReactorTypeOK
<1>3. ReactorTypeOK' /\ BreakerTrips' /\ GateIsAtHead' /\ BatchOfTick' /\ UnemittedHaveNoFuture'
  BY <1>1 DEF triggerVars, eventVars, ReactorInv, ReactorTypeOK, BreakerTrips, GateIsAtHead,
              BatchOfTick, UnemittedHaveNoFuture
<1>4. QueueInOrder' /\ BatchInOrder'
  <2>1. Len(queue') = 0 /\ emitted' = emitted /\ emitted - 0 - Len(queue) = emitted - Len(queue)
    BY <1>1, <1>2 DEF eventVars
  <2>2. \A k \in 1..0 : FALSE
    OBVIOUS
  <2>3. QED
    BY <1>1, <2>1, <2>2 DEF ReactorInv, QueueInOrder, BatchInOrder
<1>5. QED
  BY <1>0, <1>3, <1>4 DEF ReactorInv

\* The steps of a tick that touch neither events nor breakers.
LEMMA ScanKeeps ==
  ASSUME ReactorInv, PassOver \/ SpawnAction \/ OpenGate
  PROVE  ReactorInv'
<1>1. /\ todo # <<>> /\ loop = "scan" /\ loop' \in {"scan", "gate"}
      /\ loop' = "gate" => todo' = todo
      /\ todo' \in {todo, Tail(todo)}
      /\ UNCHANGED <<running, list, same, enabled, broken, fails, emitted, name, fut, queue, batch>>
  BY DEF PassOver, SpawnAction, OpenGate, triggerVars, eventVars
<1>2. \/ UNCHANGED <<due, active>>
      \/ /\ due' = [due EXCEPT ![Head(todo)] = FALSE]
         /\ active' = [active EXCEPT ![Head(todo)] = @ + 1]
  BY DEF PassOver, SpawnAction, OpenGate
<1>3. Head(todo) \in Triggers /\ Tail(todo) \in Seq(Triggers)
  BY <1>1, ListTypes DEF ReactorInv, ReactorTypeOK
<1>4. due' \in [Triggers -> BOOLEAN] /\ active' \in [Triggers -> Nat]
  <2>1. active[Head(todo)] + 1 \in Nat
    BY <1>3 DEF ReactorInv, ReactorTypeOK
  <2>2. QED
    BY <1>2, <2>1 DEF ReactorInv, ReactorTypeOK
<1>5. ReactorTypeOK'
  BY <1>1, <1>3, <1>4 DEF ReactorInv, ReactorTypeOK
<1>6. BreakerTrips' /\ GateIsAtHead' /\ BatchOfTick' /\ TodoIsListed'
  BY <1>1, TodoStaysListed DEF ReactorInv, BreakerTrips, GateIsAtHead, BatchOfTick
<1>7. QED
  BY <1>1, <1>5, <1>6, SameEvents DEF ReactorInv

LEMMA GateReturnsKeeps ==
  ASSUME ReactorInv, NEW ok \in BOOLEAN, GateReturns(ok)
  PROVE  ReactorInv'
<1> DEFINE e == FirstMatch(Head(todo))
<1>1. todo # <<>> /\ Tail(todo) \in Seq(Triggers)
  BY ListTypes DEF GateReturns, ReactorInv, GateIsAtHead, ReactorTypeOK
<1>2. /\ fut[e] = "pending" /\ fut' = [fut EXCEPT ![e] = IF ok THEN "result" ELSE "exception"]
      /\ Settle(Head(todo), ok) /\ loop' = "scan" /\ todo' = Tail(todo)
      /\ UNCHANGED <<running, list, same, due, active, emitted, name, queue, batch>>
  BY DEF GateReturns
<1> HIDE DEF e
<1>3. /\ fut' \in [Events -> {"none", "pending"} \cup Outcomes]
      /\ \A d \in Events : fut[d] = "none" => fut'[d] = "none"
  BY <1>2 DEF ReactorInv, ReactorTypeOK, Outcomes
<1>4. /\ fails' \in [Triggers -> Nat] /\ broken' \in [Triggers -> BOOLEAN]
      /\ enabled' = enabled /\ BreakerTrips'
  BY <1>2, SettleTypes
<1>5. ReactorTypeOK'
  BY <1>1, <1>2, <1>3, <1>4 DEF ReactorInv, ReactorTypeOK
<1>6. TodoIsListed'
  <2>1. loop = "gate"
    BY DEF GateReturns
  <2>2. QED
    BY <1>1, <1>2, <2>1, TodoStaysListed
<1>7. QED
  BY <1>2, <1>3, <1>4, <1>5, <1>6 DEF ReactorInv, GateIsAtHead, BatchOfTick, UnemittedHaveNoFuture,
                                QueueInOrder, BatchInOrder

\* A tick that ends, by its own or with the loop, drops its batch.
LEMMA TickEndsKeeps ==
  ASSUME ReactorInv, GateRaises \/ Finalize \/ Kill
  PROVE  ReactorInv'
<1>1. /\ batch' = <<>> /\ loop' \in {"idle", "stopped", "dead"} /\ todo' \in {todo, <<>>}
      /\ UNCHANGED <<running, list, same, enabled, broken, fails, due, active, emitted, name,
                     queue>>
  BY DEF GateRaises, Finalize, Kill, triggerVars, eventVars
<1>2. /\ fut' \in [Events -> {"none", "pending"} \cup Outcomes]
      /\ \A d \in Events : fut[d] = "none" => fut'[d] = "none"
  <2>1. CASE Finalize
    BY <2>1 DEF Finalize, ReactorInv, ReactorTypeOK, Outcomes
  <2>2. CASE GateRaises \/ Kill
    BY <2>2 DEF GateRaises, Kill, eventVars, ReactorInv, ReactorTypeOK
  <2>3. QED
    BY <2>1, <2>2
<1>3. ReactorTypeOK'
  <2>1. batch' \in Seq(Events) /\ todo' \in Seq(Triggers) /\ running' \in BOOLEAN
    BY <1>1, EmptySeq DEF ReactorInv, ReactorTypeOK
  <2>2. QED
    BY <1>1, <1>2, <2>1 DEF ReactorInv, ReactorTypeOK
<1>4. BreakerTrips' /\ GateIsAtHead' /\ BatchOfTick' /\ TodoIsListed' /\ UnemittedHaveNoFuture'
  BY <1>1, <1>2 DEF ReactorInv, BreakerTrips, GateIsAtHead, BatchOfTick, TodoIsListed,
                    UnemittedHaveNoFuture
<1>5. QED
  BY <1>1, <1>3, <1>4, BatchIsDropped DEF ReactorInv

LEMMA LoopStartsOrStops ==
  ASSUME ReactorInv, Start \/ Stop \/ Exit
  PROVE  ReactorInv'
<1>1. /\ running' \in BOOLEAN
      /\ loop' = loop \/ (loop \in {"off", "idle"} /\ loop' \in {"idle", "stopped"})
      /\ UNCHANGED <<list, todo, same, enabled, broken, fails, due, active, emitted, name, fut,
                     queue, batch>>
  BY DEF Start, Stop, Exit, triggerVars, eventVars, ReactorInv, ReactorTypeOK
<1>2. ReactorTypeOK' /\ BreakerTrips' /\ GateIsAtHead' /\ BatchOfTick' /\ TodoIsListed'
  BY <1>1, TodoStaysListed DEF ReactorInv, ReactorTypeOK, BreakerTrips, GateIsAtHead, BatchOfTick
<1>3. QED
  BY <1>1, <1>2, SameEvents DEF ReactorInv

LEMMA EndTaskKeeps ==
  ASSUME ReactorInv, NEW t \in Triggers, NEW ok \in BOOLEAN, TaskEnds(t, ok)
  PROVE  ReactorInv'
<1>1. /\ Settle(t, ok)
      /\ UNCHANGED <<loop, running, list, todo, same, due, emitted, name, fut, queue, batch>>
  BY DEF TaskEnds, eventVars
<1>2. active' \in [Triggers -> Nat]
  BY DEF TaskEnds, ReactorInv, ReactorTypeOK
<1>3. /\ fails' \in [Triggers -> Nat] /\ broken' \in [Triggers -> BOOLEAN]
      /\ enabled' = enabled /\ BreakerTrips'
  BY <1>1, SettleTypes
<1>4. ReactorTypeOK' /\ GateIsAtHead' /\ BatchOfTick' /\ TodoIsListed'
  BY <1>1, <1>2, <1>3, TodoStaysListed DEF ReactorInv, ReactorTypeOK, GateIsAtHead, BatchOfTick
<1>5. QED
  BY <1>1, <1>3, <1>4, SameEvents DEF ReactorInv

LEMMA ClockKeeps ==
  ASSUME ReactorInv, NEW t \in Triggers, ClockComesDue(t) \/ WindowCloses(t)
  PROVE  ReactorInv'
<1>1. /\ due' \in [Triggers -> BOOLEAN]
      /\ UNCHANGED <<loop, running, list, todo, same, enabled, broken, fails, active, emitted,
                     name, fut, queue, batch>>
  BY DEF ClockComesDue, WindowCloses, triggerVars, eventVars, ReactorInv, ReactorTypeOK
<1>2. ReactorTypeOK' /\ BreakerTrips' /\ GateIsAtHead' /\ BatchOfTick' /\ TodoIsListed'
  BY <1>1, TodoStaysListed DEF ReactorInv, ReactorTypeOK, BreakerTrips, GateIsAtHead, BatchOfTick
<1>3. QED
  BY <1>1, <1>2, SameEvents DEF ReactorInv

\* A new trigger joins both the list and what is still to be evaluated; one that
\* leaves the list makes the tick's list another.
LEMMA AdminKeepsListed ==
  ASSUME ReactorInv, NEW t \in Managed, Admin(t)
  PROVE  TodoIsListed'
<1>1. CASE Register(t)
  <2>1. t \in Triggers
    BY ReactorAssumption DEF ReactorAssumption
  <2>2. /\ list' = Append(list, t) /\ loop # "scan" /\ loop' = loop /\ same' = same
        /\ todo' = IF loop = "gate" /\ same THEN Append(todo, t) ELSE todo
    BY <1>1 DEF Register, Yielded
  <2>3. list \in Seq(Triggers) /\ todo \in Seq(Triggers)
    BY DEF ReactorInv, ReactorTypeOK
  <2>4. /\ Len(list) \in Nat /\ DOMAIN list = 1..Len(list) /\ DOMAIN list' = 1..(Len(list) + 1)
        /\ list'[Len(list) + 1] = t /\ \A i \in 1..Len(list) : list'[i] = list[i]
    BY <2>1, <2>2, <2>3, AppendProperties, LenProperties
  <2>5. Registered(t)' /\ \A u : Registered(u) => \E i \in DOMAIN list' : list'[i] = u
    BY <2>4 DEF Registered
  <2>6. CASE loop = "gate" /\ same
    <3>1. /\ Len(todo) \in Nat /\ Len(todo') = Len(todo) + 1
          /\ todo'[Len(todo) + 1] = t /\ \A i \in 1..Len(todo) : todo'[i] = todo[i]
      BY <2>1, <2>2, <2>3, <2>6, AppendProperties
    <3>2. \A i \in 1..Len(todo) : Registered(todo[i])
      BY <2>6 DEF ReactorInv, TodoIsListed
    <3>3. ASSUME NEW k \in 1..Len(todo') PROVE \E i \in DOMAIN list' : list'[i] = todo'[k]
      <4>1. CASE k = Len(todo) + 1
        BY <2>5, <3>1, <4>1 DEF Registered
      <4>2. CASE k # Len(todo) + 1
        <5>1. k \in 1..Len(todo)
          BY <3>1, <4>2
        <5>2. QED
          BY <2>5, <3>1, <3>2, <5>1
      <4>3. QED
        BY <4>1, <4>2
    <3>4. QED
      BY <3>3 DEF TodoIsListed, Registered
  <2>7. CASE ~(loop = "gate" /\ same)
    BY <2>2, <2>7 DEF TodoIsListed
  <2>8. QED
    BY <2>6, <2>7
<1>2. CASE Unregister(t)
  BY <1>2 DEF Unregister, Yielded, TodoIsListed
<1>3. CASE Enable(t) \/ Disable(t)
  BY <1>3, TodoStaysListed DEF Enable, Disable, Yielded
<1>4. QED
  BY <1>1, <1>2, <1>3 DEF Admin

\* An administrator closes a breaker only together with resetting its count.
LEMMA AdminKeeps ==
  ASSUME ReactorInv, NEW t \in Managed, Admin(t)
  PROVE  ReactorInv'
<1>1. t \in Triggers /\ ~(0 >= MaxFailures)
  BY ReactorAssumption DEF ReactorAssumption
<1>2. UNCHANGED <<loop, running, active, emitted, name, fut, queue, batch>>
  BY DEF Admin, Register, Unregister, Enable, Disable, eventVars
<1>3. list' \in Seq(Triggers) /\ todo' \in Seq(Triggers) /\ (todo # <<>> => todo' # <<>>)
  BY <1>1, ListTypes DEF Admin, Register, Unregister, Enable, Disable, ReactorInv, ReactorTypeOK
<1>4. due' \in [Triggers -> BOOLEAN]
  BY <1>1 DEF Admin, Register, Unregister, Enable, Disable, FirstDue, ReactorInv, ReactorTypeOK
<1>5. /\ enabled' \in [Triggers -> BOOLEAN] /\ same' \in BOOLEAN
      /\ \/ UNCHANGED <<broken, fails>>
         \/ broken' = [broken EXCEPT ![t] = FALSE] /\ fails' = [fails EXCEPT ![t] = 0]
  BY DEF Admin, Register, Unregister, Enable, Disable, triggerVars, ReactorInv, ReactorTypeOK
<1>6. fails' \in [Triggers -> Nat] /\ broken' \in [Triggers -> BOOLEAN] /\ BreakerTrips'
  <2>1. CASE UNCHANGED <<broken, fails>>
    BY <2>1 DEF ReactorInv, ReactorTypeOK, BreakerTrips
  <2>2. CASE broken' = [broken EXCEPT ![t] = FALSE] /\ fails' = [fails EXCEPT ![t] = 0]
    <3>1. fails' \in [Triggers -> Nat] /\ broken' \in [Triggers -> BOOLEAN]
      BY <1>1, <2>2 DEF ReactorInv, ReactorTypeOK
    <3>2. /\ fails'[t] = 0
          /\ \A u \in Triggers \ {t} : fails'[u] = fails[u] /\ broken'[u] = broken[u]
      BY <1>1, <2>2 DEF ReactorInv, ReactorTypeOK
    <3>3. QED
      BY <1>1, <3>1, <3>2 DEF ReactorInv, BreakerTrips
  <2>3. QED
    BY <1>5, <2>1, <2>2
<1>7. ReactorTypeOK' /\ GateIsAtHead' /\ BatchOfTick'
  BY <1>2, <1>3, <1>4, <1>5, <1>6 DEF ReactorInv, ReactorTypeOK, GateIsAtHead, BatchOfTick
<1>8. TodoIsListed'
  BY AdminKeepsListed
<1>9. QED
  BY <1>2, <1>6, <1>7, <1>8, SameEvents DEF ReactorInv

LEMMA ReactorInvariance == ReactorSafety => []ReactorInv
<1>1. ReactorInv /\ [ReactorNext]_reactorVars => ReactorInv'
  <2> SUFFICES ASSUME ReactorInv, [ReactorNext]_reactorVars PROVE ReactorInv'
    OBVIOUS
  <2>1. CASE UNCHANGED reactorVars
    BY <2>1 DEF reactorVars, triggerVars, eventVars, ReactorInv, ReactorTypeOK, BreakerTrips,
                GateIsAtHead, BatchOfTick, TodoIsListed, Registered, UnemittedHaveNoFuture,
                QueueInOrder, BatchInOrder
  <2>2. ASSUME NEW n \in Names, NEW f \in {"none", "pending"}, Emit(n, f) PROVE ReactorInv'
    BY <2>2, EmitKeeps
  <2>3. ASSUME NEW e \in Events, Timeout(e) PROVE ReactorInv'
    BY <2>3, TimeoutKeeps
  <2>4. ASSUME NEW t \in Triggers, EndTask(t) PROVE ReactorInv'
    BY <2>4, EndTaskKeeps DEF EndTask
  <2>5. ASSUME NEW t \in Triggers, ClockComesDue(t) \/ WindowCloses(t) PROVE ReactorInv'
    BY <2>5, ClockKeeps
  <2>6. ASSUME NEW t \in Managed, Admin(t) PROVE ReactorInv'
    BY <2>6, AdminKeeps
  <2>7. CASE Tick
    BY <2>7, BeginTickKeeps, ScanKeeps, GateReturnsKeeps, TickEndsKeeps, LoopStartsOrStops
    DEF Tick
  <2>8. CASE Start \/ Stop \/ Kill
    BY <2>8, LoopStartsOrStops, TickEndsKeeps
  <2>9. QED
    BY <2>1, <2>2, <2>3, <2>4, <2>5, <2>6, <2>7, <2>8 DEF ReactorNext
<1>2. QED
  BY <1>1, ReactorInitially, PTL DEF ReactorSafety

-----------------------------------------------------------------------------
\* The loop's variables keep their types and events are finalized in the order
\* in which they were emitted, none of them skipped (emit, _tick).
THEOREM ReactorLoopIsSound == ReactorSafety => []LoopIsSound
<1>1. ReactorInv => LoopIsSound
  <2> SUFFICES ASSUME ReactorInv PROVE FinalizedInOrder
    BY DEF ReactorInv, LoopIsSound
  <2> DEFINE open == batch \o queue
             b == Len(batch)
             q == Len(queue)
  <2>1. b \in Nat /\ q \in Nat /\ emitted \in Nat
    BY ReactorAssumption DEF ReactorInv, ReactorTypeOK, ReactorAssumption
  <2>2. /\ Len(open) = b + q /\ DOMAIN open = 1..(b + q)
        /\ \A k \in 1..(b + q) : open[k] = IF k <= b THEN batch[k] ELSE queue[k - b]
    BY ConcatProperties, LenProperties DEF ReactorInv, ReactorTypeOK
  <2> HIDE DEF open, b, q
  <2>3. ASSUME NEW k \in 1..(b + q) PROVE open[k] = emitted - (b + q) + k
    <3>1. CASE k <= b
      <4>1. k \in 1..b
        BY <2>1, <3>1
      <4>2. open[k] = (emitted - q - b) + k
        BY <2>2, <3>1, <4>1 DEF ReactorInv, BatchInOrder, b, q
      <4>3. QED
        BY <2>1, <4>2
    <3>2. CASE ~(k <= b)
      <4>1. k - b \in 1..q
        BY <2>1, <3>2
      <4>2. open[k] = (emitted - q) + (k - b)
        BY <2>2, <3>2, <4>1 DEF ReactorInv, QueueInOrder, q
      <4>3. QED
        BY <2>1, <4>2
    <3>3. QED
      BY <3>1, <3>2
  <2>4. QED
    BY <2>2, <2>3 DEF FinalizedInOrder, open
<1>2. QED
  BY <1>1, ReactorInvariance, PTL

\* Once the failures in a row reach the limit the breaker is open, whatever
\* tasks and administrators interleave (_circuit_break, enable_trigger).
THEOREM BreakersTrip == ReactorSafety => []BreakerTrips
<1>1. ReactorInv => BreakerTrips
  BY DEF ReactorInv
<1>2. QED
  BY <1>1, ReactorInvariance, PTL

\* A waiter's answer is final: the gate, the finalisation and the timeout never
\* replace one another's (_resolve_blocking, _tick, wait_for).
THEOREM AnswersAreFinal == ReactorSafety => AnsweredOnce
<1>1. ReactorInv /\ [ReactorNext]_reactorVars =>
        [\A e \in Events : fut[e] \in Outcomes => fut'[e] = fut[e]]_reactorVars
  <2> SUFFICES ASSUME ReactorInv, ReactorNext, NEW e \in Events, fut[e] \in Outcomes
               PROVE  fut'[e] = fut[e]
    OBVIOUS
  <2>1. fut[e] # "none" /\ fut[e] # "pending" /\ ~(e > emitted)
    BY DEF Outcomes, ReactorInv, UnemittedHaveNoFuture
  <2>2. ASSUME NEW n \in Names, NEW f \in {"none", "pending"}, Emit(n, f) PROVE fut'[e] = fut[e]
    <3>1. e # emitted + 1
      BY <2>1, ReactorAssumption DEF Events, ReactorInv, ReactorTypeOK, ReactorAssumption
    <3>2. QED
      BY <2>2, <3>1 DEF Emit, ReactorInv, ReactorTypeOK
  <2>3. ASSUME NEW d \in Events, Timeout(d) PROVE fut'[e] = fut[e]
    BY <2>1, <2>3 DEF Timeout, ReactorInv, ReactorTypeOK
  <2>4. ASSUME NEW ok \in BOOLEAN, GateReturns(ok) PROVE fut'[e] = fut[e]
    BY <2>1, <2>4 DEF GateReturns, ReactorInv, ReactorTypeOK
  <2>5. CASE Finalize
    BY <2>1, <2>5 DEF Finalize
  <2>6. CASE \/ Start \/ Stop \/ Kill \/ Exit \/ GateRaises
             \/ BeginTick \/ PassOver \/ SpawnAction \/ OpenGate
    BY <2>6 DEF Start, Stop, Kill, Exit, GateRaises, BeginTick, PassOver, SpawnAction, OpenGate,
                eventVars
  <2>7. ASSUME NEW t \in Triggers, EndTask(t) \/ ClockComesDue(t) \/ WindowCloses(t)
        PROVE  fut' = fut
    BY <2>7 DEF EndTask, TaskEnds, ClockComesDue, WindowCloses, eventVars
  <2>8. ASSUME NEW t \in Managed, Admin(t) PROVE fut' = fut
    BY <2>8 DEF Admin, Register, Unregister, Enable, Disable, eventVars
  <2>9. QED
    BY <2>2, <2>3, <2>4, <2>5, <2>6, <2>7, <2>8 DEF ReactorNext, Tick
<1>2. QED
  BY <1>1, ReactorInvariance, PTL DEF ReactorSafety, AnsweredOnce

\* A trigger that starts an action is enabled, its breaker closed and its failures
\* below the limit, even when that changed while the tick awaited a gate; and it
\* is in the list, unless one was unregistered during that gate (_tick, is_active).
THEOREM OnlyActiveTriggersStart == ReactorSafety => OnlyActiveStart
<1>1. ReactorInv /\ [ReactorNext]_reactorVars =>
        [\A t \in Triggers :
            (active'[t] > active[t] \/ (loop # "gate" /\ loop' = "gate" /\ Head(todo) = t))
                => /\ enabled[t] /\ ~broken[t] /\ fails[t] < MaxFailures
                   /\ same => Registered(t)]_reactorVars
  <2> SUFFICES ASSUME ReactorInv, ReactorNext, NEW t \in Triggers,
                      active'[t] > active[t] \/ (loop # "gate" /\ loop' = "gate" /\ Head(todo) = t)
               PROVE  /\ enabled[t] /\ ~broken[t] /\ fails[t] < MaxFailures
                      /\ same => Registered(t)
    OBVIOUS
  <2>1. active[t] \in Nat /\ ~(active[t] > active[t])
    BY DEF ReactorInv, ReactorTypeOK
  <2>2. Active(t) => enabled[t] /\ ~broken[t] /\ fails[t] < MaxFailures
    BY ReactorAssumption DEF Active, ReactorInv, ReactorTypeOK, BreakerTrips, ReactorAssumption
  <2>0. same /\ loop = "scan" /\ todo # <<>> => Registered(Head(todo))
    <3>1. todo # <<>> => 1 \in 1..Len(todo) /\ Head(todo) = todo[1]
      BY HeadTailProperties, EmptySeq, LenProperties DEF ReactorInv, ReactorTypeOK
    <3>2. QED
      BY <3>1 DEF ReactorInv, TodoIsListed
  <2>3. CASE SpawnAction
    <3>1. Head(todo) \in Triggers
      BY <2>3, ListTypes DEF SpawnAction, ReactorInv, ReactorTypeOK
    <3>2. loop' # "gate" /\ \A u \in Triggers \ {Head(todo)} : active'[u] = active[u]
      BY <2>3, <3>1 DEF SpawnAction, ReactorInv, ReactorTypeOK
    <3>3. t = Head(todo)
      BY <2>1, <3>2
    <3>4. QED
      BY <2>0, <2>2, <2>3, <3>3 DEF SpawnAction
  <2>4. CASE OpenGate
    BY <2>0, <2>1, <2>2, <2>4 DEF OpenGate
  <2>5. ASSUME UNCHANGED active, loop' = loop \/ loop' # "gate" PROVE FALSE
    BY <2>1, <2>5
  <2>6. ASSUME NEW u \in Triggers, NEW ok \in BOOLEAN, TaskEnds(u, ok) PROVE FALSE
    <3>1. loop' = loop
      BY <2>6 DEF TaskEnds
    <3>2. active'[t] = active[t] \/ active'[t] = active[t] - 1
      BY <2>6 DEF TaskEnds, ReactorInv, ReactorTypeOK
    <3>3. QED
      BY <2>1, <3>1, <3>2
  <2>7. CASE \/ Start \/ Stop \/ Kill \/ Exit \/ GateRaises \/ BeginTick \/ PassOver \/ Finalize
             \/ \E ok \in BOOLEAN : GateReturns(ok)
    BY <2>5, <2>7 DEF Start, Stop, Kill, Exit, GateRaises, BeginTick, PassOver, Finalize,
                      GateReturns
  <2>8. ASSUME NEW n \in Names, NEW f \in {"none", "pending"}, Emit(n, f) PROVE FALSE
    BY <2>5, <2>8 DEF Emit
  <2>9. ASSUME NEW e \in Events, Timeout(e) PROVE FALSE
    BY <2>5, <2>9 DEF Timeout
  <2>10. ASSUME NEW u \in Triggers, ClockComesDue(u) \/ WindowCloses(u) PROVE FALSE
    BY <2>5, <2>10 DEF ClockComesDue, WindowCloses
  <2>11. ASSUME NEW u \in Managed, Admin(u) PROVE FALSE
    BY <2>5, <2>11 DEF Admin, Register, Unregister, Enable, Disable
  <2>12. QED
    BY <2>3, <2>4, <2>6, <2>7, <2>8, <2>9, <2>10, <2>11 DEF ReactorNext, Tick, EndTask
<1>2. QED
  BY <1>1, ReactorInvariance, PTL DEF ReactorSafety, OnlyActiveStart
=============================================================================
