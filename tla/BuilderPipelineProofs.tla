------------------------ MODULE BuilderPipelineProofs ------------------------
(***************************************************************************)
(* Safety of OrchestratorEngine for any sets of ids, workers and tiers and *)
(* any number of dispatches, and of the pipelines that dispatch to it.     *)
(*                                                                         *)
(* EngineInv adds to the checked invariants what makes them inductive: a   *)
(* worker holds an item exactly while it executes, a queue entry always    *)
(* names a slot that is filled and, when no id is reused, an entry is the  *)
(* only one for its id and leads to an item nobody has started.            *)
(*                                                                         *)
(* The engine implements WorkBoard when every id is used once: every step  *)
(* of it is a step of the board or leaves the board as it is, and EngineInv*)
(* says why.                                                               *)
(***************************************************************************)
EXTENDS BuilderPipeline, EngineImplementsBoard, FiniteSetTheorems, TLAPS


HoldIffExecuting ==
    \A w \in Workers : hold[w] # None <=> wpc[w] = "executing"

HeldIsMade ==
    \A w \in Workers : hold[w] # None => status[hold[w]] # "none"

EntryNamesSlot ==
    \A e \in queue : e.gen <= cur[e.id]

MadeIffCounted ==
    \A o \in Objs : status[o] = "none" <=> o[2] > cur[o[1]]

\* What holds in addition when every dispatch uses a fresh id.
FreshEntries ==
    \A d, e \in queue : d.id = e.id => d = e

FreshWaits ==
    \A e \in queue : status[Current(e.id)] \in {"queued", "cancelled"}

HeldIsRunning ==
    \A w \in Workers : hold[w] # None => status[hold[w]] = "running"

FreshInv ==
    /\ \A i \in WorkIds : cur[i] <= 1
    /\ FreshEntries
    /\ FreshWaits
    /\ HeldIsRunning

EngineInv ==
    /\ EngineTypeOK
    /\ HoldIffExecuting
    /\ HeldIsMade
    /\ EntryNamesSlot
    /\ MadeIffCounted
    /\ NoLostWork
    /\ RunningIsExecuted
    /\ RunningSetIsHeld
    /\ ~ReuseIds => FreshInv
    /\ ExecutedOnce
    /\ OneEventPerOutcome

-----------------------------------------------------------------------------
(* What the parts of an object, of a slot and of a queue entry are         *)

LEMMA ObjFacts ==
  /\ \A o \in Objs : o[1] \in WorkIds /\ o[2] \in Nat \ {0} /\ o = <<o[1], o[2]>>
  /\ \A i \in WorkIds, g \in Gens : <<i, g>> \in Objs
  /\ None \notin Objs
  BY EngineAssumption DEF EngineAssumption, Objs, Gens

\* The slot of an id holds a made object unless it is empty.
LEMMA SlotFacts ==
  ASSUME EngineTypeOK, NEW i \in WorkIds
  PROVE  /\ cur[i] \in Nat /\ cur[i] <= MaxGen
         /\ cur[i] # 0 => Current(i) \in Objs
         /\ Current(i)[1] = i /\ Current(i)[2] = cur[i]
  BY EngineAssumption DEF EngineAssumption, EngineTypeOK, Objs, Gens, Current

\* A queue entry leads to a made object.
LEMMA EntryFacts ==
  ASSUME EngineTypeOK, EntryNamesSlot, NEW e \in queue
  PROVE  /\ e.id \in WorkIds /\ Current(e.id) \in Objs /\ Current(e.id)[1] = e.id
         /\ e.gen \in Nat /\ cur[e.id] \in Nat \ {0} /\ e.gen <= cur[e.id]
<1>1. e.id \in WorkIds /\ e.gen \in Nat \ {0} /\ e.gen <= cur[e.id]
  BY EngineAssumption DEF EngineAssumption, EngineTypeOK, EntryNamesSlot, Entries, Gens
<1>2. cur[e.id] # 0
  BY <1>1, SlotFacts
<1>3. QED
  BY <1>1, <1>2, SlotFacts

-----------------------------------------------------------------------------
\* The empty engine satisfies the invariant.
LEMMA EngineInitInv == EngineInit => EngineInv
<1> SUFFICES ASSUME EngineInit PROVE EngineInv
  OBVIOUS
<1>1. EngineTypeOK
  <2>1. cur \in [WorkIds -> 0..MaxGen]
    BY EngineAssumption DEF EngineAssumption, EngineInit
  <2>2. status \in [Objs -> Status] /\ events \in [Objs -> Nat]
    BY DEF EngineInit, Status
  <2>3. hold \in [Workers -> Objs \cup {None}]
    BY DEF EngineInit
  <2>4. wpc \in [Workers -> {"off", "reading", "executing", "gone"}]
    BY DEF EngineInit
  <2>5. queue \subseteq Entries /\ running \subseteq WorkIds /\ shutdown \in BOOLEAN
    BY DEF EngineInit
  <2>6. QED
    BY <2>1, <2>2, <2>3, <2>4, <2>5 DEF EngineTypeOK
<1>2. HoldIffExecuting /\ HeldIsMade /\ EntryNamesSlot
  BY DEF EngineInit, HoldIffExecuting, HeldIsMade, EntryNamesSlot
<1>3. MadeIffCounted
  BY ObjFacts DEF EngineInit, MadeIffCounted
<1>4. NoLostWork /\ RunningIsExecuted /\ RunningSetIsHeld
  BY DEF EngineInit, NoLostWork, RunningIsExecuted, RunningSetIsHeld
<1>5. ExecutedOnce /\ OneEventPerOutcome
  BY DEF EngineInit, ExecutedOnce, OneEventPerOutcome
<1>6. FreshInv
  BY DEF EngineInit, FreshInv, FreshEntries, FreshWaits, HeldIsRunning
<1>7. QED
  BY <1>1, <1>2, <1>3, <1>4, <1>5, <1>6 DEF EngineInv

\* dispatch() queues an object nobody held or counted before.
LEMMA DispatchInv ==
  ASSUME EngineInv, NEW i \in WorkIds, NEW t \in Tiers, Dispatch(i, t)
  PROVE  EngineInv'
<1> DEFINE new == <<i, cur[i] + 1>>
           entry == [tier |-> t, id |-> i, gen |-> cur[i] + 1]
<1>1. EngineTypeOK /\ EntryNamesSlot /\ MadeIffCounted
  BY DEF EngineInv
<1>2. cur[i] \in Nat /\ cur[i] + 1 \in Gens /\ new \in Objs /\ entry \in Entries
  BY <1>1, SlotFacts, ObjFacts, EngineAssumption DEF EngineAssumption, Dispatch, Gens, Entries
<1>3. status[new] = "none"
  BY <1>1, <1>2, ObjFacts DEF MadeIffCounted
<1>4. \A o \in Objs : status'[o] = IF o = new THEN "queued" ELSE status[o]
  BY <1>1, <1>2 DEF Dispatch, EngineTypeOK
<1>5. \A j \in WorkIds : cur'[j] = IF j = i THEN cur[i] + 1 ELSE cur[j]
  BY <1>1 DEF Dispatch, EngineTypeOK
<1>6. EngineTypeOK'
  <2>1. cur' \in [WorkIds -> 0..MaxGen]
    BY <1>1, <1>2 DEF EngineTypeOK, Dispatch, Gens
  <2>2. status' \in [Objs -> Status]
    BY <1>1 DEF EngineTypeOK, Dispatch, Status
  <2>3. queue' \subseteq Entries
    BY <1>1, <1>2 DEF EngineTypeOK, Dispatch
  <2>4. QED
    BY <1>1, <2>1, <2>2, <2>3 DEF EngineTypeOK, Dispatch
<1>7. HoldIffExecuting' /\ HeldIsMade'
  BY <1>1, <1>4 DEF EngineInv, HoldIffExecuting, HeldIsMade, Dispatch, EngineTypeOK
<1>8. EntryNamesSlot'
  <2> SUFFICES ASSUME NEW e \in queue' PROVE e.gen <= cur'[e.id]
    BY DEF EntryNamesSlot
  <2>1. CASE e = entry
    BY <1>2, <1>5, <2>1
  <2>2. CASE e \in queue
    BY <1>1, <1>2, <1>5, <2>2, EntryFacts
  <2>3. QED
    BY <2>1, <2>2 DEF Dispatch
<1>9. MadeIffCounted'
  <2> SUFFICES ASSUME NEW o \in Objs
               PROVE  status'[o] = "none" <=> o[2] > cur'[o[1]]
    BY DEF MadeIffCounted
  <2>1. CASE o = new
    BY <1>2, <1>4, <1>5, <2>1
  <2>2. CASE o # new /\ o[1] = i
    BY <1>1, <1>2, <1>4, <1>5, <2>2, ObjFacts DEF MadeIffCounted
  <2>3. CASE o[1] # i
    BY <1>1, <1>2, <1>4, <1>5, <2>3, ObjFacts DEF MadeIffCounted
  <2>4. QED
    BY <2>1, <2>2, <2>3
<1>10. NoLostWork'
  <2> SUFFICES ASSUME NEW j \in WorkIds, cur'[j] # 0, status'[<<j, cur'[j]>>] = "queued"
               PROVE  \E e \in queue' : e.id = j
    BY DEF NoLostWork, Current
  <2>1. CASE j = i
    <3>1. entry \in queue' /\ entry.id = j
      BY <2>1 DEF Dispatch
    <3>2. QED
      BY <3>1
  <2>2. CASE j # i
    <3>1. cur[j] # 0 /\ status[Current(j)] = "queued"
      BY <1>1, <1>4, <1>5, <2>2, SlotFacts DEF Current
    <3>2. QED
      BY <3>1 DEF EngineInv, NoLostWork, Dispatch
  <2>3. QED
    BY <2>1, <2>2
<1>11. RunningIsExecuted'
  BY <1>4 DEF EngineInv, RunningIsExecuted, Dispatch
<1>12. RunningSetIsHeld' /\ ExecutedOnce'
  BY DEF EngineInv, RunningSetIsHeld, ExecutedOnce, Dispatch
<1>13. OneEventPerOutcome'
  BY <1>3, <1>4 DEF EngineInv, OneEventPerOutcome, Dispatch
<1>14. ASSUME ~ReuseIds PROVE FreshInv'
  <2>1. FreshInv /\ cur[i] = 0
    BY <1>14 DEF EngineInv, Dispatch
  <2>2. \A e \in queue : e.id # i
    BY <1>1, <2>1, EntryFacts
  <2>3. \A j \in WorkIds : cur'[j] <= 1
    BY <1>5, <2>1 DEF FreshInv
  <2>4. FreshEntries'
    BY <2>1, <2>2 DEF FreshEntries, FreshInv, Dispatch
  <2>5. FreshWaits'
    <3> SUFFICES ASSUME NEW e \in queue'
                 PROVE  status'[<<e.id, cur'[e.id]>>] \in {"queued", "cancelled"}
      BY DEF FreshWaits, Current
    <3>1. CASE e = entry
      BY <1>2, <1>4, <1>5, <3>1
    <3>2. CASE e \in queue
      BY <1>1, <1>4, <1>5, <2>1, <2>2, <3>2, EntryFacts DEF FreshWaits, FreshInv, Current
    <3>3. QED
      BY <3>1, <3>2 DEF Dispatch
  <2>6. HeldIsRunning'
    BY <1>1, <1>3, <1>4, <2>1 DEF HeldIsRunning, FreshInv, Dispatch, EngineTypeOK
  <2>7. QED
    BY <2>3, <2>4, <2>5, <2>6 DEF FreshInv
<1>15. QED
  BY <1>6, <1>7, <1>8, <1>9, <1>10, <1>11, <1>12, <1>13, <1>14 DEF EngineInv

\* start() only moves workers that hold nothing.
LEMMA StartInv == EngineInv /\ Start => EngineInv'
<1> SUFFICES ASSUME EngineInv, Start PROVE EngineInv'
  OBVIOUS
<1>1. EngineTypeOK'
  BY DEF EngineInv, EngineTypeOK, Start
<1>2. HoldIffExecuting' /\ HeldIsMade' /\ EntryNamesSlot' /\ MadeIffCounted'
  BY DEF EngineInv, HoldIffExecuting, HeldIsMade, EntryNamesSlot, MadeIffCounted, Start
<1>3. NoLostWork' /\ RunningIsExecuted' /\ RunningSetIsHeld'
  BY DEF EngineInv, NoLostWork, Current, RunningIsExecuted, RunningSetIsHeld, Start
<1>4. ExecutedOnce' /\ OneEventPerOutcome'
  BY DEF EngineInv, ExecutedOnce, OneEventPerOutcome, Start
<1>5. ~ReuseIds => FreshInv'
  BY DEF EngineInv, FreshInv, FreshEntries, FreshWaits, HeldIsRunning, Current, Start
<1>6. QED
  BY <1>1, <1>2, <1>3, <1>4, <1>5 DEF EngineInv

\* stop() changes nothing but the flag.
LEMMA StopInv == EngineInv /\ Stop => EngineInv'
<1> SUFFICES ASSUME EngineInv, Stop PROVE EngineInv'
  OBVIOUS
<1>1. EngineTypeOK'
  BY DEF EngineInv, EngineTypeOK, Stop
<1>2. HoldIffExecuting' /\ HeldIsMade' /\ EntryNamesSlot' /\ MadeIffCounted'
  BY DEF EngineInv, HoldIffExecuting, HeldIsMade, EntryNamesSlot, MadeIffCounted, Stop
<1>3. NoLostWork' /\ RunningIsExecuted' /\ RunningSetIsHeld'
  BY DEF EngineInv, NoLostWork, Current, RunningIsExecuted, RunningSetIsHeld, Stop
<1>4. ExecutedOnce' /\ OneEventPerOutcome'
  BY DEF EngineInv, ExecutedOnce, OneEventPerOutcome, Stop
<1>5. ~ReuseIds => FreshInv'
  BY DEF EngineInv, FreshInv, FreshEntries, FreshWaits, HeldIsRunning, Current, Stop
<1>6. QED
  BY <1>1, <1>2, <1>3, <1>4, <1>5 DEF EngineInv

\* cancel() takes an item that is queued, hence neither held nor finished.
LEMMA CancelInv ==
  ASSUME EngineInv, NEW i \in WorkIds, Cancel(i)
  PROVE  EngineInv'
<1> DEFINE o == Current(i)
<1>1. EngineTypeOK /\ o \in Objs /\ status[o] = "queued"
  BY SlotFacts DEF EngineInv, Cancel
<1>2. \A p \in Objs : status'[p] = IF p = o THEN "cancelled" ELSE status[p]
  BY <1>1 DEF Cancel, EngineTypeOK
<1>3. EngineTypeOK'
  BY <1>1 DEF EngineTypeOK, Cancel, Status
<1>4. HoldIffExecuting' /\ HeldIsMade' /\ EntryNamesSlot'
  BY <1>1, <1>2 DEF EngineInv, HoldIffExecuting, HeldIsMade, EntryNamesSlot, Cancel, EngineTypeOK
<1>5. MadeIffCounted'
  BY <1>1, <1>2 DEF EngineInv, MadeIffCounted, Cancel
<1>6. NoLostWork'
  <2> SUFFICES ASSUME NEW j \in WorkIds, cur[j] # 0, status'[Current(j)] = "queued"
               PROVE  \E e \in queue : e.id = j
    BY DEF NoLostWork, Current, Cancel
  <2>1. status[Current(j)] = "queued"
    BY <1>1, <1>2, SlotFacts
  <2>2. QED
    BY <2>1 DEF EngineInv, NoLostWork
<1>7. RunningIsExecuted' /\ RunningSetIsHeld'
  BY <1>2 DEF EngineInv, RunningIsExecuted, RunningSetIsHeld, Cancel
<1>8. ExecutedOnce' /\ OneEventPerOutcome'
  BY <1>1, <1>2 DEF EngineInv, ExecutedOnce, OneEventPerOutcome, Cancel
<1>9. ASSUME ~ReuseIds PROVE FreshInv'
  <2>1. FreshInv
    BY <1>9 DEF EngineInv
  <2>2. FreshWaits'
    <3> SUFFICES ASSUME NEW e \in queue
                 PROVE  status'[Current(e.id)] \in {"queued", "cancelled"}
      BY DEF FreshWaits, Current, Cancel
    <3>1. QED
      BY <1>2, <2>1, EntryFacts DEF EngineInv, FreshInv, FreshWaits
  <2>3. HeldIsRunning'
    BY <1>1, <1>2, <2>1 DEF HeldIsRunning, FreshInv, Cancel, EngineTypeOK
  <2>4. QED
    BY <2>1, <2>2, <2>3 DEF FreshInv, FreshEntries, Cancel
<1>10. QED
  BY <1>3, <1>4, <1>5, <1>6, <1>7, <1>8, <1>9 DEF EngineInv

\* Throwing away the entry of a cancelled item strands no queued item.
LEMMA SkipCancelledInv ==
  ASSUME EngineInv, NEW w \in Workers, SkipCancelled(w)
  PROVE  EngineInv'
<1>1. PICK e \in queue : status[Current(e.id)] = "cancelled" /\ queue' = queue \ {e}
  BY DEF SkipCancelled
<1>2. EngineTypeOK'
  BY <1>1 DEF EngineInv, EngineTypeOK, SkipCancelled
<1>3. HoldIffExecuting' /\ HeldIsMade' /\ EntryNamesSlot' /\ MadeIffCounted'
  BY <1>1 DEF EngineInv, HoldIffExecuting, HeldIsMade, EntryNamesSlot, MadeIffCounted, SkipCancelled
<1>4. NoLostWork'
  BY <1>1 DEF EngineInv, NoLostWork, Current, SkipCancelled
<1>5. RunningIsExecuted' /\ RunningSetIsHeld'
  BY DEF EngineInv, RunningIsExecuted, RunningSetIsHeld, SkipCancelled
<1>6. ExecutedOnce' /\ OneEventPerOutcome'
  BY DEF EngineInv, ExecutedOnce, OneEventPerOutcome, SkipCancelled
<1>7. ~ReuseIds => FreshInv'
  BY <1>1 DEF EngineInv, FreshInv, FreshEntries, FreshWaits, HeldIsRunning, Current, SkipCancelled
<1>8. QED
  BY <1>2, <1>3, <1>4, <1>5, <1>6, <1>7 DEF EngineInv

\* A worker takes the entry that is first; the object becomes its own.
LEMMA PickUpInv ==
  ASSUME EngineInv, NEW w \in Workers, PickUp(w)
  PROVE  EngineInv'
<1>1. PICK e \in queue :
        /\ queue' = queue \ {e}
        /\ running' = running \cup {e.id}
        /\ status' = [status EXCEPT ![Current(e.id)] = "running"]
        /\ hold' = [hold EXCEPT ![w] = Current(e.id)]
  BY DEF PickUp
<1> DEFINE o == Current(e.id)
<1>2. EngineTypeOK /\ EntryNamesSlot /\ MadeIffCounted /\ hold[w] = None
  BY DEF EngineInv, HoldIffExecuting, PickUp
<1>3. e.id \in WorkIds /\ o \in Objs /\ o[1] = e.id /\ o # None /\ status[o] # "none"
  BY <1>2, EntryFacts, SlotFacts, ObjFacts DEF MadeIffCounted
<1> HIDE DEF o
<1>4. \A p \in Objs : status'[p] = IF p = o THEN "running" ELSE status[p]
  BY <1>1, <1>2, <1>3 DEF EngineTypeOK, o
<1>5. \A v \in Workers : hold'[v] = IF v = w THEN o ELSE hold[v]
  BY <1>1, <1>2 DEF EngineTypeOK, o
<1>6. EngineTypeOK'
  <2>1. status' \in [Objs -> Status]
    BY <1>1, <1>2 DEF EngineTypeOK, Status
  <2>2. hold' \in [Workers -> Objs \cup {None}]
    BY <1>1, <1>2, <1>3 DEF EngineTypeOK, o
  <2>3. QED
    BY <1>1, <1>2, <1>3, <2>1, <2>2 DEF EngineTypeOK, PickUp
<1>7. HoldIffExecuting'
  BY <1>2, <1>3, <1>5 DEF EngineInv, HoldIffExecuting, PickUp, EngineTypeOK
<1>8. HeldIsMade'
  BY <1>2, <1>3, <1>4, <1>5 DEF EngineInv, HeldIsMade, EngineTypeOK
<1>9. EntryNamesSlot' /\ MadeIffCounted'
  BY <1>1, <1>2, <1>3, <1>4 DEF EntryNamesSlot, MadeIffCounted, PickUp
<1>10. NoLostWork'
  <2> SUFFICES ASSUME NEW j \in WorkIds, cur[j] # 0, status'[Current(j)] = "queued"
               PROVE  \E d \in queue' : d.id = j
    BY DEF NoLostWork, Current, PickUp
  <2>1. status[Current(j)] = "queued" /\ Current(j) # o
    BY <1>2, <1>4, SlotFacts
  <2>2. PICK d \in queue : d.id = j
    BY <2>1 DEF EngineInv, NoLostWork
  <2>3. d # e
    BY <2>1, <2>2 DEF o
  <2>4. QED
    BY <1>1, <2>2, <2>3
<1>11. RunningIsExecuted'
  BY <1>2, <1>4, <1>5, ObjFacts DEF EngineInv, RunningIsExecuted, PickUp
<1>12. RunningSetIsHeld'
  BY <1>1, <1>2, <1>3, <1>5 DEF EngineInv, RunningSetIsHeld
<1>13. ASSUME ~ReuseIds PROVE FreshInv' /\ ExecutedOnce' /\ OneEventPerOutcome'
  <2>1. FreshInv /\ ExecutedOnce /\ OneEventPerOutcome
    BY <1>13 DEF EngineInv
  <2>2. status[o] \in {"queued", "cancelled"}
    BY <2>1 DEF FreshInv, FreshWaits, o
  <2>3. \A v \in Workers : hold[v] # o
    BY <1>3, <2>1, <2>2 DEF FreshInv, HeldIsRunning
  <2>4. FreshWaits'
    <3> SUFFICES ASSUME NEW d \in queue, d # e
                 PROVE  status'[Current(d.id)] \in {"queued", "cancelled"}
      BY <1>1 DEF FreshWaits, Current, PickUp
    <3>1. d.id # e.id
      BY <2>1 DEF FreshInv, FreshEntries
    <3>2. Current(d.id) \in Objs /\ Current(d.id) # o
      BY <1>2, <1>3, <3>1, EntryFacts
    <3>3. QED
      BY <1>4, <2>1, <3>2 DEF FreshInv, FreshWaits
  <2>5. HeldIsRunning'
    BY <1>2, <1>3, <1>4, <1>5, <2>1, <2>3 DEF FreshInv, HeldIsRunning, EngineTypeOK
  <2>6. ExecutedOnce'
    BY <1>5, <2>1, <2>3 DEF ExecutedOnce
  <2>7. OneEventPerOutcome'
    BY <1>3, <1>4, <2>1, <2>2 DEF OneEventPerOutcome, PickUp
  <2>8. QED
    BY <1>1, <2>1, <2>4, <2>5, <2>6, <2>7 DEF FreshInv, FreshEntries, PickUp
<1>14. ExecutedOnce' /\ OneEventPerOutcome'
  BY <1>13 DEF ExecutedOnce, OneEventPerOutcome
<1>15. QED
  BY <1>6, <1>7, <1>8, <1>9, <1>10, <1>11, <1>12, <1>13, <1>14 DEF EngineInv

\* The worker records the outcome on the object it holds and lets go of it.
LEMMA FinishInv ==
  ASSUME EngineInv, NEW w \in Workers,
         NEW outcome \in {"completed", "failed"}, Finish(w, outcome)
  PROVE  EngineInv'
<1> DEFINE o == hold[w]
<1>1. EngineTypeOK /\ MadeIffCounted
  BY DEF EngineInv
<1>2. o \in Objs /\ o # None /\ status[o] # "none"
  BY <1>1 DEF EngineInv, HoldIffExecuting, HeldIsMade, EngineTypeOK, Finish
<1>3. \A p \in Objs : status'[p] = IF p = o THEN outcome ELSE status[p]
  BY <1>1, <1>2 DEF Finish, EngineTypeOK
<1>4. \A p \in Objs : events'[p] = IF p = o THEN events[p] + 1 ELSE events[p]
  BY <1>1, <1>2 DEF Finish, EngineTypeOK
<1>5. \A v \in Workers : hold'[v] = IF v = w THEN None ELSE hold[v]
  BY <1>1 DEF Finish, EngineTypeOK
<1>6. running' = running \ {o[1]}
  BY DEF Finish
<1> HIDE DEF o
<1>7. EngineTypeOK'
  <2>1. status' \in [Objs -> Status]
    BY <1>1 DEF EngineTypeOK, Status, Finish
  <2>2. events' = [events EXCEPT ![o] = events[o] + 1] /\ events[o] + 1 \in Nat
    BY <1>1, <1>2 DEF EngineTypeOK, Finish, o
  <2>3. events' \in [Objs -> Nat]
    BY <1>1, <2>2 DEF EngineTypeOK
  <2>4. hold' \in [Workers -> Objs \cup {None}]
    BY <1>1 DEF EngineTypeOK, Finish
  <2>5. QED
    BY <1>1, <1>6, <2>1, <2>3, <2>4 DEF EngineTypeOK, Finish
<1>8. HoldIffExecuting' /\ HeldIsMade'
  BY <1>1, <1>3, <1>5 DEF EngineInv, HoldIffExecuting, HeldIsMade, Finish, EngineTypeOK
<1>9. EntryNamesSlot' /\ MadeIffCounted'
  BY <1>1, <1>2, <1>3 DEF EngineInv, EntryNamesSlot, MadeIffCounted, Finish
<1>10. NoLostWork'
  <2> SUFFICES ASSUME NEW j \in WorkIds, cur[j] # 0, status'[Current(j)] = "queued"
               PROVE  \E d \in queue : d.id = j
    BY DEF NoLostWork, Current, Finish
  <2>1. status[Current(j)] = "queued"
    BY <1>1, <1>3, SlotFacts
  <2>2. QED
    BY <2>1 DEF EngineInv, NoLostWork
<1>11. RunningIsExecuted'
  BY <1>3, <1>5 DEF EngineInv, RunningIsExecuted, Finish, o
<1>12. RunningSetIsHeld'
  BY <1>5, <1>6 DEF EngineInv, RunningSetIsHeld, o
<1>13. ASSUME ~ReuseIds PROVE FreshInv' /\ ExecutedOnce' /\ OneEventPerOutcome'
  <2>1. FreshInv /\ ExecutedOnce /\ OneEventPerOutcome
    BY <1>13 DEF EngineInv
  <2>2. status[o] = "running"
    BY <1>2, <2>1 DEF FreshInv, HeldIsRunning, o
  <2>3. FreshWaits'
    BY <1>1, <1>3, <2>1, <2>2, EntryFacts DEF EngineInv, FreshInv, FreshWaits, Current, Finish
  <2>4. HeldIsRunning'
    <3> SUFFICES ASSUME NEW v \in Workers, v # w, hold[v] # None
                 PROVE  status'[hold[v]] = "running"
      BY <1>5 DEF HeldIsRunning
    <3>1. hold[v] \in Objs /\ hold[v] # o
      BY <1>1, <1>13, <2>1 DEF ExecutedOnce, EngineTypeOK, o
    <3>2. QED
      BY <1>3, <2>1, <3>1 DEF FreshInv, HeldIsRunning
  <2>5. ExecutedOnce'
    BY <1>5, <2>1 DEF ExecutedOnce
  <2>6. OneEventPerOutcome'
    <3>1. events[o] = 0
      BY <1>2, <1>13, <2>1, <2>2 DEF OneEventPerOutcome
    <3>2. QED
      BY <1>2, <1>3, <1>4, <1>13, <2>1, <3>1 DEF OneEventPerOutcome
  <2>7. QED
    BY <2>1, <2>3, <2>4, <2>5, <2>6 DEF FreshInv, FreshEntries, Finish
<1>14. ExecutedOnce' /\ OneEventPerOutcome'
  BY <1>13 DEF ExecutedOnce, OneEventPerOutcome
<1>15. QED
  BY <1>7, <1>8, <1>9, <1>10, <1>11, <1>12, <1>13, <1>14 DEF EngineInv

\* A worker cancelled by stop() leaves the status of its item as it was.
LEMMA CancelledInv ==
  ASSUME EngineInv, NEW w \in Workers, Cancelled(w)
  PROVE  EngineInv'
<1>1. EngineTypeOK /\ shutdown'
  BY DEF EngineInv, Cancelled
<1>2. \A v \in Workers : hold'[v] = IF v = w THEN None ELSE hold[v]
  BY <1>1 DEF Cancelled, EngineTypeOK
<1>3. hold[w] # None <=> wpc[w] = "executing"
  BY DEF EngineInv, HoldIffExecuting
<1>4. EngineTypeOK'
  <2>1. hold' \in [Workers -> Objs \cup {None}]
    BY <1>1 DEF EngineTypeOK, Cancelled
  <2>2. QED
    BY <1>1, <2>1 DEF EngineTypeOK, Cancelled
<1>5. HoldIffExecuting' /\ HeldIsMade'
  BY <1>1, <1>2 DEF EngineInv, HoldIffExecuting, HeldIsMade, Cancelled, EngineTypeOK
<1>6. EntryNamesSlot' /\ MadeIffCounted'
  BY DEF EngineInv, EntryNamesSlot, MadeIffCounted, Cancelled
<1>7. NoLostWork' /\ RunningIsExecuted'
  BY <1>1 DEF EngineInv, NoLostWork, Current, RunningIsExecuted, Cancelled
<1>8. RunningSetIsHeld'
  BY <1>2, <1>3 DEF EngineInv, RunningSetIsHeld, Cancelled
<1>9. ExecutedOnce' /\ OneEventPerOutcome'
  BY <1>2 DEF EngineInv, ExecutedOnce, OneEventPerOutcome, Cancelled
<1>10. ~ReuseIds => FreshInv'
  BY <1>2 DEF EngineInv, FreshInv, FreshEntries, FreshWaits, HeldIsRunning, Current, Cancelled
<1>11. QED
  BY <1>4, <1>5, <1>6, <1>7, <1>8, <1>9, <1>10 DEF EngineInv

-----------------------------------------------------------------------------
(* The theorems                                                            *)

\* Every step of the engine, and every stutter, preserves the invariant.
LEMMA EngineStepInv == EngineInv /\ [EngineNext]_engineVars => EngineInv'
<1> SUFFICES ASSUME EngineInv, [EngineNext]_engineVars PROVE EngineInv'
  OBVIOUS
<1>1. CASE Start
  BY <1>1, StartInv
<1>2. CASE \E i \in WorkIds, t \in Tiers : Dispatch(i, t)
  BY <1>2, DispatchInv
<1>3. CASE \E i \in WorkIds : Cancel(i)
  BY <1>3, CancelInv
<1>4. CASE Stop
  BY <1>4, StopInv
<1>5. CASE \E w \in Workers : WorkerStep(w)
  <2> PICK w \in Workers : WorkerStep(w)
    BY <1>5
  <2>1. CASE SkipCancelled(w)
    BY <2>1, SkipCancelledInv
  <2>2. CASE PickUp(w)
    BY <2>2, PickUpInv
  <2>3. CASE \E outcome \in {"completed", "failed"} : Finish(w, outcome)
    BY <2>3, FinishInv
  <2>4. CASE Cancelled(w)
    BY <2>4, CancelledInv
  <2>5. QED
    BY <2>1, <2>2, <2>3, <2>4 DEF WorkerStep
<1>6. CASE UNCHANGED engineVars
  BY <1>6 DEF engineVars, EngineInv, EngineTypeOK, HoldIffExecuting, HeldIsMade,
    EntryNamesSlot, MadeIffCounted, NoLostWork, Current, RunningIsExecuted, RunningSetIsHeld,
    FreshInv, FreshEntries, FreshWaits, HeldIsRunning, ExecutedOnce, OneEventPerOutcome
<1>7. QED
  BY <1>1, <1>2, <1>3, <1>4, <1>5, <1>6 DEF EngineNext

\* The inductive invariant holds in every state the engine can reach, for any
\* ids, workers, tiers and number of dispatches.
THEOREM EngineInvariance == EngineSafety => []EngineInv
<1>1. EngineInit => EngineInv
  BY EngineInitInv
<1>2. EngineInv /\ [EngineNext]_engineVars => EngineInv'
  BY EngineStepInv
<1>3. QED
  BY <1>1, <1>2, PTL DEF EngineSafety

\* The engine's state keeps its types.
THEOREM EngineTypeCorrect == EngineSafety => []EngineTypeOK
  BY EngineInvariance, PTL DEF EngineInv

\* No queued item loses its queue entry, even when ids are dispatched anew.
THEOREM NoWorkIsLost == EngineSafety => []NoLostWork
  BY EngineInvariance, PTL DEF EngineInv

\* A running item has its worker, and the running set of status() its workers.
THEOREM RunningIsReal == EngineSafety => [](RunningIsExecuted /\ RunningSetIsHeld)
<1>1. EngineInv => RunningIsExecuted /\ RunningSetIsHeld
  BY DEF EngineInv
<1>2. QED
  BY <1>1, EngineInvariance, PTL

\* Without re-used ids no two workers execute the same item.
THEOREM NeverExecutedTwice == EngineSafety => []ExecutedOnce
  BY EngineInvariance, PTL DEF EngineInv

\* Without re-used ids one event is emitted per finished item.
THEOREM EveryOutcomeIsAnnounced == EngineSafety => []OneEventPerOutcome
  BY EngineInvariance, PTL DEF EngineInv

\* A change of status that the engine's docstring names.
Documented(o) ==
    status'[o] # status[o] =>
        <<status[o], status'[o]>> \in
            { <<"none", "queued">>, <<"queued", "running">>, <<"queued", "cancelled">>,
              <<"running", "completed">>, <<"running", "failed">> }

\* With fresh ids every step makes documented changes only.
LEMMA FreshStep ==
  ASSUME EngineInv, ~ReuseIds, [EngineNext]_engineVars, NEW o \in Objs
  PROVE  Documented(o)
<1>1. EngineTypeOK /\ EntryNamesSlot /\ MadeIffCounted /\ FreshInv
  BY DEF EngineInv
<1>2. CASE status' = status
  BY <1>2 DEF Documented
<1>3. ASSUME NEW i \in WorkIds, NEW t \in Tiers, Dispatch(i, t) PROVE Documented(o)
  <2>1. <<i, cur[i] + 1>> \in Objs /\ status[<<i, cur[i] + 1>>] = "none"
    BY <1>1, <1>3, SlotFacts, ObjFacts, EngineAssumption
      DEF EngineAssumption, Dispatch, Gens, MadeIffCounted
  <2>2. QED
    BY <1>1, <1>3, <2>1 DEF Dispatch, EngineTypeOK, Documented
<1>4. ASSUME NEW i \in WorkIds, Cancel(i) PROVE Documented(o)
  BY <1>1, <1>4 DEF Cancel, EngineTypeOK, Documented
<1>5. ASSUME NEW w \in Workers, PickUp(w) PROVE Documented(o)
  <2>1. PICK e \in queue : /\ status[Current(e.id)] # "cancelled"
                           /\ status' = [status EXCEPT ![Current(e.id)] = "running"]
    BY <1>5 DEF PickUp
  <2>2. status[Current(e.id)] = "queued"
    BY <1>1, <2>1 DEF FreshInv, FreshWaits
  <2>3. QED
    BY <1>1, <2>1, <2>2 DEF EngineTypeOK, Documented
<1>6. ASSUME NEW w \in Workers, NEW outcome \in {"completed", "failed"}, Finish(w, outcome)
      PROVE  Documented(o)
  <2>1. hold[w] # None
    BY <1>6 DEF EngineInv, HoldIffExecuting, Finish
  <2>2. status[hold[w]] = "running" /\ status' = [status EXCEPT ![hold[w]] = outcome]
    BY <1>1, <1>6, <2>1 DEF FreshInv, HeldIsRunning, Finish
  <2>3. QED
    BY <1>1, <1>6, <2>2 DEF EngineTypeOK, Documented
<1>7. QED
  BY <1>2, <1>3, <1>4, <1>5, <1>6
    DEF EngineNext, engineVars, Start, Stop, WorkerStep, SkipCancelled, Cancelled

\* Without re-used ids the status of an item changes only the documented way:
\* in particular a finished or cancelled item is never run (again).
THEOREM FreshTransitions == ~ReuseIds => (EngineSafety => DocumentedTransitions)
<1> SUFFICES ASSUME ~ReuseIds PROVE EngineSafety => DocumentedTransitions
  OBVIOUS
<1>1. EngineInv /\ [EngineNext]_engineVars => [\A o \in Objs : Documented(o)]_engineVars
  BY FreshStep
<1>2. (\A o \in Objs : Documented(o)) =>
        \A o \in Objs : status'[o] # status[o] =>
          <<status[o], status'[o]>> \in
            { <<"none", "queued">>, <<"queued", "running">>, <<"queued", "cancelled">>,
              <<"running", "completed">>, <<"running", "failed">> }
  BY DEF Documented
<1>3. QED
  BY <1>1, <1>2, EngineInvariance, PTL DEF EngineSafety, DocumentedTransitions
-----------------------------------------------------------------------------
(* The engine is a board                                                    *)

\* With fresh ids the slot of an entry holds the first object of its id.
LEMMA FreshEntryFacts ==
  ASSUME EngineInv, FreshInv, NEW e \in queue
  PROVE  /\ e.id \in WorkIds /\ cur[e.id] = 1
         /\ Current(e.id) = <<e.id, 1>> /\ <<e.id, 1>> \in Objs
         /\ e = [tier |-> e.tier, id |-> e.id, gen |-> 1] /\ e.tier \in Tiers
<1>1. e.id \in WorkIds /\ cur[e.id] \in Nat \ {0} /\ e.gen <= cur[e.id] /\ e.gen \in Gens
  BY EntryFacts DEF EngineInv, EngineTypeOK, Entries
<1>2. cur[e.id] = 1 /\ e.gen = 1
  <2>1. cur[e.id] <= 1
    BY <1>1 DEF FreshInv
  <2>2. e.gen \in Nat \ {0}
    BY <1>1, EngineAssumption DEF Gens, EngineAssumption
  <2>3. QED
    BY <1>1, <2>1, <2>2
<1>3. e = [tier |-> e.tier, id |-> e.id, gen |-> e.gen] /\ e.tier \in Tiers
  BY DEF EngineInv, EngineTypeOK, Entries
<1>4. QED
  BY <1>1, <1>2, <1>3, EngineAssumption DEF Current, Objs, Gens, EngineAssumption

\* A worker's item is the first object of its id, and running.
LEMMA FreshHeldFacts ==
  ASSUME EngineInv, FreshInv, NEW w \in Workers, hold[w] # None
  PROVE  /\ hold[w][1] \in WorkIds /\ hold[w][1] \in Held
         /\ hold[w] = <<hold[w][1], 1>> /\ hold[w] \in Objs
         /\ status[hold[w]] = "running"
<1>1. hold[w] \in Objs /\ status[hold[w]] = "running"
  BY DEF EngineInv, EngineTypeOK, FreshInv, HeldIsRunning
<1>2. hold[w][1] \in WorkIds /\ hold[w][2] \in Nat \ {0} /\ hold[w] = <<hold[w][1], hold[w][2]>>
  BY <1>1, ObjFacts
<1>3. ~(hold[w][2] > cur[hold[w][1]])
  BY <1>1 DEF EngineInv, MadeIffCounted
<1>4. hold[w][2] = 1
  BY <1>2, <1>3 DEF FreshInv, EngineInv, EngineTypeOK
<1>5. QED
  BY <1>1, <1>2, <1>4 DEF Held

\* A worker that reads leaves room on the board.
LEMMA RoomForReader ==
  ASSUME EngineTypeOK, NEW w \in Workers, hold[w] = None
  PROVE  Cardinality(Held) < Cardinality(Workers)
<1> DEFINE Busy == { v \in Workers : hold[v] # None }
           job == [v \in Busy |-> hold[v][1]]
<1>1. Busy \in SUBSET Workers /\ Busy # Workers
  OBVIOUS
<1>2. /\ IsFiniteSet(Busy) /\ IsFiniteSet(Workers)
      /\ Cardinality(Busy) <= Cardinality(Workers) /\ Cardinality(Busy) # Cardinality(Workers)
  BY <1>1, FS_Subset, EngineAssumption DEF EngineAssumption
<1>3. job \in Surjection(Busy, Held)
  <2>1. \A v \in Busy : hold[v][1] \in WorkIds
    BY ObjFacts DEF EngineTypeOK
  <2>2. job \in [Busy -> Held]
    BY <2>1 DEF Held
  <2>3. \A i \in Held : \E v \in Busy : job[v] = i
    BY DEF Held
  <2>4. QED
    BY <2>2, <2>3 DEF Surjection
<1>4. IsFiniteSet(Held) /\ Cardinality(Held) <= Cardinality(Busy)
  BY <1>2, <1>3, FS_Surjection
<1>5. Cardinality(Held) \in Nat /\ Cardinality(Busy) \in Nat /\ Cardinality(Workers) \in Nat
  BY <1>2, <1>4, FS_CardinalityType
<1>6. QED
  BY <1>2, <1>4, <1>5

\* What the board sees depends on these variables only.
LEMMA BoardUnseen ==
  ASSUME UNCHANGED <<cur, status, queue, hold, shutdown>>
  PROVE  UNCHANGED Board!boardVars
<1>1. UNCHANGED Held
  BY DEF Held
<1>2. UNCHANGED LiveEntries
  BY DEF LiveEntries, Current
<1>3. QED
  BY <1>1, <1>2 DEF Board!boardVars, Waits, OutcomeOf

\* The empty engine is the empty board.
LEMMA BoardInitially == EngineInit => Board!BoardInit
<1> SUFFICES ASSUME EngineInit PROVE Board!BoardInit
  OBVIOUS
<1>1. Waits = {}
  BY DEF EngineInit, Waits, LiveEntries
<1>2. Held = {}
  BY DEF EngineInit, Held
<1>3. OutcomeOf = [i \in WorkIds |-> "none"]
  <2>1. \A i \in WorkIds : <<i, 1>> \in Objs
    BY EngineAssumption DEF EngineAssumption, Objs, Gens
  <2>2. \A i \in WorkIds : status[<<i, 1>>] = "none"
    BY <2>1 DEF EngineInit
  <2>3. QED
    BY <2>2 DEF OutcomeOf, Terminal
<1>4. QED
  BY <1>1, <1>2, <1>3 DEF Board!BoardInit, EngineInit

\* dispatch() submits an unused job.
LEMMA DispatchSubmits ==
  ASSUME EngineInv, FreshInv, ~ReuseIds, NEW i \in WorkIds, NEW t \in Tiers, Dispatch(i, t)
  PROVE  Board!Submit(i, t)
<1> DEFINE new == <<i, 1>>
           entry == [tier |-> t, id |-> i, gen |-> 1]
<1>1. cur[i] = 0 /\ new \in Objs
  BY EngineAssumption DEF Dispatch, EngineAssumption, Objs, Gens
<1>2. /\ queue' = queue \cup {entry} /\ hold' = hold /\ shutdown' = shutdown
      /\ \A o \in Objs : status'[o] = IF o = new THEN "queued" ELSE status[o]
      /\ \A j \in WorkIds : cur'[j] = IF j = i THEN 1 ELSE cur[j]
  BY <1>1 DEF Dispatch, EngineInv, EngineTypeOK
<1>3. \A e \in queue : e.id # i
  BY <1>1, FreshEntryFacts
<1>4. status[new] = "none"
  BY <1>1 DEF EngineInv, MadeIffCounted
<1>5. \A w \in Workers : hold[w] # None => hold[w][1] # i
  BY <1>1, <1>4, FreshHeldFacts
<1>6. Held' = Held /\ i \notin Held
  BY <1>2, <1>5 DEF Held
<1>7. LiveEntries' = LiveEntries \cup {entry}
  <2>1. \A e \in queue : (status[Current(e.id)])' = status[Current(e.id)]
    BY <1>2, <1>3, FreshEntryFacts DEF Current
  <2>2. (status[Current(entry.id)])' = "queued"
    BY <1>1, <1>2 DEF Current
  <2>3. QED
    BY <1>2, <2>1, <2>2 DEF LiveEntries
<1>8. Waits' = Waits \cup {[tier |-> t, id |-> i]}
  <2>1. [tier |-> entry.tier, id |-> entry.id] = [tier |-> t, id |-> i]
    OBVIOUS
  <2>2. \A x : x \in Waits' <=> \E e \in LiveEntries' : x = [tier |-> e.tier, id |-> e.id]
    BY DEF Waits
  <2>3. \A x : x \in Waits <=> \E e \in LiveEntries : x = [tier |-> e.tier, id |-> e.id]
    BY DEF Waits
  <2> HIDE DEF entry
  <2>4. QED
    BY <1>7, <2>1, <2>2, <2>3
<1>9. OutcomeOf' = OutcomeOf /\ OutcomeOf[i] = "none"
  <2>1. \A j \in WorkIds : <<j, 1>> \in Objs
    BY EngineAssumption DEF EngineAssumption, Objs, Gens
  <2>2. \A j \in WorkIds : j # i => status'[<<j, 1>>] = status[<<j, 1>>]
    BY <1>2, <2>1
  <2>3. status'[new] = "queued"
    BY <1>1, <1>2
  <2>4. QED
    BY <1>4, <1>6, <2>2, <2>3 DEF OutcomeOf, Terminal
<1>10. Board!Unused(i)
  BY <1>3, <1>6, <1>9 DEF Board!Unused, Board!Waiting, Waits, LiveEntries
<1>11. QED
  BY <1>2, <1>6, <1>8, <1>9, <1>10 DEF Board!Submit

\* cancel() withdraws the waiting job of its id.
LEMMA CancelWithdraws ==
  ASSUME EngineInv, FreshInv, NEW i \in WorkIds, Cancel(i)
  PROVE  \E e \in Waits : Board!Withdraw(e)
<1>1. PICK e \in queue : e.id = i
  BY DEF EngineInv, NoLostWork, Cancel
<1> DEFINE job == [tier |-> e.tier, id |-> e.id]
<1>2. /\ Current(i) = <<i, 1>> /\ <<i, 1>> \in Objs /\ status[<<i, 1>>] = "queued"
      /\ \A d \in queue : d.id = i => d = e
  BY <1>1, FreshEntryFacts DEF Cancel, FreshInv, FreshEntries
<1>3. /\ \A o \in Objs : status'[o] = IF o = <<i, 1>> THEN "cancelled" ELSE status[o]
      /\ UNCHANGED <<cur, queue, hold, shutdown>>
  BY <1>2 DEF Cancel, EngineInv, EngineTypeOK
<1>4. e \in LiveEntries
  BY <1>1, <1>2 DEF LiveEntries
<1>5. LiveEntries' = LiveEntries \ {e}
  <2>1. \A d \in queue : d # e => (status[Current(d.id)])' = status[Current(d.id)]
    BY <1>2, <1>3, FreshEntryFacts DEF Current
  <2>2. (status[Current(e.id)])' # "queued"
    BY <1>1, <1>2, <1>3 DEF Current
  <2>3. QED
    BY <1>3, <2>1, <2>2 DEF LiveEntries
<1>6. job \in Waits /\ Waits' = Waits \ {job}
  <2>1. \A d \in LiveEntries : d # e => [tier |-> d.tier, id |-> d.id] # job
    BY <1>1, <1>2 DEF LiveEntries
  <2>2. QED
    BY <1>4, <1>5, <2>1 DEF Waits
<1>7. Held' = Held
  BY <1>3 DEF Held
<1>8. OutcomeOf' = [OutcomeOf EXCEPT ![i] = "cancelled"]
  <2>1. \A j \in WorkIds : <<j, 1>> \in Objs
    BY EngineAssumption DEF EngineAssumption, Objs, Gens
  <2>2. \A j \in WorkIds : status'[<<j, 1>>] = IF j = i THEN "cancelled" ELSE status[<<j, 1>>]
    BY <1>3, <2>1
  <2>3. QED
    BY <1>7, <2>2 DEF OutcomeOf, Terminal
<1>9. Board!Withdraw(job)
  BY <1>1, <1>3, <1>6, <1>7, <1>8 DEF Board!Withdraw
<1>10. QED
  BY <1>6, <1>9

\* The clean-up of a cancelled entry is invisible.
LEMMA SkipIsUnseen ==
  ASSUME EngineInv, FreshInv, NEW w \in Workers, SkipCancelled(w)
  PROVE  UNCHANGED Board!boardVars
<1>1. PICK e \in queue : status[Current(e.id)] = "cancelled" /\ queue' = queue \ {e}
  BY DEF SkipCancelled
<1>2. UNCHANGED <<cur, status, hold, shutdown>>
  BY DEF SkipCancelled
<1>3. UNCHANGED LiveEntries
  BY <1>1, <1>2 DEF LiveEntries, Current
<1>4. UNCHANGED Held
  BY <1>2 DEF Held
<1>5. QED
  BY <1>2, <1>3, <1>4 DEF Board!boardVars, Waits, OutcomeOf

\* A worker begins the best waiting job.
LEMMA PickUpBegins ==
  ASSUME EngineInv, FreshInv, NEW w \in Workers, PickUp(w)
  PROVE  \E e \in Waits : Board!Begin(e)
<1>1. PICK e \in queue :
        /\ IsFirst(e) /\ status[Current(e.id)] # "cancelled"
        /\ queue' = queue \ {e}
        /\ status' = [status EXCEPT ![Current(e.id)] = "running"]
        /\ hold' = [hold EXCEPT ![w] = Current(e.id)]
  BY DEF PickUp
<1> DEFINE job == [tier |-> e.tier, id |-> e.id]
<1>2. /\ e.id \in WorkIds /\ Current(e.id) = <<e.id, 1>> /\ <<e.id, 1>> \in Objs
      /\ status[<<e.id, 1>>] = "queued" /\ \A d \in queue : d.id = e.id => d = e
  BY <1>1, FreshEntryFacts DEF FreshInv, FreshWaits, FreshEntries
<1>3. ~shutdown /\ hold[w] = None /\ UNCHANGED <<cur, shutdown>>
  BY DEF PickUp, EngineInv, HoldIffExecuting
<1>4. \A o \in Objs : status'[o] = IF o = <<e.id, 1>> THEN "running" ELSE status[o]
  BY <1>1, <1>2 DEF EngineInv, EngineTypeOK
<1>5. \A v \in Workers : hold'[v] = IF v = w THEN <<e.id, 1>> ELSE hold[v]
  BY <1>1, <1>2 DEF EngineInv, EngineTypeOK
<1>6. e \in LiveEntries /\ LiveEntries' = LiveEntries \ {e}
  <2>1. \A d \in queue : d # e => (status[Current(d.id)])' = status[Current(d.id)]
    BY <1>2, <1>3, <1>4, FreshEntryFacts DEF Current
  <2>2. QED
    BY <1>1, <1>2, <2>1 DEF LiveEntries
<1>7. job \in Waits /\ Waits' = Waits \ {job}
  <2>1. \A d \in LiveEntries : d # e => [tier |-> d.tier, id |-> d.id] # job
    BY <1>2 DEF LiveEntries
  <2>2. QED
    BY <1>6, <2>1 DEF Waits
<1>8. Held' = Held \cup {e.id}
  <2>1. <<e.id, 1>> # None
    BY <1>2, ObjFacts
  <2>2. QED
    BY <1>2, <1>3, <1>5, <2>1 DEF Held
<1>9. OutcomeOf' = OutcomeOf
  <2>1. \A j \in WorkIds : <<j, 1>> \in Objs
    BY EngineAssumption DEF EngineAssumption, Objs, Gens
  <2>2. \A j \in WorkIds : status'[<<j, 1>>] = IF j = e.id THEN "running" ELSE status[<<j, 1>>]
    BY <1>4, <2>1
  <2>3. QED
    BY <1>2, <1>8, <2>2 DEF OutcomeOf, Terminal
<1>10. Board!Best(job)
  <2> SUFFICES ASSUME NEW d \in LiveEntries, [tier |-> d.tier, id |-> d.id] # job
               PROVE  e.tier < d.tier \/ (e.tier = d.tier /\ e.id < d.id)
    BY DEF Board!Best, Waits
  <2>1. d \in queue /\ Before(e, d)
    BY <1>1 DEF IsFirst, LiveEntries
  <2>2. d.id \in Nat /\ e.id \in Nat /\ d.id # e.id
    BY <1>2, <2>1, FreshEntryFacts, EngineAssumption DEF EngineAssumption
  <2>3. QED
    BY <2>1, <2>2 DEF Before
<1>11. Cardinality(Held) < Cardinality(Workers)
  BY <1>3, RoomForReader DEF EngineInv
<1>12. Board!Begin(job)
  <2>1. job.id = e.id
    OBVIOUS
  <2> HIDE DEF job
  <2>2. (~shutdown)' = ~shutdown
    BY <1>3
  <2>3. UNCHANGED <<OutcomeOf, ~shutdown>>
    BY <1>9, <2>2
  <2>4. Held' = Held \cup {job.id} /\ Waits' = Waits \ {job}
    BY <2>1, <1>7, <1>8
  <2>5. Board!Cardinality(Held) = Cardinality(Held)
    BY DEF Board!Cardinality, Cardinality, Board!IsFiniteSet, IsFiniteSet
  <2>6. QED
    BY <1>3, <1>10, <1>11, <2>3, <2>4, <2>5 DEF Board!Begin
<1>13. QED
  BY <1>7, <1>12

\* What a worker lets go of was held by no other.
LEMMA LetGo ==
  ASSUME EngineInv, FreshInv, ~ReuseIds, NEW w \in Workers, hold[w] # None,
         hold' = [hold EXCEPT ![w] = None]
  PROVE  Held' = Held \ {hold[w][1]}
<1>1. \A v \in Workers : hold'[v] = IF v = w THEN None ELSE hold[v]
  BY DEF EngineInv, EngineTypeOK
<1>2. \A v \in Workers : v # w /\ hold[v] # None => hold[v][1] # hold[w][1]
  BY FreshHeldFacts DEF EngineInv, ExecutedOnce
<1>3. QED
  BY <1>1, <1>2 DEF Held

\* An agent's answer or exception ends the job.
LEMMA FinishEnds ==
  ASSUME EngineInv, FreshInv, ~ReuseIds, NEW w \in Workers,
         NEW o \in {"completed", "failed"}, Finish(w, o)
  PROVE  \E j \in Held : Board!End(j, o)
<1> DEFINE j == hold[w][1]
<1>1. hold[w] # None
  BY DEF Finish, EngineInv, HoldIffExecuting
<1>2. /\ j \in WorkIds /\ j \in Held /\ hold[w] = <<j, 1>> /\ <<j, 1>> \in Objs
      /\ status[<<j, 1>>] = "running"
  BY <1>1, FreshHeldFacts
<1> HIDE DEF j
<1>3. ~shutdown /\ UNCHANGED <<cur, queue, shutdown>> /\ hold' = [hold EXCEPT ![w] = None]
  BY DEF Finish
<1>4. \A p \in Objs : status'[p] = IF p = <<j, 1>> THEN o ELSE status[p]
  BY <1>2 DEF Finish, EngineInv, EngineTypeOK
<1>5. Held' = Held \ {j}
  BY <1>1, <1>3, LetGo DEF j
<1>6. Waits' = Waits
  <2>1. \A d \in queue : d.id # j
    BY <1>2, FreshEntryFacts DEF FreshInv, FreshWaits
  <2>2. \A d \in queue : (status[Current(d.id)])' = status[Current(d.id)]
    BY <1>3, <1>4, <2>1, FreshEntryFacts DEF Current
  <2>3. QED
    BY <1>3, <2>2 DEF LiveEntries, Waits
<1>7. OutcomeOf' = [OutcomeOf EXCEPT ![j] = o]
  <2>1. \A i \in WorkIds : <<i, 1>> \in Objs
    BY EngineAssumption DEF EngineAssumption, Objs, Gens
  <2>2. \A i \in WorkIds : status'[<<i, 1>>] = IF i = j THEN o ELSE status[<<i, 1>>]
    BY <1>4, <2>1
  <2>3. QED
    BY <1>5, <2>2 DEF OutcomeOf, Terminal
<1>8. Board!End(j, o)
  BY <1>3, <1>5, <1>6, <1>7 DEF Board!End
<1>9. QED
  BY <1>2, <1>8

\* A worker that is cancelled abandons its job, if it has one.
LEMMA CancelledAbandons ==
  ASSUME EngineInv, FreshInv, ~ReuseIds, NEW w \in Workers, Cancelled(w)
  PROVE  (\E j \in Held : Board!End(j, "abandoned")) \/ UNCHANGED Board!boardVars
<1>1. shutdown /\ UNCHANGED <<cur, status, queue, shutdown>> /\ hold' = [hold EXCEPT ![w] = None]
  BY DEF Cancelled
<1>2. LiveEntries' = LiveEntries
  BY <1>1 DEF LiveEntries, Current
<1>3. CASE hold[w] = None
  <2>1. hold' = hold
    BY <1>1, <1>3 DEF EngineInv, EngineTypeOK
  <2>2. QED
    BY <1>1, <2>1, BoardUnseen
<1>4. CASE hold[w] # None
  <2> DEFINE j == hold[w][1]
  <2>1. /\ j \in WorkIds /\ j \in Held /\ hold[w] = <<j, 1>> /\ status[<<j, 1>>] = "running"
    BY <1>4, FreshHeldFacts
  <2>2. Held' = Held \ {j}
    BY <1>1, <1>4, LetGo
  <2> HIDE DEF j
  <2>3. OutcomeOf' = [OutcomeOf EXCEPT ![j] = "abandoned"]
    BY <1>1, <2>1, <2>2 DEF OutcomeOf, Terminal
  <2>4. Board!End(j, "abandoned")
    BY <1>1, <1>2, <2>2, <2>3 DEF Board!End, Waits
  <2>5. QED
    BY <2>1, <2>4
<1>5. QED
  BY <1>3, <1>4

\* Every step of the engine is one of the board, or invisible to it.
LEMMA BoardStep ==
  ASSUME EngineInv, ~ReuseIds, [EngineNext]_engineVars
  PROVE  [Board!BoardNext]_(Board!boardVars)
<1>1. FreshInv
  BY DEF EngineInv
<1>2. CASE Start
  BY <1>2, BoardUnseen DEF Start
<1>3. ASSUME NEW i \in WorkIds, NEW t \in Tiers, Dispatch(i, t)
      PROVE  Board!BoardNext
  BY <1>1, <1>3, DispatchSubmits DEF Board!BoardNext
<1>4. ASSUME NEW i \in WorkIds, Cancel(i) PROVE Board!BoardNext
  BY <1>1, <1>4, CancelWithdraws DEF Board!BoardNext
<1>5. CASE Stop
  <2>1. Held' = Held
    BY <1>5 DEF Stop, Held
  <2>2. Waits' = Waits
    BY <1>5 DEF Stop, Waits, LiveEntries, Current
  <2>3. OutcomeOf' = OutcomeOf
    BY <1>5, <2>1 DEF Stop, OutcomeOf
  <2>4. QED
    BY <1>5, <2>1, <2>2, <2>3 DEF Stop, Board!BoardNext, Board!Close
<1>6. ASSUME NEW w \in Workers, SkipCancelled(w) PROVE UNCHANGED Board!boardVars
  BY <1>1, <1>6, SkipIsUnseen
<1>7. ASSUME NEW w \in Workers, PickUp(w) PROVE Board!BoardNext
  BY <1>1, <1>7, PickUpBegins DEF Board!BoardNext
<1>8. ASSUME NEW w \in Workers, NEW o \in {"completed", "failed"}, Finish(w, o)
      PROVE  Board!BoardNext
  BY <1>1, <1>8, FinishEnds DEF Board!BoardNext
<1>9. ASSUME NEW w \in Workers, Cancelled(w) PROVE [Board!BoardNext]_(Board!boardVars)
  BY <1>1, <1>9, CancelledAbandons DEF Board!BoardNext
<1>10. CASE UNCHANGED engineVars
  BY <1>10, BoardUnseen DEF engineVars
<1>11. QED
  BY <1>2, <1>3, <1>4, <1>5, <1>6, <1>7, <1>8, <1>9, <1>10 DEF EngineNext, WorkerStep

\* With fresh ids the engine is a board: the best waiting job next, never more
\* than max_concurrent of them, one outcome each, whatever cancels and a stop()
\* come in between.
THEOREM EngineIsABoard == ~ReuseIds => (EngineSafety => ImplementsBoard)
<1> SUFFICES ASSUME ~ReuseIds PROVE EngineSafety => ImplementsBoard
  OBVIOUS
<1>1. EngineInit => Board!BoardInit
  BY BoardInitially
<1>2. EngineInv /\ [EngineNext]_engineVars => [Board!BoardNext]_(Board!boardVars)
  BY BoardStep
<1>3. QED
  BY <1>1, <1>2, EngineInvariance, PTL DEF EngineSafety, ImplementsBoard, Board!BoardSpec

-----------------------------------------------------------------------------
(***************************************************************************)
(* The pipeline for any number of runs and issues over any engine.  That a *)
(* run halts at the stage that fails and that no enrichment of a spec is   *)
(* lost uses nothing of the engine.  That stages do not overlap in it, and *)
(* that a completed stage has its work, rests on the invariant of the      *)
(* engine: work that is finished stays so when no id is used twice.        *)
(***************************************************************************)


RunsTypeOK ==
    /\ pc \in [Runs -> {"idle", "loading", "next", "polling", "saving", "verifying",
                        "done", "raised"}]
    /\ stage \in [Runs -> 1..6]
    /\ stages \in [Runs -> [Stages -> {"pending", "running", "completed", "failed", "skipped"}]]
    /\ runStatus \in [Runs -> {"pending", "running", "completed", "failed"}]

Past == {"completed", "skipped"}

\* What is said of one run; the actions of another leave it alone.
RunOK(r) ==
    /\ \A s \in Stages : s < stage[r] => stages[r][s] \in Past
    /\ \A s \in Stages : s > stage[r] => stages[r][s] = "pending"
    /\ pc[r] \in {"polling", "saving", "verifying"} => stage[r] \in Stages
    /\ pc[r] \in {"saving", "verifying"} => stages[r][stage[r]] \in Past
    /\ stage[r] \in Stages /\ stages[r][stage[r]] = "failed" =>
           runStatus[r] = "failed" /\ pc[r] = "done"
    /\ runStatus[r] = "completed" => stage[r] = 6 /\ pc[r] = "done"

HaltInv == RunsTypeOK /\ \A r \in Runs : RunOK(r)

LEMMA HaltInitially == PipelineInit => HaltInv
<1> SUFFICES ASSUME PipelineInit PROVE HaltInv
  OBVIOUS
<1>1. RunsTypeOK
  BY DEF PipelineInit, RunsTypeOK
<1>2. ASSUME NEW r \in Runs PROVE RunOK(r)
  <2>1. \A s \in Stages : ~(s < 1)
    BY DEF Stages
  <2>2. QED
    BY <2>1 DEF PipelineInit, RunOK, Stages
<1>3. QED
  BY <1>1, <1>2 DEF HaltInv

\* A stage is marked, and the run stays at it.
LEMMA MarkFacts ==
  ASSUME HaltInv, NEW r \in Runs, stage[r] \in Stages,
         NEW st \in {"running", "completed", "failed", "skipped"}, MarkStage(r, st)
  PROVE  /\ stages' \in
              [Runs -> [Stages -> {"pending", "running", "completed", "failed", "skipped"}]]
         /\ stages'[r][stage[r]] = st
         /\ \A s \in Stages \ {stage[r]} : stages'[r][s] = stages[r][s]
         /\ \A q \in Runs \ {r} : stages'[q] = stages[q]
BY DEF MarkStage, HaltInv, RunsTypeOK

LEMMA AdvanceFacts ==
  ASSUME HaltInv, NEW r \in Runs, stage[r] \in Stages, Advance(r)
  PROVE  /\ stage' \in [Runs -> 1..6] /\ stage'[r] = stage[r] + 1 /\ pc'[r] = "next"
         /\ pc' \in [Runs -> {"idle", "loading", "next", "polling", "saving", "verifying",
                              "done", "raised"}]
         /\ \A q \in Runs \ {r} : stage'[q] = stage[q] /\ pc'[q] = pc[q]
<1>1. stage[r] + 1 \in 1..6
  BY DEF Stages
<1>2. QED
  BY <1>1 DEF Advance, HaltInv, RunsTypeOK

\* A run that goes on leaves a stage that is past.
LEMMA GoesOn ==
  ASSUME HaltInv, NEW r \in Runs, stage[r] \in Stages, Advance(r), runStatus' = runStatus,
         runStatus[r] # "completed",
         stages' \in [Runs -> [Stages -> {"pending", "running", "completed", "failed", "skipped"}]],
         stages'[r][stage[r]] \in Past,
         \A s \in Stages \ {stage[r]} : stages'[r][s] = stages[r][s],
         \A q \in Runs \ {r} : stages'[q] = stages[q]
  PROVE  HaltInv'
<1>1. /\ stage' \in [Runs -> 1..6] /\ stage'[r] = stage[r] + 1 /\ pc'[r] = "next"
      /\ pc' \in [Runs -> {"idle", "loading", "next", "polling", "saving", "verifying",
                           "done", "raised"}]
      /\ \A q \in Runs \ {r} : stage'[q] = stage[q] /\ pc'[q] = pc[q]
  BY AdvanceFacts
<1>2. RunsTypeOK'
  BY <1>1 DEF HaltInv, RunsTypeOK
<1>3. \A s \in Stages : /\ s < stage[r] + 1 => s < stage[r] \/ s = stage[r]
                        /\ s > stage[r] + 1 => s > stage[r] /\ s # stage[r]
                        /\ stage[r] + 1 = s => s > stage[r] /\ s # stage[r]
  BY DEF Stages
<1>4. RunOK(r)'
  <2>1. \A s \in Stages : s < stage'[r] => stages'[r][s] \in Past
    BY <1>1, <1>3 DEF HaltInv, RunOK
  <2>2. \A s \in Stages : s >= stage'[r] => stages'[r][s] = "pending"
    <3>1. ASSUME NEW s \in Stages, s >= stage[r] + 1 PROVE s > stage[r] /\ s # stage[r]
      BY <3>1 DEF Stages
    <3>2. QED
      BY <1>1, <3>1 DEF HaltInv, RunOK
  <2>3. \A s \in Stages : (s > stage'[r] \/ s = stage'[r]) => s >= stage'[r]
    BY <1>1 DEF Stages
  <2>4. QED
    BY <1>1, <2>1, <2>2, <2>3 DEF RunOK
<1>5. ASSUME NEW q \in Runs, q # r PROVE RunOK(q)'
  BY <1>1, <1>5 DEF HaltInv, RunOK
<1>6. QED
  BY <1>2, <1>4, <1>5 DEF HaltInv

\* A run that waits at its stage, with the stage marked or as it was.
LEMMA StaysAtStage ==
  ASSUME HaltInv, NEW r \in Runs, stage[r] \in Stages, stage' = stage, runStatus' = runStatus,
         runStatus[r] # "completed",
         stages' \in [Runs -> [Stages -> {"pending", "running", "completed", "failed", "skipped"}]],
         NEW to \in {"polling", "saving", "verifying", "raised"}, pc' = [pc EXCEPT ![r] = to],
         stages'[r][stage[r]] # "failed",
         to \in {"saving", "verifying"} => stages'[r][stage[r]] \in Past,
         \A s \in Stages \ {stage[r]} : stages'[r][s] = stages[r][s],
         \A q \in Runs \ {r} : stages'[q] = stages[q]
  PROVE  HaltInv'
<1>1. /\ pc' \in [Runs -> {"idle", "loading", "next", "polling", "saving", "verifying",
                           "done", "raised"}]
      /\ pc'[r] = to /\ \A q \in Runs \ {r} : pc'[q] = pc[q]
  BY DEF HaltInv, RunsTypeOK
<1>2. RunsTypeOK'
  BY <1>1 DEF HaltInv, RunsTypeOK
<1>3. \A s \in Stages : s < stage[r] \/ s > stage[r] => s # stage[r]
  BY DEF Stages
<1>4. RunOK(r)'
  BY <1>1, <1>3 DEF HaltInv, RunOK
<1>5. ASSUME NEW q \in Runs, q # r PROVE RunOK(q)'
  BY <1>1, <1>5 DEF HaltInv, RunOK
<1>6. QED
  BY <1>2, <1>4, <1>5 DEF HaltInv

LEMMA HaltFacts ==
  ASSUME HaltInv, NEW r \in Runs, stage[r] \in Stages, Halt(r), stage' = stage
  PROVE  HaltInv'
<1>1. /\ stages' \in
           [Runs -> [Stages -> {"pending", "running", "completed", "failed", "skipped"}]]
      /\ stages'[r][stage[r]] = "failed"
      /\ \A s \in Stages \ {stage[r]} : stages'[r][s] = stages[r][s]
      /\ \A q \in Runs \ {r} : stages'[q] = stages[q]
  BY MarkFacts DEF Halt
<1>2. /\ pc' \in [Runs -> {"idle", "loading", "next", "polling", "saving", "verifying",
                           "done", "raised"}]
      /\ runStatus' \in [Runs -> {"pending", "running", "completed", "failed"}]
      /\ pc'[r] = "done" /\ runStatus'[r] = "failed"
      /\ \A q \in Runs \ {r} : pc'[q] = pc[q] /\ runStatus'[q] = runStatus[q]
  BY DEF Halt, HaltInv, RunsTypeOK
<1>3. RunsTypeOK'
  BY <1>1, <1>2 DEF HaltInv, RunsTypeOK
<1>4. \A s \in Stages : s < stage[r] \/ s > stage[r] => s # stage[r]
  BY DEF Stages
<1>5. RunOK(r)'
  BY <1>1, <1>2, <1>4 DEF HaltInv, RunOK
<1>6. ASSUME NEW q \in Runs, q # r PROVE RunOK(q)'
  BY <1>1, <1>2, <1>6 DEF HaltInv, RunOK
<1>7. QED
  BY <1>3, <1>5, <1>6 DEF HaltInv

\* A run that only moves between awaits before its first stage, or raises there.
LEMMA MovesOnly ==
  ASSUME HaltInv, NEW r \in Runs, stage' = stage, stages' = stages,
         pc[r] \in {"idle", "loading"}, NEW to \in {"loading", "next", "raised"},
         pc' = [pc EXCEPT ![r] = to],
         runStatus' = runStatus \/ runStatus' = [runStatus EXCEPT ![r] = "running"]
  PROVE  HaltInv'
<1>1. /\ pc' \in [Runs -> {"idle", "loading", "next", "polling", "saving", "verifying",
                           "done", "raised"}]
      /\ runStatus' \in [Runs -> {"pending", "running", "completed", "failed"}]
      /\ pc'[r] = to /\ (runStatus'[r] = "completed" => runStatus[r] = "completed")
      /\ \A q \in Runs \ {r} : pc'[q] = pc[q] /\ runStatus'[q] = runStatus[q]
  BY DEF HaltInv, RunsTypeOK
<1>2. RunsTypeOK'
  BY <1>1 DEF HaltInv, RunsTypeOK
<1>3. RunOK(r)'
  BY <1>1 DEF HaltInv, RunOK
<1>4. ASSUME NEW q \in Runs, q # r PROVE RunOK(q)'
  BY <1>1, <1>4 DEF HaltInv, RunOK
<1>5. QED
  BY <1>2, <1>3, <1>4 DEF HaltInv

LEMMA RunStepKeeps ==
  ASSUME HaltInv, NEW r \in Runs, Launch(r) \/ RunStep(r)
  PROVE  HaltInv'
<1>1. /\ stage[r] \in 1..6 /\ Missing \subseteq Stages
      /\ pc[r] # "done" => runStatus[r] # "completed"
      /\ pc[r] \in {"polling", "saving", "verifying"} => stage[r] \in Stages
      /\ stage[r] \in Stages /\ pc[r] # "done" => stages[r][stage[r]] # "failed"
  BY PipelineAssumption DEF HaltInv, RunsTypeOK, RunOK, PipelineAssumption
<1>2. CASE Launch(r)
  BY <1>2, MovesOnly DEF Launch
<1>3. CASE LoadSpec(r)
  BY <1>3, MovesOnly DEF LoadSpec
<1>4. CASE SkipAtomic(r)
  <2>1. /\ stage[r] \in Stages /\ runStatus[r] # "completed" /\ runStatus' = runStatus
        /\ MarkStage(r, "skipped")
    BY <1>1, <1>4 DEF SkipAtomic, AtStage, Decompose, Stages
  <2>2. \/ stage' = stage /\ pc' = [pc EXCEPT ![r] = "saving"]
        \/ Advance(r)
    BY <1>4 DEF SkipAtomic
  <2>3. QED
    BY <2>1, <2>2, MarkFacts, GoesOn, StaysAtStage DEF Past
<1>5. CASE SkipClean(r) \/ SkipMissing(r)
  <2>1. /\ stage[r] \in Stages /\ runStatus[r] # "completed" /\ runStatus' = runStatus
        /\ MarkStage(r, "skipped") /\ Advance(r)
    BY <1>1, <1>5 DEF SkipClean, SkipMissing, AtStage, Cleanup, Stages
  <2>2. QED
    BY <2>1, MarkFacts, GoesOn DEF Past
<1>6. CASE DispatchStage(r)
  <2>1. /\ stage[r] \in Stages /\ runStatus[r] # "completed" /\ runStatus' = runStatus
        /\ MarkStage(r, "running") /\ stage' = stage /\ pc' = [pc EXCEPT ![r] = "polling"]
    BY <1>1, <1>6 DEF DispatchStage
  <2>2. QED
    BY <2>1, MarkFacts, StaysAtStage
<1>7. CASE Complete(r)
  <2>1. /\ stage[r] = 6 /\ UNCHANGED <<stage, stages>>
        /\ pc' = [pc EXCEPT ![r] = "done"]
        /\ runStatus' = [runStatus EXCEPT ![r] = "completed"]
    BY <1>7 DEF Complete
  <2>2. RunsTypeOK'
    BY <2>1 DEF HaltInv, RunsTypeOK
  <2>3. 6 \notin Stages
    BY DEF Stages
  <2>4. /\ pc'[r] = "done" /\ runStatus'[r] = "completed"
        /\ \A q \in Runs \ {r} : pc'[q] = pc[q] /\ runStatus'[q] = runStatus[q]
    BY <2>1 DEF HaltInv, RunsTypeOK
  <2>5. \A q \in Runs : RunOK(q)'
    BY <2>1, <2>3, <2>4 DEF HaltInv, RunOK
  <2>6. QED
    BY <2>2, <2>5 DEF HaltInv
<1>8. CASE PollAgain(r)
  <2>1. UNCHANGED <<pc, stage, stages, runStatus>>
    BY <1>8 DEF PollAgain
  <2>2. QED
    BY <2>1 DEF HaltInv, RunsTypeOK, RunOK
<1>9. CASE StageFails(r) \/ StageTimesOut(r)
  <2>1. stage[r] \in Stages /\ Halt(r) /\ stage' = stage
    BY <1>1, <1>9 DEF StageFails, StageTimesOut
  <2>2. QED
    BY <2>1, HaltFacts
<1>10. ASSUME NEW cl \in BOOLEAN, StageCompletes(r, cl) PROVE HaltInv'
  <2>1. /\ stage[r] \in Stages /\ runStatus[r] # "completed" /\ runStatus' = runStatus
        /\ MarkStage(r, "completed")
    BY <1>1, <1>10 DEF StageCompletes
  <2>2. \/ Advance(r)
        \/ \E to \in {"saving", "verifying"} : pc' = [pc EXCEPT ![r] = to] /\ stage' = stage
    BY <1>10 DEF StageCompletes, AfterHooks
  <2>3. QED
    BY <2>1, <2>2, MarkFacts, GoesOn, StaysAtStage DEF Past
<1>11. CASE SaveSpec(r)
  <2>1. /\ stage[r] \in Stages /\ runStatus[r] # "completed" /\ runStatus' = runStatus
        /\ stages' = stages /\ stages[r][stage[r]] \in Past
    BY <1>1, <1>11 DEF SaveSpec, HaltInv, RunOK
  <2>2. \/ Advance(r)
        \/ pc' = [pc EXCEPT ![r] = "verifying"] /\ stage' = stage
    BY <1>11 DEF SaveSpec
  <2>3. stages' \in [Runs -> [Stages -> {"pending", "running", "completed", "failed", "skipped"}]]
    BY <2>1 DEF HaltInv, RunsTypeOK
  <2>4. CASE Advance(r)
    BY <2>1, <2>3, <2>4, GoesOn
  <2>5. CASE pc' = [pc EXCEPT ![r] = "verifying"] /\ stage' = stage
    BY <2>1, <2>3, <2>5, StaysAtStage DEF Past
  <2>6. QED
    BY <2>2, <2>4, <2>5
<1>12. ASSUME NEW passed \in BOOLEAN, Verify(r, passed) PROVE HaltInv'
  <2>1. /\ stage[r] \in Stages /\ runStatus[r] # "completed"
        /\ stages[r][stage[r]] \in Past
    BY <1>1, <1>12 DEF Verify, HaltInv, RunOK
  <2>2. \/ Advance(r) /\ UNCHANGED <<stages, runStatus>>
        \/ Halt(r) /\ stage' = stage
    BY <1>12 DEF Verify
  <2>3. stages \in [Runs -> [Stages -> {"pending", "running", "completed", "failed", "skipped"}]]
    BY DEF HaltInv, RunsTypeOK
  <2>4. QED
    BY <2>1, <2>2, <2>3, GoesOn, HaltFacts
<1>13. CASE HookRaises(r)
  <2>1. /\ pc[r] \in {"loading", "saving", "verifying"} /\ pc' = [pc EXCEPT ![r] = "raised"]
        /\ UNCHANGED <<stage, stages, runStatus>>
    BY <1>13 DEF HookRaises
  <2>2. CASE pc[r] = "loading"
    BY <2>1, <2>2, MovesOnly
  <2>3. CASE pc[r] \in {"saving", "verifying"}
    <3>1. /\ stage[r] \in Stages /\ runStatus[r] # "completed"
          /\ stages[r][stage[r]] # "failed"
      BY <1>1, <2>3
    <3>2. stages \in
            [Runs -> [Stages -> {"pending", "running", "completed", "failed", "skipped"}]]
      BY DEF HaltInv, RunsTypeOK
    <3>3. QED
      BY <2>1, <3>1, <3>2, StaysAtStage
  <2>4. QED
    BY <2>1, <2>2, <2>3
<1>14. QED
  BY <1>2, <1>3, <1>4, <1>5, <1>6, <1>7, <1>8, <1>9, <1>10, <1>11, <1>12, <1>13 DEF RunStep

LEMMA HaltStep ==
  ASSUME HaltInv, [PipelineNext]_pipelineVars
  PROVE  HaltInv'
<1>1. ASSUME UNCHANGED runVars PROVE HaltInv'
  BY <1>1 DEF runVars, HaltInv, RunsTypeOK, RunOK
<1>2. CASE EngineSide \/ UNCHANGED pipelineVars
  BY <1>1, <1>2 DEF EngineSide, pipelineVars
<1>3. ASSUME NEW r \in Runs, Launch(r) \/ RunStep(r) PROVE HaltInv'
  BY <1>3, RunStepKeeps
<1>4. QED
  BY <1>2, <1>3 DEF PipelineNext

\* "If a stage fails, the pipeline halts": no later stage was touched, and a run
\* that is completed has every stage completed or skipped (execute()).
THEOREM RunsHaltOnFailure == PipelineSafety => []HaltOnFailure
<1>1. HaltInv /\ [PipelineNext]_pipelineVars => HaltInv'
  BY HaltStep
<1>2. HaltInv => HaltOnFailure
  <2> SUFFICES ASSUME HaltInv, NEW r \in Runs
               PROVE  /\ \A s \in Stages : stages[r][s] = "failed" =>
                           /\ runStatus[r] = "failed"
                           /\ \A u \in Stages : u > s => stages[r][u] = "pending"
                      /\ runStatus[r] = "completed" =>
                           \A s \in Stages : stages[r][s] \in {"completed", "skipped"}
    BY DEF HaltOnFailure
  <2>1. stage[r] \in 1..6 /\ RunOK(r)
    BY DEF HaltInv, RunsTypeOK
  <2>2. ASSUME NEW s \in Stages, stages[r][s] = "failed" PROVE s = stage[r]
    <3>1. s < stage[r] \/ s = stage[r] \/ s > stage[r]
      BY <2>1 DEF Stages
    <3>2. QED
      BY <2>1, <2>2, <3>1 DEF RunOK, Past
  <2>3. \A s \in Stages : s < 6
    BY DEF Stages
  <2>4. QED
    BY <2>1, <2>2, <2>3 DEF RunOK, Past
<1>3. QED
  BY <1>1, <1>2, HaltInitially, PTL DEF PipelineSafety

-----------------------------------------------------------------------------
(* Types                                                                    *)

RestTypeOK ==
    /\ polls \in [Runs -> 0..MaxPolls]
    /\ clean \in [Runs -> BOOLEAN]
    /\ spec \in [Runs -> SpecState]
    /\ verified \in [Runs -> SUBSET Stages]
    /\ store \in [{ Issue[r] : r \in Runs } -> SpecState]

\* The engine sees of a run the dispatch of a stage and the cancel at its deadline.
LEMMA RunStepsEngine ==
  ASSUME HaltInv, NEW r \in Runs, Launch(r) \/ RunStep(r)
  PROVE  \/ UNCHANGED engineVars
         \/ /\ DispatchStage(r) /\ stage[r] \in Stages
            /\ Dispatch(WorkId(Issue[r], stage[r]), P5)
         \/ /\ StageTimesOut(r) /\ stage[r] \in Stages
            /\ Cancel(WorkId(Issue[r], stage[r]))
<1>1. CASE DispatchStage(r)
  BY <1>1 DEF DispatchStage
<1>2. CASE StageTimesOut(r)
  BY <1>2 DEF StageTimesOut, HaltInv, RunOK
<1>3. QED
  BY <1>1, <1>2 DEF Launch, RunStep, LoadSpec, SkipAtomic, SkipClean, SkipMissing,
    Complete, PollAgain, StageFails, StageCompletes, SaveSpec, Verify, HookRaises

\* Every step of the pipeline is a step of the engine for the engine.
LEMMA PipelineStepsEngine ==
  ASSUME HaltInv, [PipelineNext]_pipelineVars
  PROVE  [EngineNext]_engineVars
<1>1. CASE EngineSide
  BY <1>1 DEF EngineSide, EngineNext
<1>2. ASSUME NEW r \in Runs, Launch(r) \/ RunStep(r) PROVE [EngineNext]_engineVars
  <2>1. P5 \in Tiers /\ \A s \in Stages : WorkId(Issue[r], s) \in WorkIds
    BY PipelineAssumption DEF PipelineAssumption
  <2>2. QED
    BY <1>2, <2>1, RunStepsEngine DEF EngineNext
<1>3. QED
  BY <1>1, <1>2 DEF PipelineNext, pipelineVars

LEMMA RestTypeStep ==
  ASSUME HaltInv, RestTypeOK, [PipelineNext]_pipelineVars
  PROVE  RestTypeOK'
<1>1. 0 \in 0..MaxPolls /\ \A k \in 0..MaxPolls : k # MaxPolls => k + 1 \in 0..MaxPolls
  BY PipelineAssumption DEF PipelineAssumption
<1>2. CASE EngineSide \/ UNCHANGED pipelineVars
  BY <1>2 DEF EngineSide, pipelineVars, runVars, RestTypeOK
<1>3. ASSUME NEW r \in Runs, Launch(r) \/ RunStep(r) PROVE RestTypeOK'
  <2>1. CASE DispatchStage(r) \/ PollAgain(r)
    BY <1>1, <2>1 DEF DispatchStage, PollAgain, RestTypeOK, Deadline
  <2>2. CASE LoadSpec(r) \/ SkipAtomic(r) \/ SkipMissing(r)
    BY <2>2 DEF LoadSpec, SkipAtomic, SkipMissing, RestTypeOK, SpecState
  <2>3. ASSUME NEW cl \in BOOLEAN, StageCompletes(r, cl) PROVE RestTypeOK'
    BY <2>3 DEF StageCompletes, RestTypeOK, SpecState
  <2>4. CASE SaveSpec(r)
    BY <2>4 DEF SaveSpec, RestTypeOK
  <2>5. ASSUME NEW passed \in BOOLEAN, Verify(r, passed) PROVE RestTypeOK'
    <3>1. stage[r] \in Stages
      BY <2>5 DEF Verify, HaltInv, RunOK
    <3>2. QED
      BY <2>5, <3>1 DEF Verify, RestTypeOK
  <2>6. QED
    BY <1>3, <2>1, <2>2, <2>3, <2>4, <2>5 DEF Launch, RunStep, SkipClean, Complete,
      StageFails, StageTimesOut, HookRaises, RestTypeOK
<1>4. QED
  BY <1>2, <1>3 DEF PipelineNext

-----------------------------------------------------------------------------
(* The spec of an issue                                                     *)

Active(r) == pc[r] \notin {"idle", "done", "raised"}

\* With the in-progress label one run of an issue is active, and past its
\* load it knows of every enrichment the store has.
SpecInv ==
    /\ \A q, r \in Runs : Active(q) /\ Active(r) /\ Issue[q] = Issue[r] => q = r
    /\ \A r \in Runs : Active(r) /\ pc[r] # "loading" /\ store[Issue[r]] = "enriched"
                         => spec[r] = "enriched"
    /\ \A r \in Runs : ~HasStore => pc[r] # "saving" /\ store[Issue[r]] # "enriched"

\* Of a step of r the other runs see at most what was saved.
LEMMA SpecInvOfRun ==
  ASSUME SpecInv, RunsTypeOK, RestTypeOK, NEW r \in Runs,
         pc' \in [Runs -> {"idle", "loading", "next", "polling", "saving", "verifying",
                           "done", "raised"}],
         \A q \in Runs \ {r} : pc'[q] = pc[q] /\ spec'[q] = spec[q],
         Active(r)' => Active(r),
         \A n \in { Issue[q] : q \in Runs } : n # Issue[r] => store'[n] = store[n],
         Active(r)' /\ pc'[r] # "loading" /\ store'[Issue[r]] = "enriched"
             => spec'[r] = "enriched",
         ~HasStore => pc'[r] # "saving" /\ store'[Issue[r]] # "enriched",
         \/ Active(r) /\ \A q \in Runs : Active(q) /\ Issue[q] = Issue[r] => q = r
         \/ store' = store
  PROVE  SpecInv'
<1>1. ASSUME NEW q \in Runs, q # r, Active(q)', Active(r)' PROVE Issue[q] # Issue[r]
  BY <1>1 DEF SpecInv, Active
<1>2. \A p, q \in Runs : Active(p)' /\ Active(q)' /\ Issue[p] = Issue[q] => p = q
  BY <1>1 DEF SpecInv, Active
<1>3. ASSUME NEW q \in Runs, q # r, Active(q)', pc'[q] # "loading",
             store'[Issue[q]] = "enriched"
      PROVE  spec'[q] = "enriched"
  <2>1. Active(q) /\ pc[q] # "loading" /\ spec'[q] = spec[q]
    BY <1>3 DEF Active
  <2>2. store'[Issue[q]] = store[Issue[q]]
    BY <1>3, <2>1
  <2>3. QED
    BY <1>3, <2>1, <2>2 DEF SpecInv
<1>4. ASSUME NEW q \in Runs, q # r, ~HasStore
      PROVE  pc'[q] # "saving" /\ store'[Issue[q]] # "enriched"
  BY <1>4 DEF SpecInv
<1>5. QED
  BY <1>2, <1>3, <1>4 DEF SpecInv, Active

\* The scanner launches a run only when no other run of the issue is active.
LEMMA LaunchKeepsSpecs ==
  ASSUME SpecInv, RunsTypeOK, RestTypeOK, Exclusive, NEW r \in Runs, Launch(r)
  PROVE  SpecInv'
<1>1. /\ pc' = [pc EXCEPT ![r] = IF HasStore THEN "loading" ELSE "next"]
      /\ UNCHANGED <<spec, store>>
      /\ \A q \in Runs : Issue[q] = Issue[r] => pc[q] \in {"idle", "done", "raised"}
  BY DEF Launch
<1>2. /\ pc'[r] \in {"loading", "next"} /\ (pc'[r] = "next" => ~HasStore)
      /\ \A q \in Runs \ {r} : pc'[q] = pc[q]
  BY <1>1 DEF RunsTypeOK
<1>3. QED
  BY <1>1, <1>2 DEF SpecInv, Active

LEMMA RunKeepsSpecs ==
  ASSUME SpecInv, RunsTypeOK, RunsTypeOK', RestTypeOK, NEW r \in Runs, RunStep(r)
  PROVE  SpecInv'
<1>1. /\ \A q \in Runs : Active(r) /\ Active(q) /\ Issue[q] = Issue[r] => q = r
      /\ Active(r) /\ pc[r] # "loading" /\ store[Issue[r]] = "enriched" => spec[r] = "enriched"
      /\ ~HasStore => pc[r] # "saving" /\ store[Issue[r]] # "enriched"
  BY DEF SpecInv
<1>2. pc' \in [Runs -> {"idle", "loading", "next", "polling", "saving", "verifying",
                        "done", "raised"}]
  BY DEF RunsTypeOK
<1>3. CASE LoadSpec(r)
  <2>1. /\ Active(r) /\ pc[r] = "loading" /\ pc'[r] = "next" /\ store' = store
        /\ spec'[r] = store[Issue[r]]
        /\ \A q \in Runs \ {r} : pc'[q] = pc[q] /\ spec'[q] = spec[q]
    BY <1>3 DEF LoadSpec, RunsTypeOK, RestTypeOK, Active
  <2>2. QED
    BY <1>1, <1>2, <2>1, SpecInvOfRun
<1>4. CASE SkipAtomic(r)
  <2>1. /\ Active(r) /\ pc[r] = "next" /\ pc'[r] \in {"next", "saving"} /\ store' = store
        /\ pc'[r] = "saving" => HasStore
        /\ spec'[r] = spec[r] \/ spec[r] = "none"
        /\ \A q \in Runs \ {r} : pc'[q] = pc[q] /\ spec'[q] = spec[q]
    BY <1>4 DEF SkipAtomic, AtStage, Advance, RunsTypeOK, RestTypeOK, Active
  <2>2. QED
    BY <1>1, <1>2, <2>1, SpecInvOfRun
<1>5. ASSUME NEW cl \in BOOLEAN, StageCompletes(r, cl) PROVE SpecInv'
  <2>1. /\ Active(r) /\ pc[r] = "polling" /\ store' = store
        /\ pc'[r] = "saving" => HasStore
        /\ \A q \in Runs \ {r} : pc'[q] = pc[q]
    BY <1>5 DEF StageCompletes, Advance, AfterHooks, RunsTypeOK, Active
  <2>2. /\ spec[r] = "enriched" => spec'[r] = "enriched"
        /\ \A q \in Runs \ {r} : spec'[q] = spec[q]
    BY <1>5 DEF StageCompletes, RestTypeOK
  <2>3. QED
    BY <1>1, <1>2, <2>1, <2>2, SpecInvOfRun
<1>6. CASE SaveSpec(r)
  <2>1. /\ Active(r) /\ pc[r] = "saving" /\ spec' = spec /\ pc'[r] # "saving"
        /\ HasStore /\ store'[Issue[r]] = spec[r]
        /\ \A n \in { Issue[q] : q \in Runs } : n # Issue[r] => store'[n] = store[n]
        /\ \A q \in Runs \ {r} : pc'[q] = pc[q]
    BY <1>1, <1>6 DEF SaveSpec, Advance, RunsTypeOK, RestTypeOK, Active
  <2>2. QED
    BY <1>1, <1>2, <2>1, SpecInvOfRun
<1>7. ASSUME UNCHANGED <<spec, store>>, pc[r] \notin {"idle", "done", "raised", "loading"} \/ pc'[r] = "raised",
             Active(r),
             pc'[r] \notin {"loading", "saving"},
             \A q \in Runs \ {r} : pc'[q] = pc[q]
      PROVE  SpecInv'
  BY <1>1, <1>2, <1>7, SpecInvOfRun DEF Active
<1>8. CASE SkipClean(r) \/ SkipMissing(r)
  BY <1>7, <1>8 DEF SkipClean, SkipMissing, AtStage, Advance, RunsTypeOK, Active
<1>9. CASE DispatchStage(r) \/ Complete(r)
  BY <1>7, <1>9 DEF DispatchStage, Complete, RunsTypeOK, Active
<1>10. CASE PollAgain(r)
  BY <1>7, <1>10 DEF PollAgain, RunsTypeOK, Active
<1>11. CASE StageFails(r) \/ StageTimesOut(r)
  BY <1>7, <1>11 DEF StageFails, StageTimesOut, Halt, RunsTypeOK, Active
<1>12. ASSUME NEW passed \in BOOLEAN, Verify(r, passed) PROVE SpecInv'
  BY <1>7, <1>12 DEF Verify, Advance, Halt, RunsTypeOK, Active
<1>13. CASE HookRaises(r)
  BY <1>7, <1>13 DEF HookRaises, RunsTypeOK, Active
<1>14. QED
  BY <1>3, <1>4, <1>5, <1>6, <1>8, <1>9, <1>10, <1>11, <1>12, <1>13 DEF RunStep

\* Only save() writes the store.
LEMMA StoreIsSaved ==
  ASSUME PipelineNext, store' # store
  PROVE  \E r \in Runs : SaveSpec(r)
BY DEF PipelineNext, EngineSide, Launch, RunStep, LoadSpec, SkipAtomic, SkipClean, SkipMissing,
  DispatchStage, Complete, PollAgain, StageFails, StageTimesOut, StageCompletes, Verify,
  HookRaises

\* No run overwrites the property tests that another added to the saved spec,
\* when the in-progress label keeps the runs of an issue apart (scanner, execute()).
THEOREM EnrichmentIsKept == Exclusive => (PipelineSafety => EnrichmentKept)
<1> SUFFICES ASSUME Exclusive PROVE PipelineSafety => EnrichmentKept
  OBVIOUS
<1> DEFINE I == HaltInv /\ RestTypeOK /\ SpecInv
           Kept == \A n \in DOMAIN store : store[n] = "enriched" => store'[n] = "enriched"
<1>1. PipelineInit => I
  <2>1. PipelineInit => RestTypeOK /\ SpecInv
    BY PipelineAssumption DEF PipelineAssumption, PipelineInit, RestTypeOK, SpecState, SpecInv,
      Active
  <2>2. QED
    BY <2>1, HaltInitially
<1>2. I /\ [PipelineNext]_pipelineVars => I'
  <2> SUFFICES ASSUME I, [PipelineNext]_pipelineVars PROVE I'
    OBVIOUS
  <2>1. HaltInv' /\ RestTypeOK'
    BY HaltStep, RestTypeStep
  <2>2. CASE EngineSide \/ UNCHANGED pipelineVars
    BY <2>1, <2>2 DEF EngineSide, pipelineVars, runVars, SpecInv, Active
  <2>3. ASSUME NEW r \in Runs, Launch(r) \/ RunStep(r) PROVE SpecInv'
    BY <2>1, <2>3, LaunchKeepsSpecs, RunKeepsSpecs DEF HaltInv
  <2>4. QED
    BY <2>1, <2>2, <2>3 DEF PipelineNext
<1>3. I /\ [PipelineNext]_pipelineVars => [Kept]_pipelineVars
  <2> SUFFICES ASSUME I, PipelineNext, NEW n \in DOMAIN store, store[n] = "enriched",
                      store' # store
               PROVE  store'[n] = "enriched"
    BY DEF pipelineVars
  <2>1. PICK r \in Runs : SaveSpec(r)
    BY StoreIsSaved
  <2>2. store'[n] = IF n = Issue[r] THEN spec[r] ELSE store[n]
    BY <2>1 DEF SaveSpec, RestTypeOK
  <2>3. QED
    BY <2>1, <2>2 DEF SpecInv, SaveSpec, Active
<1>4. QED
  BY <1>1, <1>2, <1>3, PTL DEF PipelineSafety, EnrichmentKept

-----------------------------------------------------------------------------
(* Verification                                                             *)

\* The stage that emits the spec is not passed over for want of an agent.
SpecIsEmitted == Decompose \in Missing => SkipDecompose = Runs

\* Past decomposition a run has its spec, and a completed stage that it has
\* left is verified.
RunVerifyOK(r) ==
    /\ pc[r] \in {"idle", "loading"} => stage[r] = 1
    /\ HasStore /\ (stage[r] > 1 \/ pc[r] \in {"saving", "verifying"}) => spec[r] # "none"
    /\ HasStore /\ HasVerifier =>
         \A s \in Stages : stages[r][s] = "completed" /\ s # stage[r] => s \in verified[r]

VerifyInv == \A r \in Runs : RunVerifyOK(r)

\* A run that leaves its stage has it verified, or it was not completed.
LEMMA LeavesVerified ==
  ASSUME HaltInv, RestTypeOK, VerifyInv, NEW r \in Runs, stage[r] \in Stages, Advance(r),
         \A s \in Stages \ {stage[r]} : stages'[r][s] = stages[r][s],
         verified[r] \subseteq verified'[r],
         HasStore => spec'[r] # "none",
         HasStore /\ HasVerifier /\ stages'[r][stage[r]] = "completed"
             => stage[r] \in verified'[r]
  PROVE  RunVerifyOK(r)'
<1>1. stage'[r] = stage[r] + 1 /\ pc'[r] = "next"
  BY AdvanceFacts
<1>2. ASSUME NEW s \in Stages, s # stage[r], stages[r][s] = "completed", HasStore, HasVerifier
      PROVE  s \in verified'[r]
  BY <1>2 DEF VerifyInv, RunVerifyOK
<1>3. QED
  BY <1>1, <1>2 DEF RunVerifyOK

\* A run that stays at its stage leaves the other stages as they are.
LEMMA StaysVerified ==
  ASSUME VerifyInv, NEW r \in Runs, stage' = stage,
         \A s \in Stages \ {stage[r]} : stages'[r][s] = stages[r][s],
         verified[r] \subseteq verified'[r],
         spec[r] # "none" => spec'[r] # "none",
         HasStore /\ pc'[r] \in {"saving", "verifying"} => spec'[r] # "none",
         pc'[r] \notin {"idle", "loading"}
  PROVE  RunVerifyOK(r)'
BY DEF VerifyInv, RunVerifyOK

LEMMA CompletesVerified ==
  ASSUME HaltInv, HaltInv', RestTypeOK, RestTypeOK', VerifyInv, NEW r \in Runs,
         NEW cl \in BOOLEAN, StageCompletes(r, cl)
  PROVE  RunVerifyOK(r)'
<1>1. /\ stage[r] \in Stages /\ MarkStage(r, "completed") /\ verified' = verified
      /\ pc[r] = "polling"
  BY DEF StageCompletes, HaltInv, RunOK
<1>2. \A s \in Stages \ {stage[r]} : stages'[r][s] = stages[r][s]
  BY <1>1, MarkFacts
<1>3. /\ spec[r] # "none" => spec'[r] # "none"
      /\ HasStore /\ stage[r] = Decompose => spec'[r] # "none"
  BY DEF StageCompletes, RestTypeOK, SpecState
<1>4. HasStore => spec'[r] # "none"
  <2>1. stage[r] = Decompose \/ stage[r] > 1
    BY <1>1 DEF Stages, Decompose
  <2>2. QED
    BY <1>3, <2>1 DEF VerifyInv, RunVerifyOK
<1>5. \/ /\ stage' = stage /\ pc'[r] \in {"saving", "verifying"}
      \/ /\ Advance(r)
         /\ \/ ~HasVerifier
            \/ ~HasStore
            \/ spec[r] = "none" /\ stage[r] # Decompose
  BY DEF StageCompletes, AfterHooks, HaltInv, RunsTypeOK
<1>6. CASE stage' = stage /\ pc'[r] \in {"saving", "verifying"}
  BY <1>1, <1>2, <1>3, <1>4, <1>6, StaysVerified
<1>7. CASE Advance(r)
  <2>1. ~HasStore \/ ~HasVerifier
    <3>3. ~(stage' = stage)
      BY <1>1, <1>7, AdvanceFacts DEF Stages
    <3>1. stage[r] = Decompose \/ stage[r] > 1
      BY <1>1 DEF Stages, Decompose
    <3>2. QED
      BY <1>5, <3>3, <3>1 DEF VerifyInv, RunVerifyOK
  <2>2. QED
    BY <1>1, <1>2, <1>4, <1>7, <2>1, LeavesVerified
<1>8. QED
  BY <1>5, <1>6, <1>7

LEMMA VerifyStep ==
  ASSUME HaltInv, HaltInv', RestTypeOK, RestTypeOK', VerifyInv, SpecIsEmitted,
         NEW r \in Runs, Launch(r) \/ RunStep(r)
  PROVE  VerifyInv'
<1>1. \A q \in Runs \ {r} : /\ pc'[q] = pc[q] /\ stage'[q] = stage[q] /\ stages'[q] = stages[q]
                            /\ spec'[q] = spec[q] /\ verified'[q] = verified[q]
  BY DEF HaltInv, RunsTypeOK, RestTypeOK, Launch, RunStep, LoadSpec, SkipAtomic, SkipClean,
    SkipMissing, DispatchStage, Complete, PollAgain, StageFails, StageTimesOut,
    StageCompletes, SaveSpec, Verify, HookRaises, Halt, Advance, MarkStage
<1>2. ASSUME RunVerifyOK(r)' PROVE VerifyInv'
  <2>1. ASSUME NEW q \in Runs, q # r PROVE RunVerifyOK(q)'
    BY <1>1, <2>1 DEF VerifyInv, RunVerifyOK
  <2>2. QED
    BY <1>2, <2>1 DEF VerifyInv
<1>3. RunVerifyOK(r) /\ RunOK(r)
  BY DEF VerifyInv, HaltInv
<1>4. CASE Launch(r) \/ LoadSpec(r)
  <2>1. /\ pc[r] \in {"idle", "loading"} /\ pc'[r] \in {"loading", "next"}
        /\ UNCHANGED <<stage, stages, verified>>
    BY <1>4 DEF Launch, LoadSpec, HaltInv, RunsTypeOK
  <2>2. stage[r] = 1
    BY <1>3, <2>1 DEF RunVerifyOK
  <2>3. \A s \in Stages : stages[r][s] # "completed" \/ s = 1
    BY <1>3, <2>2 DEF RunOK, Stages
  <2>4. QED
    BY <1>2, <2>1, <2>2, <2>3 DEF RunVerifyOK
<1>5. CASE SkipAtomic(r)
  <2>1. /\ stage[r] \in Stages /\ MarkStage(r, "skipped") /\ verified' = verified
        /\ \/ Advance(r)
           \/ stage' = stage /\ pc'[r] \notin {"idle", "loading"}
    BY <1>5 DEF SkipAtomic, AtStage, Decompose, Stages, HaltInv, RunsTypeOK
  <2>2. HasStore => spec'[r] # "none"
    BY <1>5 DEF SkipAtomic, RestTypeOK
  <2>3. /\ stages'[r][stage[r]] = "skipped"
        /\ \A s \in Stages \ {stage[r]} : stages'[r][s] = stages[r][s]
    BY <2>1, MarkFacts
  <2>4. CASE Advance(r)
    BY <1>2, <2>1, <2>2, <2>3, <2>4, LeavesVerified
  <2>5. CASE stage' = stage /\ pc'[r] \notin {"idle", "loading"}
    <3>1. spec[r] # "none" => spec'[r] # "none"
      BY <1>5 DEF SkipAtomic, RestTypeOK
    <3>2. QED
      BY <1>2, <2>1, <2>2, <2>3, <2>5, <3>1, StaysVerified
  <2>6. QED
    BY <2>1, <2>4, <2>5
<1>6. CASE SkipClean(r) \/ SkipMissing(r)
  <2>1. /\ stage[r] \in Stages /\ MarkStage(r, "skipped") /\ UNCHANGED <<verified, spec>>
        /\ Advance(r)
    <3>1. Missing \subseteq Stages
      BY PipelineAssumption DEF PipelineAssumption
    <3>2. stage[r] = Cleanup \/ stage[r] \in Missing
      BY <1>6 DEF SkipClean, SkipMissing, AtStage
    <3>3. Cleanup \in Stages
      BY DEF Cleanup, Stages
    <3>4. QED
      BY <1>6, <3>1, <3>2, <3>3 DEF SkipClean, SkipMissing
  <2>2. HasStore => spec[r] # "none"
    <3>1. stage[r] > 1
      <4>1. stage[r] # Decompose
        BY <1>6 DEF SkipClean, SkipMissing, AtStage, Cleanup, Decompose, Skippable,
          SpecIsEmitted
      <4>2. QED
        BY <2>1, <4>1 DEF Decompose, Stages
    <3>2. QED
      BY <1>3, <3>1 DEF RunVerifyOK
  <2>3. /\ stages'[r][stage[r]] = "skipped"
        /\ \A s \in Stages \ {stage[r]} : stages'[r][s] = stages[r][s]
    BY <2>1, MarkFacts
  <2>4. QED
    BY <1>2, <2>1, <2>2, <2>3, LeavesVerified
<1>7. ASSUME NEW st \in {"running", "failed"}, stage[r] \in Stages, MarkStage(r, st),
             UNCHANGED <<stage, spec>>, verified[r] \subseteq verified'[r],
             pc'[r] \notin {"idle", "loading", "saving", "verifying"}
      PROVE  VerifyInv'
  <2>1. \A s \in Stages \ {stage[r]} : stages'[r][s] = stages[r][s]
    BY <1>7, MarkFacts
  <2>2. QED
    BY <1>2, <1>7, <2>1, StaysVerified
<1>8. CASE DispatchStage(r)
  BY <1>7, <1>8 DEF DispatchStage, HaltInv, RunsTypeOK
<1>9. CASE StageFails(r) \/ StageTimesOut(r)
  BY <1>3, <1>7, <1>9 DEF StageFails, StageTimesOut, Halt, RunOK, HaltInv, RunsTypeOK
<1>10. CASE Complete(r) \/ PollAgain(r) \/ HookRaises(r)
  <2>1. UNCHANGED <<stage, stages, spec, verified>> /\ pc'[r] \in {"polling", "done", "raised"}
    BY <1>10 DEF Complete, PollAgain, HookRaises, HaltInv, RunsTypeOK
  <2>2. QED
    BY <1>2, <2>1, StaysVerified
<1>11. ASSUME NEW cl \in BOOLEAN, StageCompletes(r, cl) PROVE VerifyInv'
  BY <1>2, <1>11, CompletesVerified
<1>12. CASE SaveSpec(r)
  <2>1. /\ stage[r] \in Stages /\ UNCHANGED <<stages, spec, verified>>
        /\ HasStore => spec[r] # "none"
        /\ \/ Advance(r) /\ ~(stages[r][stage[r]] = "completed" /\ HasVerifier)
           \/ stage' = stage /\ pc'[r] = "verifying"
    BY <1>3, <1>12 DEF SaveSpec, RunOK, RunVerifyOK, HaltInv, RunsTypeOK
  <2>2. QED
    BY <1>2, <2>1, LeavesVerified, StaysVerified
<1>13. ASSUME NEW passed \in BOOLEAN, Verify(r, passed) PROVE VerifyInv'
  <2>1. /\ stage[r] \in Stages /\ spec' = spec
        /\ HasStore => spec[r] # "none"
        /\ verified'[r] = verified[r] \cup {stage[r]}
        /\ \/ Advance(r) /\ stages' = stages
           \/ MarkStage(r, "failed") /\ stage' = stage /\ pc'[r] = "done"
    BY <1>3, <1>13 DEF Verify, Halt, RunOK, RunVerifyOK, HaltInv, RunsTypeOK, RestTypeOK
  <2>2. CASE Advance(r) /\ stages' = stages
    BY <1>2, <2>1, <2>2, LeavesVerified
  <2>3. CASE MarkStage(r, "failed") /\ stage' = stage /\ pc'[r] = "done"
    BY <1>7, <2>1, <2>3
  <2>4. QED
    BY <2>1, <2>2, <2>3
<1>14. QED
  BY <1>4, <1>5, <1>6, <1>8, <1>9, <1>10, <1>11, <1>12, <1>13 DEF RunStep

-----------------------------------------------------------------------------
(* The work of a stage                                                      *)

\* No two runs are for one issue.
IssuesAreApart == \A q, r \in Runs : Issue[q] = Issue[r] => q = r

\* What an await says of the current stage.
RunPhaseOK(r) ==
    /\ pc[r] \in {"idle", "loading", "next"} /\ stage[r] \in Stages
         => stages[r][stage[r]] = "pending"
    /\ pc[r] = "polling" => stages[r][stage[r]] = "running"
    /\ pc[r] = "verifying" => stages[r][stage[r]] = "completed"

\* A stage has work once it was dispatched, finished work when it is completed;
\* without clients only the deadline of a stage cancels its work.
StageWorkOK(r, s) ==
    /\ stages[r][s] \in {"pending", "skipped"} <=> ~Made(r, s)
    /\ stages[r][s] = "completed" => WorkStatus(r, s) \in {"completed", "cancelled"}
    /\ ~ClientCancels /\ Made(r, s) /\ WorkStatus(r, s) = "cancelled"
         => stages[r][s] = "failed"

WorkInv ==
    /\ \A r \in Runs : RunPhaseOK(r)
    /\ \A r \in Runs : \A s \in Stages : StageWorkOK(r, s)

\* The ids of different stages, and of the stages of different issues, differ.
LEMMA WorkIdsApart ==
  ASSUME NEW q \in Runs, NEW r \in Runs, NEW s \in Stages, NEW u \in Stages
  PROVE  /\ WorkId(Issue[r], s) \in WorkIds
         /\ WorkId(Issue[q], u) = WorkId(Issue[r], s) => Issue[q] = Issue[r] /\ u = s
<1>1. WorkId(Issue[r], s) \in WorkIds /\ Issue[q] \in Nat /\ Issue[r] \in Nat
  BY PipelineAssumption DEF PipelineAssumption
<1>2. /\ Alphabetical[s] \in 1..5 /\ Alphabetical[u] \in 1..5
      /\ Alphabetical[s] = Alphabetical[u] => s = u
  <2>1. s \in {1, 2, 3, 4, 5} /\ u \in {1, 2, 3, 4, 5}
    BY DEF Stages
  <2>2. /\ Alphabetical[1] = 2 /\ Alphabetical[2] = 5 /\ Alphabetical[3] = 3
        /\ Alphabetical[4] = 4 /\ Alphabetical[5] = 1
    BY DEF Alphabetical
  <2>3. QED
    BY <2>1, <2>2
<1>3. \A m, n \in Nat, a, b \in 1..5 : 10 * m + a = 10 * n + b => m = n /\ a = b
  OBVIOUS
<1>4. QED
  BY <1>1, <1>2, <1>3 DEF WorkId

\* What the engine does of its own accord to the work an id leads to.
LEMMA EngineSideFacts ==
  ASSUME EngineInv, ~ReuseIds, EngineSide, NEW i \in WorkIds, cur[i] # 0
  PROVE  /\ status[Current(i)] \in Terminal => status'[Current(i)] = status[Current(i)]
         /\ status'[Current(i)] = "cancelled" =>
              status[Current(i)] = "cancelled" \/ ClientCancels
<1>1. EngineTypeOK /\ Current(i) \in Objs
  BY SlotFacts DEF EngineInv
<1>2. Documented(Current(i))
  BY <1>1, FreshStep DEF EngineSide, EngineNext
<1>3. ASSUME NEW w \in Workers, WorkerStep(w), status'[Current(i)] # status[Current(i)]
      PROVE  status'[Current(i)] # "cancelled"
  <2>1. CASE PickUp(w)
    BY <1>1, <1>3, <2>1 DEF PickUp, EngineTypeOK
  <2>2. ASSUME NEW outcome \in {"completed", "failed"}, Finish(w, outcome)
        PROVE  status'[Current(i)] # "cancelled"
    BY <1>1, <1>3, <2>2 DEF Finish, EngineTypeOK
  <2>3. QED
    BY <1>3, <2>1, <2>2 DEF WorkerStep, SkipCancelled, Cancelled
<1>4. QED
  BY <1>2, <1>3 DEF EngineSide, Start, Stop, Documented, Terminal

LEMMA EngineSideKeepsCur ==
  ASSUME EngineSide
  PROVE  cur' = cur
BY DEF EngineSide, Start, Stop, WorkerStep, SkipCancelled, PickUp, Finish, Cancelled, Cancel

\* The engine and its clients leave what is recorded of finished work true.
LEMMA EngineSideKeepsWork ==
  ASSUME EngineInv, ~ReuseIds, WorkInv, EngineSide
  PROVE  WorkInv'
<1>1. UNCHANGED runVars /\ cur' = cur
  BY EngineSideKeepsCur DEF EngineSide
<1>2. \A r \in Runs : RunPhaseOK(r)'
  BY <1>1 DEF WorkInv, RunPhaseOK, runVars
<1>3. ASSUME NEW r \in Runs, NEW s \in Stages PROVE StageWorkOK(r, s)'
  <2>1. StageWorkOK(r, s) /\ stages' = stages /\ WorkId(Issue[r], s) \in WorkIds
    BY <1>1, WorkIdsApart DEF WorkInv, runVars
  <2>2. Made(r, s)' <=> Made(r, s)
    BY <1>1 DEF Made
  <2>3. CASE Made(r, s)
    <3>1. /\ WorkStatus(r, s) \in Terminal => WorkStatus(r, s)' = WorkStatus(r, s)
          /\ WorkStatus(r, s)' = "cancelled" => WorkStatus(r, s) = "cancelled" \/ ClientCancels
      BY <1>1, <2>1, <2>3, EngineSideFacts DEF WorkStatus, Work, Made, Current
    <3>2. QED
      BY <2>1, <2>2, <2>3, <3>1 DEF StageWorkOK, Terminal
  <2>4. CASE ~Made(r, s)
    BY <2>1, <2>2, <2>4 DEF StageWorkOK
  <2>5. QED
    BY <2>3, <2>4
<1>4. QED
  BY <1>2, <1>3 DEF WorkInv

\* A step of a run touches the work of its own stage only.
LEMMA OtherWorkUntouched ==
  ASSUME EngineInv, HaltInv, NEW r \in Runs, Launch(r) \/ RunStep(r),
         NEW i \in WorkIds, stage[r] \in Stages => i # WorkId(Issue[r], stage[r])
  PROVE  /\ cur'[i] = cur[i]
         /\ cur[i] # 0 => status'[Current(i)] = status[Current(i)]
<1>1. CASE UNCHANGED engineVars
  BY <1>1 DEF engineVars
<1>2. ASSUME NEW j \in WorkIds, j # i, Dispatch(j, P5) \/ Cancel(j)
      PROVE  /\ cur'[i] = cur[i]
             /\ cur[i] # 0 => status'[Current(i)] = status[Current(i)]
  <2>1. cur[i] # 0 => Current(i) \in Objs
    BY SlotFacts DEF EngineInv
  <2>2. Current(i) # <<j, cur[j] + 1>> /\ Current(i) # Current(j)
    BY <1>2 DEF Current
  <2>3. CASE Dispatch(j, P5)
    BY <1>2, <2>1, <2>2, <2>3 DEF Dispatch, EngineInv, EngineTypeOK
  <2>4. CASE Cancel(j)
    BY <1>2, <2>1, <2>2, <2>4 DEF Cancel, EngineInv, EngineTypeOK
  <2>5. QED
    BY <1>2, <2>3, <2>4
<1>3. \A s \in Stages : WorkId(Issue[r], s) \in WorkIds
  BY WorkIdsApart
<1>4. QED
  BY <1>1, <1>2, <1>3, RunStepsEngine

\* So it is enough to look at that stage.
LEMMA WorkOfRun ==
  ASSUME EngineInv, HaltInv, WorkInv, IssuesAreApart, NEW r \in Runs, Launch(r) \/ RunStep(r),
         \A q \in Runs \ {r} : pc'[q] = pc[q] /\ stage'[q] = stage[q] /\ stages'[q] = stages[q],
         \A s \in Stages : s # stage[r] => stages'[r][s] = stages[r][s],
         RunPhaseOK(r)',
         NEW s, s = stage[r], s \in Stages => StageWorkOK(r, s)'
  PROVE  WorkInv'
<1>1. \A q \in Runs : RunPhaseOK(q)'
  BY DEF WorkInv, RunPhaseOK
<1>2. ASSUME NEW q \in Runs, NEW u \in Stages, q # r \/ u # s
      PROVE  StageWorkOK(q, u)'
  <2>1. WorkId(Issue[q], u) \in WorkIds /\ StageWorkOK(q, u)
    BY WorkIdsApart DEF WorkInv
  <2>2. stage[r] \in Stages => WorkId(Issue[q], u) # WorkId(Issue[r], stage[r])
    BY <1>2, WorkIdsApart DEF IssuesAreApart
  <2>3. stages'[q][u] = stages[q][u]
    BY <1>2
  <2>4. /\ Made(q, u)' <=> Made(q, u)
        /\ Made(q, u) => WorkStatus(q, u)' = WorkStatus(q, u)
    BY <2>1, <2>2, OtherWorkUntouched DEF Made, WorkStatus, Work, Current
  <2>5. QED
    BY <2>1, <2>3, <2>4 DEF StageWorkOK
<1>3. QED
  BY <1>1, <1>2 DEF WorkInv

LEMMA AdvancePhase ==
  ASSUME HaltInv, NEW r \in Runs, stage[r] \in Stages, Advance(r),
         \A s \in Stages \ {stage[r]} : stages'[r][s] = stages[r][s]
  PROVE  RunPhaseOK(r)'
<1>1. stage'[r] = stage[r] + 1 /\ pc'[r] = "next"
  BY AdvanceFacts
<1>2. stage[r] + 1 > stage[r] /\ stage[r] + 1 # stage[r]
  BY DEF Stages
<1>3. QED
  BY <1>1, <1>2 DEF RunPhaseOK, HaltInv, RunOK

LEMMA RunKeepsWork ==
  ASSUME EngineInv, HaltInv, HaltInv', WorkInv, IssuesAreApart, ~ReuseIds, NEW r \in Runs,
         Launch(r) \/ RunStep(r)
  PROVE  WorkInv'
<1> PICK s : s = stage[r]
  OBVIOUS
<1>1. \A q \in Runs \ {r} : pc'[q] = pc[q] /\ stage'[q] = stage[q] /\ stages'[q] = stages[q]
  BY DEF HaltInv, RunsTypeOK, Launch, RunStep, LoadSpec, SkipAtomic, SkipClean,
    SkipMissing, DispatchStage, Complete, PollAgain, StageFails, StageTimesOut,
    StageCompletes, SaveSpec, Verify, HookRaises, Halt, Advance, MarkStage
<1>2. RunPhaseOK(r) /\ RunOK(r) /\ \A u \in Stages : StageWorkOK(r, u)
  BY DEF WorkInv, HaltInv
<1>3. ASSUME UNCHANGED engineVars, UNCHANGED stages, RunPhaseOK(r)'
      PROVE  WorkInv'
  <2>1. s \in Stages => StageWorkOK(r, s)'
    BY <1>2, <1>3 DEF StageWorkOK, Made, WorkStatus, Work, Current, engineVars
  <2>2. QED
    BY <1>1, <1>3, <2>1, WorkOfRun
<1>4. ASSUME UNCHANGED engineVars, s \in Stages, MarkStage(r, "skipped"), stages[r][s] = "pending",
             Advance(r) \/ pc'[r] = "saving"
      PROVE  WorkInv'
  <2>1. /\ stages'[r][s] = "skipped"
        /\ \A u \in Stages \ {s} : stages'[r][u] = stages[r][u]
    BY <1>4, MarkFacts
  <2>2. StageWorkOK(r, s)'
    BY <1>2, <1>4, <2>1 DEF StageWorkOK, Made, engineVars
  <2>3. RunPhaseOK(r)'
    BY <1>4, <2>1, AdvancePhase DEF RunPhaseOK
  <2>4. QED
    BY <1>1, <1>4, <2>1, <2>2, <2>3, WorkOfRun
<1>5. CASE Launch(r) \/ LoadSpec(r) \/ PollAgain(r) \/ Complete(r) \/ HookRaises(r)
  <2>1. UNCHANGED <<engineVars, stage, stages>>
    BY <1>5 DEF Launch, LoadSpec, PollAgain, Complete, HookRaises
  <2>2. \/ pc'[r] = pc[r]
        \/ pc'[r] \in {"done", "raised"}
        \/ pc[r] \in {"idle", "loading"} /\ pc'[r] \in {"loading", "next"}
    BY <1>5 DEF Launch, LoadSpec, PollAgain, Complete, HookRaises, HaltInv, RunsTypeOK
  <2>3. RunPhaseOK(r)'
    BY <1>2, <2>1, <2>2 DEF RunPhaseOK
  <2>4. QED
    BY <1>3, <2>1, <2>3
<1>6. CASE SkipAtomic(r)
  <2>1. /\ UNCHANGED engineVars /\ s \in Stages /\ MarkStage(r, "skipped")
        /\ Advance(r) \/ pc'[r] = "saving"
    BY <1>6 DEF SkipAtomic, AtStage, Decompose, Stages, HaltInv, RunsTypeOK
  <2>2. stages[r][s] = "pending"
    BY <1>2, <1>6, <2>1 DEF SkipAtomic, AtStage, RunPhaseOK
  <2>3. QED
    BY <1>4, <2>1, <2>2
<1>7. CASE SkipClean(r) \/ SkipMissing(r)
  <2>1. s = Cleanup \/ s \in Missing
    BY <1>7 DEF SkipClean, SkipMissing, AtStage
  <2>2. s \in Stages
    <3>1. Missing \subseteq Stages
      BY PipelineAssumption DEF PipelineAssumption
    <3>2. Cleanup \in Stages
      BY DEF Cleanup, Stages
    <3>3. QED
      BY <2>1, <3>1, <3>2
  <2>3. stages[r][s] = "pending"
    BY <1>2, <1>7, <2>2 DEF SkipClean, SkipMissing, AtStage, RunPhaseOK
  <2>4. QED
    BY <1>4, <1>7, <2>2, <2>3 DEF SkipClean, SkipMissing
<1>8. CASE DispatchStage(r)
  <2>1. /\ s \in Stages /\ MarkStage(r, "running") /\ stage' = stage /\ pc'[r] = "polling"
        /\ Dispatch(WorkId(Issue[r], s), P5)
    BY <1>8 DEF DispatchStage, HaltInv, RunsTypeOK
  <2>2. /\ stages'[r][s] = "running"
        /\ \A u \in Stages \ {s} : stages'[r][u] = stages[r][u]
    BY <2>1, MarkFacts
  <2>3. WorkId(Issue[r], s) \in WorkIds /\ EngineTypeOK
    BY <2>1, WorkIdsApart DEF EngineInv
  <2>4. Made(r, s)' /\ WorkStatus(r, s)' = "queued"
    <3>1. cur[WorkId(Issue[r], s)] = 0 /\ 0 + 1 = 1 /\ 1 \in Gens
      BY <2>1, EngineAssumption DEF Dispatch, EngineAssumption, Gens
    <3>2. cur'[WorkId(Issue[r], s)] = 1
      BY <2>1, <2>3, <3>1 DEF Dispatch, EngineTypeOK
    <3>3. <<WorkId(Issue[r], s), 1>> \in Objs
      BY <2>3, <3>1, ObjFacts
    <3>4. status'[<<WorkId(Issue[r], s), 1>>] = "queued"
      BY <2>1, <2>3, <3>1, <3>3 DEF Dispatch, EngineTypeOK
    <3>5. QED
      BY <3>2, <3>4 DEF Made, WorkStatus, Work, Current
  <2>5. StageWorkOK(r, s)' /\ RunPhaseOK(r)'
    BY <2>1, <2>2, <2>4 DEF StageWorkOK, RunPhaseOK
  <2>6. QED
    BY <1>1, <1>8, <2>2, <2>5, WorkOfRun
<1>9. CASE StageFails(r) \/ StageTimesOut(r)
  <2>1. s \in Stages /\ Halt(r) /\ stage' = stage /\ pc'[r] = "done" /\ stages[r][s] = "running"
    BY <1>2, <1>9
      DEF StageFails, StageTimesOut, Halt, RunOK, RunPhaseOK, HaltInv, RunsTypeOK
  <2>2. /\ stages'[r][s] = "failed"
        /\ \A u \in Stages \ {s} : stages'[r][u] = stages[r][u]
    BY <2>1, MarkFacts DEF Halt
  <2>3. cur' = cur
    BY <1>9 DEF StageFails, StageTimesOut, Cancel, engineVars
  <2>4. StageWorkOK(r, s)' /\ RunPhaseOK(r)'
    BY <1>2, <2>1, <2>2, <2>3 DEF StageWorkOK, RunPhaseOK, Made
  <2>5. QED
    BY <1>1, <1>9, <2>2, <2>4, WorkOfRun
<1>10. ASSUME NEW cl \in BOOLEAN, StageCompletes(r, cl) PROVE WorkInv'
  <2>1. /\ s \in Stages /\ MarkStage(r, "completed") /\ UNCHANGED engineVars
        /\ stages[r][s] = "running"
        /\ WorkStatus(r, s) \in {"completed", "cancelled"}
        /\ \/ Advance(r)
           \/ stage' = stage /\ pc'[r] \in {"saving", "verifying"}
    BY <1>2, <1>10
      DEF StageCompletes, AfterHooks, RunOK, RunPhaseOK, HaltInv, RunsTypeOK
  <2>2. /\ stages'[r][s] = "completed"
        /\ \A u \in Stages \ {s} : stages'[r][u] = stages[r][u]
    BY <2>1, MarkFacts
  <2>3. StageWorkOK(r, s)'
    BY <1>2, <2>1, <2>2 DEF StageWorkOK, Made, WorkStatus, Work, Current, engineVars
  <2>4. RunPhaseOK(r)'
    BY <2>1, <2>2, AdvancePhase DEF RunPhaseOK
  <2>5. QED
    BY <1>1, <1>10, <2>2, <2>3, <2>4, WorkOfRun DEF RunStep
<1>11. CASE SaveSpec(r)
  <2>1. /\ s \in Stages /\ UNCHANGED <<engineVars, stages>>
        /\ \/ Advance(r)
           \/ stages[r][s] = "completed" /\ stage' = stage /\ pc'[r] = "verifying"
    BY <1>2, <1>11 DEF SaveSpec, RunOK, HaltInv, RunsTypeOK
  <2>2. RunPhaseOK(r)'
    BY <2>1, AdvancePhase DEF RunPhaseOK
  <2>3. QED
    BY <1>3, <2>1, <2>2
<1>12. ASSUME NEW passed \in BOOLEAN, Verify(r, passed) PROVE WorkInv'
  <2>1. /\ s \in Stages /\ UNCHANGED engineVars /\ stages[r][s] = "completed"
        /\ \/ Advance(r) /\ UNCHANGED stages
           \/ Halt(r) /\ stage' = stage /\ pc'[r] = "done"
    BY <1>2, <1>12 DEF Verify, Halt, RunOK, RunPhaseOK, HaltInv, RunsTypeOK
  <2>2. CASE Advance(r) /\ UNCHANGED stages
    BY <1>3, <2>1, <2>2, AdvancePhase
  <2>3. CASE Halt(r) /\ stage' = stage /\ pc'[r] = "done"
    <3>1. /\ stages'[r][s] = "failed"
          /\ \A u \in Stages \ {s} : stages'[r][u] = stages[r][u]
      BY <2>1, <2>3, MarkFacts DEF Halt
    <3>2. StageWorkOK(r, s)' /\ RunPhaseOK(r)'
      BY <1>2, <2>1, <2>3, <3>1
        DEF StageWorkOK, RunPhaseOK, Made, WorkStatus, Work, Current, engineVars
    <3>3. QED
      BY <1>1, <1>12, <3>1, <3>2, WorkOfRun DEF RunStep
  <2>4. QED
    BY <2>1, <2>2, <2>3
<1>13. QED
  BY <1>5, <1>6, <1>7, <1>8, <1>9, <1>10, <1>11, <1>12 DEF RunStep

PipelineInv == EngineInv /\ HaltInv /\ RestTypeOK

\* Types and halting, for any runs over any engine.
LEMMA PipelineInvariance ==
  /\ PipelineInit => PipelineInv
  /\ PipelineInv /\ [PipelineNext]_pipelineVars => PipelineInv'
<1>1. PipelineInit => RestTypeOK
  BY PipelineAssumption DEF PipelineAssumption, PipelineInit, RestTypeOK, SpecState
<1>2. PipelineInit => PipelineInv
  BY <1>1, EngineInitInv, HaltInitially DEF PipelineInit, PipelineInv
<1>3. PipelineInv /\ [PipelineNext]_pipelineVars => PipelineInv'
  BY PipelineStepsEngine, EngineStepInv, HaltStep, RestTypeStep DEF PipelineInv
<1>4. QED
  BY <1>2, <1>3

LEMMA WorkInitially ==
  ASSUME PipelineInit
  PROVE  WorkInv
<1>1. \A r \in Runs : \A s \in Stages : stages[r][s] = "pending" /\ ~Made(r, s)
  BY WorkIdsApart DEF PipelineInit, EngineInit, Made
<1>2. QED
  BY <1>1 DEF PipelineInit, WorkInv, RunPhaseOK, StageWorkOK

LEMMA WorkStepInv ==
  ASSUME PipelineInv, PipelineInv', WorkInv, IssuesAreApart, ~ReuseIds,
         [PipelineNext]_pipelineVars
  PROVE  WorkInv'
<1>1. CASE EngineSide
  BY <1>1, EngineSideKeepsWork DEF PipelineInv
<1>2. CASE UNCHANGED pipelineVars
  BY <1>2 DEF pipelineVars, runVars, engineVars, WorkInv, RunPhaseOK, StageWorkOK, Made,
    WorkStatus, Work, Current
<1>3. ASSUME NEW r \in Runs, Launch(r) \/ RunStep(r) PROVE WorkInv'
  BY <1>3, RunKeepsWork DEF PipelineInv
<1>4. QED
  BY <1>1, <1>2, <1>3 DEF PipelineNext

LEMMA VerifyStepInv ==
  ASSUME PipelineInv, PipelineInv', VerifyInv, SpecIsEmitted, [PipelineNext]_pipelineVars
  PROVE  VerifyInv'
<1>1. CASE EngineSide \/ UNCHANGED pipelineVars
  BY <1>1 DEF EngineSide, pipelineVars, runVars, VerifyInv, RunVerifyOK
<1>2. ASSUME NEW r \in Runs, Launch(r) \/ RunStep(r) PROVE VerifyInv'
  BY <1>2, VerifyStep DEF PipelineInv
<1>3. QED
  BY <1>1, <1>2 DEF PipelineNext

\* What the work of the stages says of their order.
LEMMA StagesInOrder ==
  ASSUME PipelineInv, WorkInv
  PROVE  StagesDoNotOverlap
<1> SUFFICES ASSUME NEW r \in Runs, NEW s \in Stages, stages[r][s] = "running",
                    NEW u \in Stages, u < s, Made(r, u)
             PROVE  WorkStatus(r, u) \in Terminal
  BY DEF StagesDoNotOverlap
<1>1. stage[r] \in 1..6 /\ RunOK(r) /\ StageWorkOK(r, u)
  BY DEF PipelineInv, HaltInv, RunsTypeOK, WorkInv
<1>2. s = stage[r]
  <2>1. s < stage[r] \/ s = stage[r] \/ s > stage[r]
    BY <1>1 DEF Stages
  <2>2. QED
    BY <1>1, <2>1 DEF RunOK, Past
<1>3. stages[r][u] = "completed"
  BY <1>1, <1>2 DEF RunOK, Past, StageWorkOK
<1>4. QED
  BY <1>1, <1>3 DEF StageWorkOK, Terminal

\* The records of a run keep their types, its stages never overlap in the engine
\* and none of a completed run goes unverified, for runs of different issues whose
\* stage that emits the spec is there (execute()).
THEOREM StagesAreAlwaysSound ==
  ~ReuseIds /\ IssuesAreApart /\ SpecIsEmitted => (PipelineSafety => []StagesAreSound)
<1> SUFFICES ASSUME ~ReuseIds, IssuesAreApart, SpecIsEmitted
             PROVE  PipelineSafety => []StagesAreSound
  OBVIOUS
<1> DEFINE I == PipelineInv /\ WorkInv /\ VerifyInv
<1>1. PipelineInit => I
  <2>1. PipelineInit => VerifyInv
    BY DEF PipelineInit, VerifyInv, RunVerifyOK, Stages
  <2>2. QED
    BY <2>1, PipelineInvariance, WorkInitially
<1>2. I /\ [PipelineNext]_pipelineVars => I'
  BY PipelineInvariance, WorkStepInv, VerifyStepInv
<1>3. I => StagesAreSound
  <2> SUFFICES ASSUME I PROVE StagesAreSound
    OBVIOUS
  <2>1. PipelineTypeOK
    BY DEF PipelineTypeOK, PipelineInv, EngineInv, HaltInv, RunsTypeOK, RestTypeOK
  <2>2. EveryStageVerified
    <3> SUFFICES ASSUME NEW r \in Runs, HasStore, HasVerifier, runStatus[r] = "completed",
                        NEW s \in Stages, stages[r][s] = "completed"
                 PROVE  s \in verified[r]
      BY DEF EveryStageVerified
    <3>1. stage[r] = 6 /\ 6 \notin Stages
      BY DEF PipelineInv, HaltInv, RunOK, Stages
    <3>2. QED
      BY <3>1 DEF VerifyInv, RunVerifyOK
  <2>3. QED
    BY <2>1, <2>2, StagesInOrder DEF StagesAreSound
<1>4. QED
  BY <1>1, <1>2, <1>3, PTL DEF PipelineSafety

\* As long as no client cancels work a stage is completed on the strength of
\* completed work only (the poll loop of execute()).
THEOREM CompletedOnWork ==
  ~ReuseIds /\ ~ClientCancels /\ IssuesAreApart
    => (PipelineSafety => []CompletedStageHasWork)
<1> SUFFICES ASSUME ~ReuseIds, ~ClientCancels, IssuesAreApart
             PROVE  PipelineSafety => []CompletedStageHasWork
  OBVIOUS
<1> DEFINE I == PipelineInv /\ WorkInv
<1>1. PipelineInit => I
  BY PipelineInvariance, WorkInitially
<1>2. I /\ [PipelineNext]_pipelineVars => I'
  BY PipelineInvariance, WorkStepInv
<1>3. I => CompletedStageHasWork
  BY DEF CompletedStageHasWork, WorkInv, StageWorkOK
<1>4. QED
  BY <1>1, <1>2, <1>3, PTL DEF PipelineSafety

\* A stage finds its id unused: asking for fresh ids takes nothing from such runs.
THEOREM StageIdsAreFresh ==
  ~ReuseIds /\ IssuesAreApart =>
    (PipelineSafety =>
       [](\A r \in Runs : pc[r] = "next" /\ stage[r] \in Stages
                            => cur[WorkId(Issue[r], stage[r])] = 0))
<1> SUFFICES ASSUME ~ReuseIds, IssuesAreApart
             PROVE  PipelineSafety =>
                      [](\A r \in Runs : pc[r] = "next" /\ stage[r] \in Stages
                                           => cur[WorkId(Issue[r], stage[r])] = 0)
  OBVIOUS
<1> DEFINE I == PipelineInv /\ WorkInv
<1>1. PipelineInit => I
  BY PipelineInvariance, WorkInitially
<1>2. I /\ [PipelineNext]_pipelineVars => I'
  BY PipelineInvariance, WorkStepInv
<1>3. I => \A r \in Runs : pc[r] = "next" /\ stage[r] \in Stages
                             => cur[WorkId(Issue[r], stage[r])] = 0
  BY DEF WorkInv, RunPhaseOK, StageWorkOK, Made
<1>4. QED
  BY <1>1, <1>2, <1>3, PTL DEF PipelineSafety
=============================================================================
